----------------------------- MODULE Threads_proofs -----------------------------
(* The two threads behind a synchronous object (_loop.py): the event loop its  *)
(* calls run on and the thread its handlers run on, for any number of callers, *)
(* loops, handlers and threads; and the event streams read through them        *)
(* (client.py), for any number of events, limits and buffers.                  *)
EXTENDS LoopThreads, EventStream, SequenceTheorems, TLAPS

-----------------------------------------------------------------------------
(* The event loop.                                                             *)
LoopTypeOK ==
  /\ loops \in Seq({"up", "stopping", "final", "stopped", "cancelled", "closed", "gone"})
  /\ currentLoop \in 0..Len(loops) /\ taken \in 0..Len(loops)
  /\ caller \in [Callers -> {"idle", "holding", "posted", "task", "done", "cancelled", "raised"}]
  /\ on \in [Callers -> 0..Len(loops)] /\ early \subseteq Callers
  /\ stopper \in {"idle", "took", "waits"}

(* A call posted before the shutdown of its loop was has become a task by the  *)
(* time the shutdown runs, and that task is over by the time the loop is empty. *)
EarlyKeepsUp ==
  \A c \in early :
    /\ on[c] # 0 /\ caller[c] \in {"posted", "task", "done", "cancelled"}
    /\ loops[on[c]] \in {"final", "stopped"} => caller[c] # "posted"
    /\ loops[on[c]] \in {"cancelled", "closed"} => caller[c] \in {"done", "cancelled"}

(* A loop that still takes calls is the one loop() hands out, or the one that  *)
(* stop() just took out.                                                       *)
UpIsHeld ==
  \A l \in DOMAIN loops : loops[l] = "up" => l = currentLoop \/ (l = taken /\ stopper = "took")

(* Only a stop under way holds a loop.                                         *)
TakenIsHeld == (stopper = "idle") = (taken = 0)

(* Who called through a loop got one.                                          *)
CallerHasLoop == \A c \in Callers : caller[c] \in {"holding", "posted", "task"} => on[c] # 0

LoopInv == LoopTypeOK /\ CallerHasLoop /\ EarlyKeepsUp /\ UpIsHeld /\ TakenIsHeld

LEMMA CallerStep ==
  ASSUME LoopInv, NEW c \in Callers, GetsLoop(c) \/ RefusedOnLoop(c) \/ Posts(c) \/ LoopTurns(c)
  PROVE  LoopInv'
<1> USE DEF LoopInv, LoopTypeOK, CallerHasLoop, EarlyKeepsUp, UpIsHeld, TakenIsHeld, Becomes
<1>1. CASE GetsLoop(c)
  <2>1. CASE currentLoop # 0 /\ Alive(currentLoop)
    BY <1>1, <2>1 DEF GetsLoop
  <2>2. CASE ~(currentLoop # 0 /\ Alive(currentLoop))
    <3>1. /\ loops' = Append(loops, "up") /\ currentLoop' = Len(loops) + 1
          /\ on' = [on EXCEPT ![c] = Len(loops) + 1] /\ Len(loops') = Len(loops) + 1
          /\ caller' = [caller EXCEPT ![c] = "holding"] /\ UNCHANGED <<early, stopper, taken>>
      BY <1>1, <2>2 DEF GetsLoop
    <3>2. \A l \in 1..Len(loops) : loops'[l] = loops[l]  BY <3>1
    <3>3. currentLoop # 0 => loops[currentLoop] # "up"  BY <2>2 DEF Alive
    <3>4. c \notin early  BY <1>1 DEF GetsLoop
    <3>5. EarlyKeepsUp'  BY <3>1, <3>2, <3>4
    <3>6. UpIsHeld'  BY <3>1, <3>2, <3>3
    <3> QED  BY <3>1, <3>2, <3>5, <3>6
  <2> QED  BY <2>1, <2>2
<1>2. CASE RefusedOnLoop(c)  BY <1>2 DEF RefusedOnLoop
<1>3. CASE Posts(c)
  <2>1. c \notin early  BY <1>3 DEF Posts
  <2> QED  BY <1>3, <2>1 DEF Posts
<1>4. CASE LoopTurns(c)  BY <1>4 DEF LoopTurns
<1> QED  BY <1>1, <1>2, <1>3, <1>4

LEMMA StopStep ==
  ASSUME LoopInv, StopTakes \/ StopPosts \/ StopReturns \/ Fork
  PROVE  LoopInv'
<1> USE DEF LoopInv, LoopTypeOK, CallerHasLoop, EarlyKeepsUp, UpIsHeld, TakenIsHeld
<1>1. CASE StopTakes
  BY <1>1 DEF StopTakes, Alive
<1>2. CASE StopPosts
  BY <1>2 DEF StopPosts, Turn
<1>3. CASE StopReturns
  BY <1>3 DEF StopReturns
<1>4. CASE Fork
  <2>1. \A l \in DOMAIN loops' : loops'[l] # "up" /\ (loops'[l] = "closed" => loops[l] = "closed")
                                /\ loops'[l] \in {"closed", "gone"}
    BY <1>4 DEF Fork, Alive
  <2>2. loops' \in Seq({"up", "stopping", "final", "stopped", "cancelled", "closed", "gone"})
        /\ Len(loops') = Len(loops)
    BY <1>4 DEF Fork, Alive
  <2> QED  BY <1>4, <2>1, <2>2 DEF Fork
<1> QED  BY <1>1, <1>2, <1>3, <1>4

LEMMA ShutdownStep ==
  ASSUME LoopInv, NEW l \in DOMAIN loops,
         ShutdownRuns(l) \/ LoopStops(l) \/ CancelsAll(l) \/ Closes(l)
  PROVE  LoopInv'
<1> USE DEF LoopInv, LoopTypeOK, CallerHasLoop, EarlyKeepsUp, UpIsHeld, TakenIsHeld, Turn
<1>1. CASE ShutdownRuns(l)
  <2>1. \A c \in early : on[c] = l => caller[c] # "posted"
    BY <1>1 DEF ShutdownRuns, ReadyOn
  <2> QED  BY <1>1, <2>1 DEF ShutdownRuns
<1>2. CASE LoopStops(l)  BY <1>2 DEF LoopStops
<1>3. CASE CancelsAll(l)
  <2>1. \A c \in early : on[c] = l => caller'[c] \in {"done", "cancelled"}
    BY <1>3 DEF CancelsAll, TasksOn
  <2> QED  BY <1>3, <2>1 DEF CancelsAll, TasksOn
<1>4. CASE Closes(l)  BY <1>4 DEF Closes
<1> QED  BY <1>1, <1>2, <1>3, <1>4

(* However stop(), a fork and the calls of other threads fall together, what   *)
(* was posted before a loop was stopped ran or was cancelled by the time it is *)
(* closed, and one loop at a time takes new calls (_loop.py:103-121, 163-211). *)
THEOREM NobodyWaitsOnAClosedLoop == LoopSpec => []NoneLeftWaiting
<1>1. LoopInit => LoopInv
  BY LoopShape DEF LoopInit, LoopInv, LoopTypeOK, CallerHasLoop, EarlyKeepsUp, UpIsHeld, TakenIsHeld
<1>2. LoopInv /\ [LoopNext]_loopVars => LoopInv'
  <2>1. LoopInv /\ UNCHANGED loopVars => LoopInv'
    BY DEF loopVars, LoopInv, LoopTypeOK, CallerHasLoop, EarlyKeepsUp, UpIsHeld, TakenIsHeld
  <2> QED  BY <2>1, CallerStep, StopStep, ShutdownStep DEF LoopNext
<1>3. LoopInv => NoneLeftWaiting
  BY DEF LoopInv, LoopTypeOK, EarlyKeepsUp, UpIsHeld, NoneLeftWaiting
<1> QED  BY <1>1, <1>2, <1>3, PTL DEF LoopSpec

-----------------------------------------------------------------------------
(* Queues: what a thread ran, followed by what it has, is what it was given.   *)
Handlers == Nat \ {STOP}

(* Work that is put goes behind all of it.                                     *)
LEMMA PutIsLast ==
  ASSUME NEW r \in Seq(Nat), NEW q \in Seq(Nat), NEW e \in Nat
  PROVE  r \o Append(q, e) = Append(r \o q, e)
<1>1. r \o (q \o <<e>>) = (r \o q) \o <<e>>
  BY ConcatAssociative
<1>2. r \o q \in Seq(Nat)
  BY ConcatProperties
<1> QED  BY <1>1, <1>2, AppendIsConcat

(* Work that is taken moves from one part to the other.                        *)
LEMMA TakenIsNext ==
  ASSUME NEW r \in Seq(Nat), NEW q \in Seq(Nat), q # <<>>
  PROVE  Append(r, Head(q)) \o Tail(q) = r \o q
<1>1. Head(q) \in Nat /\ Tail(q) \in Seq(Nat) /\ Len(Tail(q)) = Len(q) - 1
      /\ \A n \in 1..Len(Tail(q)) : Tail(q)[n] = q[n + 1]
  BY HeadTailProperties
<1>2. <<Head(q)>> \o Tail(q) = q
  BY <1>1
<1>3. (r \o <<Head(q)>>) \o Tail(q) = r \o (<<Head(q)>> \o Tail(q))
  BY SMTT(30), <1>1, ConcatAssociative
<1> QED  BY <1>1, <1>2, <1>3, AppendIsConcat

(* The word to end is only ever the last one.                                  *)
LEMMA StopIsLast ==
  ASSUME NEW r \in Seq(Handlers), NEW q \in Seq(Nat), NEW g \in Seq(Handlers),
         r \o q \in {g, Append(g, STOP)}
  PROVE  /\ IsPrefix(r, g)
         /\ q # <<>> /\ Head(q) = STOP => q = <<STOP>> /\ r = g /\ r \o q = Append(g, STOP)
         /\ q = <<>> => r = g
         /\ r \o q = Append(g, STOP) => STOP \in Range(q)
<1> USE DEF STOP, Handlers
<1>1. /\ r \in Seq(Nat) /\ g \in Seq(Nat) /\ Len(r) \in Nat /\ Len(g) \in Nat /\ Len(q) \in Nat
      /\ \A n \in 1..Len(r) : r[n] # 0
      /\ \A n \in 1..Len(g) : g[n] # 0
  OBVIOUS
<1>2. /\ Len(r \o q) = Len(r) + Len(q)
      /\ \A n \in 1..Len(r) : (r \o q)[n] = r[n]
      /\ \A n \in 1..Len(q) : (r \o q)[Len(r) + n] = q[n]
  <2>1. \A n \in 1..(Len(r) + Len(q)) : (r \o q)[n] = IF n <= Len(r) THEN r[n] ELSE q[n - Len(r)]
    BY <1>1, ConcatProperties
  <2>2. Len(r \o q) = Len(r) + Len(q)
    BY <1>1, ConcatProperties
  <2> QED  BY <1>1, <2>1, <2>2
<1>3. /\ Len(Append(g, 0)) = Len(g) + 1 /\ Append(g, 0)[Len(g) + 1] = 0
      /\ \A n \in 1..Len(g) : Append(g, 0)[n] = g[n]
  BY <1>1, AppendProperties
<1>4. CASE r \o q = g
  <2>1. Len(r) + Len(q) = Len(g) /\ \A n \in 1..Len(q) : q[n] # 0
    <3>1. Len(r) + Len(q) = Len(g)  BY <1>2, <1>4
    <3>2. \A n \in 1..Len(q) : q[n] = g[Len(r) + n] /\ Len(r) + n \in 1..Len(g)
      BY SMTT(30), <1>1, <1>2, <1>4, <3>1
    <3> QED  BY <1>1, <3>1, <3>2
  <2>2. q # <<>> => Head(q) # 0
    BY <1>1, <2>1
  <2>3. q = <<>> => r = g
    BY <1>1, <1>4, ConcatEmptySeq
  <2>4. IsPrefix(r, g)
    BY <1>1, <1>2, <1>4, <2>1 DEF IsPrefix
  <2>5. r \o q # Append(g, 0)
    BY <1>1, <1>3, <1>4
  <2> QED  BY <2>2, <2>3, <2>4, <2>5
<1>5. CASE r \o q = Append(g, 0)
  <2>1. Len(r) + Len(q) = Len(g) + 1
    BY <1>2, <1>3, <1>5
  <2>2. Len(q) # 0
    <3>1. Len(q) = 0 => Len(r) \in 1..Len(r) /\ (r \o q)[Len(r)] = 0
      BY <1>1, <1>3, <1>5, <2>1
    <3> QED  BY <1>1, <1>2, <3>1
  <2>3. q[Len(q)] = 0
    <3>1. (r \o q)[Len(r) + Len(q)] = q[Len(q)]  BY <1>1, <1>2, <2>2
    <3> QED  BY <1>3, <1>5, <2>1, <3>1
  <2>4. \A n \in 1..Len(r) : r[n] = g[n]
    BY <1>1, <1>2, <1>3, <1>5, <2>1, <2>2
  <2>5. IsPrefix(r, g)
    BY <1>1, <2>1, <2>2, <2>4 DEF IsPrefix
  <2>6. ASSUME Head(q) = 0 PROVE Len(q) = 1
    <3>1. q[1] = 0 /\ (r \o q)[Len(r) + 1] = q[1]  BY <1>1, <1>2, <2>2, <2>6
    <3>2. Len(r) < Len(g) => Len(r) + 1 \in 1..Len(g)  BY <1>1
    <3>3. Len(r) < Len(g) => g[Len(r) + 1] = 0  BY <1>3, <1>5, <3>1, <3>2
    <3>4. ~(Len(r) < Len(g))  BY <1>1, <3>2, <3>3
    <3>5. \A a, b, c \in Nat : a + b = c + 1 /\ b # 0 /\ ~(a < c) => b = 1  OBVIOUS
    <3> QED  BY <1>1, <2>1, <2>2, <3>4, <3>5
  <2>7. Len(q) = 1 => q = <<0>> /\ r = g
    <3>1. Len(q) = 1 => Len(r) = Len(g)  BY <1>1, <2>1
    <3> QED  BY <1>1, <2>3, <2>4, <3>1, SeqEqual
  <2>8. 0 \in Range(q)
    BY <1>1, <2>2, <2>3 DEF Range
  <2> QED  BY <1>5, <2>2, <2>5, <2>6, <2>7, <2>8
<1> QED  BY <1>4, <1>5

-----------------------------------------------------------------------------
(* The handlers.                                                               *)
HandlerTypeOK ==
  /\ posted \in Nat /\ handlerQ \in Seq(Seq(Nat)) /\ given \in Seq(Seq(Handlers)) /\ ran \in Seq(Seq(Handlers))
  /\ Len(given) = Len(handlerQ) /\ Len(ran) = Len(handlerQ) /\ Len(handling) = Len(handlerQ)
  /\ handling \in Seq(Nat) /\ currentThread \in 0..Len(handlerQ) /\ gone \subseteq 1..Len(handlerQ)

(* The thread that takes handlers is the last one started, and is alive; a     *)
(* thread that ended has nothing left.                                         *)
CurrentIsLast == currentThread \in {0, Len(handlerQ)} /\ currentThread \notin gone
EndedIsEmpty == \A t \in gone : handlerQ[t] = <<>>

(* What a thread started, then what waits in its queue, is what it was given,  *)
(* and then the word to end if it was told.                                    *)
Told(t) == t # currentThread /\ t \notin gone
QueueIsRest ==
  \A t \in 1..Len(handlerQ) :
    ran[t] \o handlerQ[t] = IF Told(t) THEN Append(given[t], STOP) ELSE given[t]

(* Each handler was given to one thread, and each thread got later ones than   *)
(* the thread before it.                                                       *)
GivenOnce ==
  /\ \A n \in 1..posted : \E t \in 1..Len(given) : \E k \in 1..Len(given[t]) : given[t][k] = n
  /\ \A t \in 1..Len(given) : \A k \in 1..Len(given[t]) : given[t][k] \in 1..posted
GivenInOrder ==
  \A s, t \in 1..Len(given) : \A m \in 1..Len(given[s]), n \in 1..Len(given[t]) :
    s < t \/ (s = t /\ m < n) => given[s][m] < given[t][n]

HandlerInv ==
  HandlerTypeOK /\ CurrentIsLast /\ EndedIsEmpty /\ QueueIsRest /\ GivenOnce /\ GivenInOrder

(* The next handler given is the last of the last thread, whether that thread  *)
(* is the one there is or a new one; the others stay where they are.           *)
NextGiven ==
  LET l == Len(given') IN
     /\ l \in Nat \ {0} /\ Len(given'[l]) \in Nat \ {0} /\ given'[l][Len(given'[l])] = posted + 1
     /\ \A t \in 1..l : \A k \in 1..Len(given'[t]) :
          \/ t = l /\ k = Len(given'[l])
          \/ t \in 1..Len(given) /\ k \in 1..Len(given[t]) /\ given'[t][k] = given[t][k]
     /\ \A t \in 1..Len(given) : \A k \in 1..Len(given[t]) :
          t \in 1..l /\ k \in 1..Len(given'[t]) /\ given'[t][k] = given[t][k]

LEMMA GivingIsNext ==
  ASSUME HandlerTypeOK,
         \/ given' = Append(given, <<posted + 1>>)
         \/ Len(given) > 0 /\ given' = [given EXCEPT ![Len(given)] = Append(@, posted + 1)]
  PROVE  NextGiven /\ given' \in Seq(Seq(Handlers))
<1>1. /\ posted \in Nat /\ posted + 1 \in Handlers /\ Len(given) \in Nat /\ given \in Seq(Seq(Handlers))
      /\ \A t \in 1..Len(given) : given[t] \in Seq(Handlers) /\ Len(given[t]) \in Nat
  BY SMTT(30), ElementOfSeq DEF HandlerTypeOK, Handlers, STOP
<1>2. CASE given' = Append(given, <<posted + 1>>)
  <2>1. <<posted + 1>> \in Seq(Handlers)  BY <1>1
  <2>2. /\ Len(given') = Len(given) + 1 /\ given'[Len(given) + 1] = <<posted + 1>>
        /\ \A t \in 1..Len(given) : given'[t] = given[t]
        /\ given' \in Seq(Seq(Handlers))
    BY <1>1, <1>2, <2>1, AppendProperties
  <2>3. Len(<<posted + 1>>) = 1 /\ <<posted + 1>>[1] = posted + 1
    OBVIOUS
  <2> DEFINE g == <<posted + 1>>
  <2> HIDE DEF g
  <2>4. /\ Len(given') = Len(given) + 1 /\ given'[Len(given) + 1] = g /\ Len(g) = 1 /\ g[1] = posted + 1
        /\ \A t \in 1..Len(given) : given'[t] = given[t]
    BY <2>2, <2>3 DEF g
  <2> DEFINE l == Len(given) + 1
  <2>5. l \in Nat \ {0} /\ Len(given') = l /\ Len(given'[l]) = 1 /\ given'[l][1] = posted + 1
    BY <1>1, <2>4
  <2>6. ASSUME NEW t \in 1..l, NEW k \in 1..Len(given'[t])
        PROVE  \/ t = l /\ k = 1
               \/ t \in 1..Len(given) /\ k \in 1..Len(given[t]) /\ given'[t][k] = given[t][k]
    <3>1. CASE t = l
      <4>1. k \in 1..1  BY <2>5, <2>6, <3>1
      <4> QED  BY <3>1, <4>1
    <3>2. CASE t # l
      <4>1. t \in 1..Len(given)  BY <1>1, <3>2
      <4> QED  BY <2>4, <4>1
    <3> QED  BY <3>1, <3>2
  <2>7. \A t \in 1..Len(given) : t \in 1..l /\ given'[t] = given[t]
    BY <1>1, <2>4
  <2> HIDE DEF l
  <2>8. NextGiven  BY <2>5, <2>6, <2>7 DEF NextGiven
  <2> QED  BY <2>2, <2>8
<1>3. CASE Len(given) > 0 /\ given' = [given EXCEPT ![Len(given)] = Append(@, posted + 1)]
  <2> DEFINE l == Len(given)
             g == Append(given[l], posted + 1)
  <2>1. /\ g \in Seq(Handlers) /\ Len(g) = Len(given[l]) + 1 /\ g[Len(given[l]) + 1] = posted + 1
        /\ \A k \in 1..Len(given[l]) : g[k] = given[l][k]
    BY <1>1, <1>3, AppendProperties
  <2>2. /\ Len(given') = l /\ given'[l] = g /\ \A t \in 1..l : t # l => given'[t] = given[t]
        /\ given' \in Seq(Seq(Handlers))
    BY <1>1, <1>3, <2>1, ExceptSeq
  <2> HIDE DEF g
  <2>3. l \in Nat \ {0} /\ Len(g) \in Nat \ {0} /\ g[Len(g)] = posted + 1
    BY <1>1, <1>3, <2>1
  <2>4. ASSUME NEW t \in 1..l, NEW k \in 1..Len(given'[t])
        PROVE  \/ t = l /\ k = Len(g)
               \/ k \in 1..Len(given[t]) /\ given'[t][k] = given[t][k]
    <3>1. CASE t = l
      <4>1. k = Len(g) \/ k \in 1..Len(given[l])  BY <1>1, <2>1, <2>2, <2>3, <3>1
      <4> QED  BY <2>1, <2>2, <3>1, <4>1
    <3>2. CASE t # l  BY <2>2, <3>2
    <3> QED  BY <3>1, <3>2
  <2>5. ASSUME NEW t \in 1..l, NEW k \in 1..Len(given[t])
        PROVE  k \in 1..Len(given'[t]) /\ given'[t][k] = given[t][k]
    <3>1. CASE t = l
      <4>1. k \in 1..Len(g)  BY <1>1, <2>1, <2>3, <3>1
      <4> QED  BY <2>1, <2>2, <3>1, <4>1
    <3>2. CASE t # l  BY <2>2, <3>2
    <3> QED  BY <3>1, <3>2
  <2>6. NextGiven  BY <2>2, <2>3, <2>4, <2>5 DEF NextGiven
  <2> QED  BY <2>2, <2>6
<1> QED  BY <1>2, <1>3

LEMMA GivingKeepsOrder ==
  ASSUME posted \in Nat, Len(given) \in Nat, GivenOnce, GivenInOrder, posted' = posted + 1, NextGiven
  PROVE  GivenOnce' /\ GivenInOrder'
<1> DEFINE l == Len(given')
<1>1. ASSUME NEW n \in 1..posted'
      PROVE  \E t \in 1..l : \E k \in 1..Len(given'[t]) : given'[t][k] = n
  <2>1. CASE n = posted + 1
    <3>1. l \in 1..l /\ Len(given'[l]) \in 1..Len(given'[l])  BY DEF NextGiven
    <3> QED  BY <2>1, <3>1 DEF NextGiven
  <2>2. CASE n # posted + 1
    <3>1. n \in 1..posted  BY <1>1, <2>2
    <3>2. PICK t \in 1..Len(given) : \E k \in 1..Len(given[t]) : given[t][k] = n
      BY <3>1 DEF GivenOnce
    <3> QED  BY <3>2 DEF NextGiven
  <2> QED  BY <2>1, <2>2
<1>2. ASSUME NEW t \in 1..l, NEW k \in 1..Len(given'[t])
      PROVE  given'[t][k] \in 1..posted'
  <2>1. CASE t = l /\ k = Len(given'[l])
    BY <2>1 DEF NextGiven
  <2>2. CASE t \in 1..Len(given) /\ k \in 1..Len(given[t]) /\ given'[t][k] = given[t][k]
    <3>1. given[t][k] \in 1..posted  BY <2>2 DEF GivenOnce
    <3> QED  BY <2>2, <3>1
  <2> QED  BY <2>1, <2>2 DEF NextGiven
<1>3. ASSUME NEW s \in 1..l, NEW t \in 1..l, NEW m \in 1..Len(given'[s]), NEW n \in 1..Len(given'[t]),
             s < t \/ (s = t /\ m < n)
      PROVE  given'[s][m] < given'[t][n]
  <2>1. s \in 1..Len(given) /\ m \in 1..Len(given[s]) /\ given'[s][m] = given[s][m]
    BY <1>3 DEF NextGiven
  <2>2. given[s][m] \in 1..posted
    BY <2>1 DEF GivenOnce
  <2>3. CASE t = l /\ n = Len(given'[l])
    BY <2>1, <2>2, <2>3 DEF NextGiven
  <2>4. CASE t \in 1..Len(given) /\ n \in 1..Len(given[t]) /\ given'[t][n] = given[t][n]
    BY <1>3, <2>1, <2>4 DEF GivenInOrder
  <2> QED  BY <2>3, <2>4 DEF NextGiven
<1> QED  BY <1>1, <1>2, <1>3 DEF GivenOnce, GivenInOrder

LEMMA SubmitStep ==
  ASSUME HandlerInv, Submit
  PROVE  HandlerInv'
<1>0. /\ posted \in Nat /\ posted' = posted + 1 /\ posted + 1 \in Handlers /\ posted + 1 \in Nat /\ gone' = gone
      /\ handlerQ \in Seq(Seq(Nat)) /\ given \in Seq(Seq(Handlers)) /\ ran \in Seq(Seq(Handlers)) /\ handling \in Seq(Nat)
      /\ Len(handlerQ) \in Nat /\ Len(given) = Len(handlerQ) /\ Len(ran) = Len(handlerQ) /\ Len(handling) = Len(handlerQ)
      /\ currentThread \notin gone /\ currentThread \in {0, Len(handlerQ)} /\ gone \subseteq 1..Len(handlerQ)
  BY LenProperties DEF Submit, HandlerInv, HandlerTypeOK, CurrentIsLast, Handlers, STOP
<1>1. CASE currentThread = 0
  <2> DEFINE l == Len(handlerQ) + 1
  <2>1. /\ currentThread' = l /\ handling' = Append(handling, 0) /\ handlerQ' = Append(handlerQ, <<posted + 1>>)
        /\ ran' = Append(ran, <<>>) /\ given' = Append(given, <<posted + 1>>)
    BY <1>0, <1>1 DEF Submit
  <2>2. <<posted + 1>> \in Seq(Nat) /\ <<>> \in Seq(Handlers) /\ <<posted + 1>> \in Seq(Handlers)
    BY <1>0
  <2>3. /\ handlerQ' \in Seq(Seq(Nat)) /\ ran' \in Seq(Seq(Handlers)) /\ given' \in Seq(Seq(Handlers))
        /\ handling' \in Seq(Nat) /\ Len(handling') = l
        /\ Len(handlerQ') = l /\ handlerQ'[l] = <<posted + 1>>
        /\ Len(ran') = l /\ ran'[l] = <<>>
        /\ Len(given') = l /\ given'[l] = <<posted + 1>>
        /\ \A t \in 1..Len(handlerQ) : handlerQ'[t] = handlerQ[t] /\ ran'[t] = ran[t] /\ given'[t] = given[t]
    BY SMTT(30), <1>0, <2>1, <2>2, AppendProperties
  <2>4. HandlerTypeOK' /\ CurrentIsLast' /\ EndedIsEmpty'
    BY SMTT(30), <1>0, <2>1, <2>3 DEF HandlerInv, HandlerTypeOK, CurrentIsLast, EndedIsEmpty
  <2>5. ASSUME NEW t \in 1..l
        PROVE  ran'[t] \o handlerQ'[t] = IF Told(t)' THEN Append(given'[t], STOP) ELSE given'[t]
    <3>1. CASE t = l
      BY <1>0, <2>1, <2>2, <2>3, <3>1, ConcatEmptySeq DEF Told
    <3>2. CASE t # l
      <4>1. t \in 1..Len(handlerQ)  BY <1>0, <3>2
      <4>2. t # currentThread /\ t # currentThread'  BY <1>0, <1>1, <2>1, <3>2, <4>1
      <4>3. Told(t)' <=> Told(t)  BY <1>0, <4>2 DEF Told
      <4> QED  BY <2>3, <4>1, <4>3 DEF HandlerInv, QueueIsRest
    <3> QED  BY <3>1, <3>2
  <2>6. GivenOnce' /\ GivenInOrder'
    BY <1>0, <2>1, GivingIsNext, GivingKeepsOrder DEF HandlerInv
  <2> QED  BY <2>3, <2>4, <2>5, <2>6 DEF HandlerInv, QueueIsRest
<1>2. CASE currentThread # 0
  <2> DEFINE l == Len(handlerQ)
  <2>0. currentThread = l /\ l \in 1..l /\ l > 0 /\ l \notin gone
    BY <1>0, <1>2
  <2>1. /\ handlerQ' = [handlerQ EXCEPT ![l] = Append(@, posted + 1)]
        /\ given' = [given EXCEPT ![l] = Append(@, posted + 1)] /\ UNCHANGED <<currentThread, handling, ran>>
        /\ l > 0 /\ currentThread = l
    BY <1>0, <1>2, <2>0 DEF Submit, PutWork
  <2>2. handlerQ[l] \in Seq(Nat) /\ ran[l] \in Seq(Nat) /\ given[l] \in Seq(Handlers)
    BY <1>0, <2>1, ElementOfSeq, SeqMonotonic DEF Handlers
  <2>3. Append(handlerQ[l], posted + 1) \in Seq(Nat) /\ Append(given[l], posted + 1) \in Seq(Handlers)
    BY <1>0, <2>2, AppendProperties
  <2>4. /\ handlerQ' \in Seq(Seq(Nat)) /\ given' \in Seq(Seq(Handlers))
        /\ Len(handlerQ') = l /\ handlerQ'[l] = Append(handlerQ[l], posted + 1)
        /\ Len(given') = l /\ given'[l] = Append(given[l], posted + 1)
        /\ \A t \in 1..l : t # l => handlerQ'[t] = handlerQ[t] /\ given'[t] = given[t]
    <3>1. /\ handlerQ' \in Seq(Seq(Nat)) /\ Len(handlerQ') = l /\ handlerQ'[l] = Append(handlerQ[l], posted + 1)
          /\ \A t \in 1..l : t # l => handlerQ'[t] = handlerQ[t]
      BY SMTT(30), <1>0, <2>0, <2>1, <2>3, ExceptSeq
    <3>2. /\ given' \in Seq(Seq(Handlers)) /\ Len(given') = l /\ given'[l] = Append(given[l], posted + 1)
          /\ \A t \in 1..l : t # l => given'[t] = given[t]
      BY SMTT(30), <1>0, <2>0, <2>1, <2>3, ExceptSeq
    <3> QED  BY <3>1, <3>2
  <2>5. HandlerTypeOK' /\ CurrentIsLast' /\ EndedIsEmpty'
    BY <1>0, <2>1, <2>4 DEF HandlerInv, HandlerTypeOK, CurrentIsLast, EndedIsEmpty
  <2>6. ASSUME NEW t \in 1..l
        PROVE  ran'[t] \o handlerQ'[t] = IF Told(t)' THEN Append(given'[t], STOP) ELSE given'[t]
    <3>1. Told(t)' <=> Told(t)  BY <1>0, <2>1 DEF Told
    <3>2. CASE t = l
      <4>1. ran[l] \o handlerQ[l] = given[l] /\ ~Told(l)
        BY <2>0, <2>1, <3>2 DEF HandlerInv, QueueIsRest, Told
      <4>2. ran[l] \o Append(handlerQ[l], posted + 1) = Append(ran[l] \o handlerQ[l], posted + 1)
        BY <1>0, <2>2, PutIsLast
      <4> QED  BY <2>1, <2>4, <3>1, <3>2, <4>1, <4>2
    <3>3. CASE t # l
      BY <2>1, <2>4, <3>1, <3>3 DEF HandlerInv, QueueIsRest
    <3> QED  BY <3>2, <3>3
  <2>7. GivenOnce' /\ GivenInOrder'
    BY <1>0, <2>1, GivingIsNext, GivingKeepsOrder DEF HandlerInv
  <2> QED  BY <2>4, <2>5, <2>6, <2>7 DEF HandlerInv, QueueIsRest
<1> QED  BY <1>1, <1>2

LEMMA StopHandlersStep ==
  ASSUME HandlerInv, StopHandlers
  PROVE  HandlerInv'
<1> DEFINE l == Len(handlerQ)
<1>1. /\ handlerQ \in Seq(Seq(Nat)) /\ l \in Nat \ {0} /\ currentThread = l /\ l \notin gone
      /\ gone \subseteq 1..l /\ ran \in Seq(Seq(Handlers)) /\ Len(ran) = l /\ 0 \notin gone
  BY LenProperties DEF StopHandlers, HandlerInv, HandlerTypeOK, CurrentIsLast
<1>2. /\ currentThread' = 0 /\ handlerQ' = [handlerQ EXCEPT ![l] = Append(@, STOP)]
      /\ UNCHANGED <<posted, handling, gone, ran, given>>
  BY <1>1 DEF StopHandlers, PutWork
<1>3. handlerQ[l] \in Seq(Nat) /\ ran[l] \in Seq(Nat)
  BY <1>1, ElementOfSeq, SeqMonotonic DEF Handlers
<1>4. STOP \in Nat /\ Append(handlerQ[l], STOP) \in Seq(Nat)
  BY <1>3, AppendProperties DEF STOP
<1>5. /\ handlerQ' \in Seq(Seq(Nat)) /\ Len(handlerQ') = l /\ handlerQ'[l] = Append(handlerQ[l], STOP)
      /\ \A t \in 1..l : t # l => handlerQ'[t] = handlerQ[t]
  BY <1>1, <1>2, <1>4, ExceptSeq
<1>6. HandlerTypeOK' /\ CurrentIsLast' /\ EndedIsEmpty'
  BY <1>1, <1>2, <1>5 DEF HandlerInv, HandlerTypeOK, CurrentIsLast, EndedIsEmpty
<1>7. ASSUME NEW t \in 1..l
      PROVE  ran'[t] \o handlerQ'[t] = IF Told(t)' THEN Append(given'[t], STOP) ELSE given'[t]
  <2>1. CASE t = l
    <3>0. l \in 1..l /\ l # 0 /\ ~Told(l) /\ Told(l)'
      BY <1>1, <1>2 DEF Told
    <3>1. ran[l] \o handlerQ[l] = given[l]
      BY <3>0 DEF HandlerInv, QueueIsRest
    <3>2. ran[l] \o Append(handlerQ[l], STOP) = Append(ran[l] \o handlerQ[l], STOP)
      BY <1>3, <1>4, PutIsLast
    <3> QED  BY <1>2, <1>5, <2>1, <3>0, <3>1, <3>2
  <2>2. CASE t # l
    <3>1. t # 0 /\ (Told(t)' <=> Told(t))  BY <1>1, <1>2, <2>2 DEF Told
    <3> QED  BY <1>2, <1>5, <2>2, <3>1 DEF HandlerInv, QueueIsRest
  <2> QED  BY <2>1, <2>2
<1>8. QueueIsRest'  BY <1>5, <1>7 DEF QueueIsRest
<1>9. GivenOnce' /\ GivenInOrder'  BY <1>2 DEF HandlerInv, GivenOnce, GivenInOrder
<1> QED  BY <1>6, <1>8, <1>9 DEF HandlerInv

LEMMA TakesWorkStep ==
  ASSUME HandlerInv, NEW t \in Threads, TakesWork(t)
  PROVE  HandlerInv'
<1> DEFINE l == Len(handlerQ)
           q == handlerQ[t]
<1>1. /\ handlerQ \in Seq(Seq(Nat)) /\ l \in Nat /\ t \in 1..l /\ Len(ran) = l /\ Len(given) = l
      /\ Len(handling) = l /\ handling \in Seq(Nat)
      /\ ran \in Seq(Seq(Handlers)) /\ given \in Seq(Seq(Handlers))
  BY LenProperties DEF HandlerInv, HandlerTypeOK, Threads
<1>2. q \in Seq(Nat) /\ ran[t] \in Seq(Handlers) /\ ran[t] \in Seq(Nat) /\ given[t] \in Seq(Handlers)
  BY SMTT(30), <1>1, ElementOfSeq, SeqMonotonic DEF Handlers
<1>3. t \notin gone /\ q # <<>> /\ handlerQ' = [handlerQ EXCEPT ![t] = Tail(@)]
      /\ UNCHANGED <<posted, currentThread, given>>
  BY DEF TakesWork
<1>4. Tail(q) \in Seq(Nat) /\ Head(q) \in Nat
  BY <1>2, <1>3, HeadTailProperties
<1>5. /\ handlerQ' \in Seq(Seq(Nat)) /\ Len(handlerQ') = l /\ handlerQ'[t] = Tail(q)
      /\ \A s \in 1..l : s # t => handlerQ'[s] = handlerQ[s]
  BY <1>1, <1>3, <1>4, ExceptSeq
<1>6. ran[t] \o q = IF Told(t) THEN Append(given[t], STOP) ELSE given[t]
  BY <1>1 DEF HandlerInv, QueueIsRest
<1>7. GivenOnce' /\ GivenInOrder'
  BY <1>3 DEF HandlerInv, GivenOnce, GivenInOrder
<1>8. CASE Head(q) = STOP
  <2>1. gone' = gone \cup {t} /\ UNCHANGED <<handling, ran>>
    BY <1>8 DEF TakesWork
  <2>2. q = <<STOP>> /\ ran[t] = given[t] /\ ran[t] \o q = Append(given[t], STOP)
    BY <1>2, <1>3, <1>6, <1>8, StopIsLast
  <2>3. Tail(q) = <<>>
    BY <2>2
  <2>4. given[t] # Append(given[t], STOP)
    <3>1. Len(given[t]) \in Nat /\ given[t] \in Seq(Nat) /\ STOP \in Nat
      BY <1>2, LenProperties, SeqMonotonic DEF Handlers, STOP
    <3>2. Len(Append(given[t], STOP)) = Len(given[t]) + 1
      BY <3>1, AppendProperties
    <3> QED  BY <3>1, <3>2
  <2>5. Told(t)
    BY <1>6, <2>2, <2>4
  <2>6. HandlerTypeOK' /\ CurrentIsLast' /\ EndedIsEmpty'
    BY <1>1, <1>3, <1>5, <2>1, <2>3, <2>5
    DEF HandlerInv, HandlerTypeOK, CurrentIsLast, EndedIsEmpty, Told
  <2>7. ASSUME NEW s \in 1..l
        PROVE  ran'[s] \o handlerQ'[s] = IF Told(s)' THEN Append(given'[s], STOP) ELSE given'[s]
    <3>1. CASE s = t
      <4>1. ~Told(t)'  BY <2>1 DEF Told
      <4>2. ran[t] \o <<>> = ran[t]  BY <1>2, ConcatEmptySeq
      <4> QED  BY <1>3, <1>5, <2>1, <2>2, <2>3, <3>1, <4>1, <4>2
    <3>2. CASE s # t
      <4>1. Told(s)' <=> Told(s)  BY <1>3, <2>1, <3>2 DEF Told
      <4> QED  BY <1>3, <1>5, <2>1, <3>2, <4>1 DEF HandlerInv, QueueIsRest
    <3> QED  BY <3>1, <3>2
  <2>8. QueueIsRest'  BY <1>5, <2>7 DEF QueueIsRest
  <2> QED  BY <1>7, <2>6, <2>8 DEF HandlerInv
<1>9. CASE Head(q) # STOP
  <2>1. /\ handling' = [handling EXCEPT ![t] = Head(q)] /\ UNCHANGED gone
        /\ ran' = [ran EXCEPT ![t] = Append(@, Head(q))]
    BY <1>9 DEF TakesWork
  <2>2. Head(q) \in Handlers /\ Append(ran[t], Head(q)) \in Seq(Handlers)
    BY <1>2, <1>4, <1>9, AppendProperties DEF Handlers
  <2>3. /\ ran' \in Seq(Seq(Handlers)) /\ Len(ran') = l /\ ran'[t] = Append(ran[t], Head(q))
        /\ \A s \in 1..l : s # t => ran'[s] = ran[s]
    <3>1. t \in 1..Len(ran) /\ ran' = [ran EXCEPT ![t] = Append(ran[t], Head(q))]
      BY <1>1, <2>1
    <3> HIDE DEF q
    <3> QED  BY SMTT(30), <1>1, <2>2, <3>1, ExceptSeq
  <2>4. handling' \in Seq(Nat) /\ Len(handling') = l
    BY <1>1, <1>4, <2>1, ExceptSeq
  <2>5. HandlerTypeOK' /\ CurrentIsLast' /\ EndedIsEmpty'
    BY <1>1, <1>3, <1>5, <2>1, <2>3, <2>4 DEF HandlerInv, HandlerTypeOK, CurrentIsLast, EndedIsEmpty
  <2>6. ASSUME NEW s \in 1..l
        PROVE  ran'[s] \o handlerQ'[s] = IF Told(s)' THEN Append(given'[s], STOP) ELSE given'[s]
    <3>1. Told(s)' <=> Told(s)  BY <1>3, <2>1 DEF Told
    <3>2. CASE s = t
      <4>1. Append(ran[t], Head(q)) \o Tail(q) = ran[t] \o q  BY <1>2, <1>3, TakenIsNext
      <4> QED  BY <1>3, <1>5, <1>6, <2>3, <3>1, <3>2, <4>1
    <3>3. CASE s # t
      BY <1>3, <1>5, <2>3, <3>1, <3>3 DEF HandlerInv, QueueIsRest
    <3> QED  BY <3>2, <3>3
  <2>7. QueueIsRest'  BY <1>5, <2>6 DEF QueueIsRest
  <2> QED  BY <1>7, <2>5, <2>7 DEF HandlerInv
<1> QED  BY <1>8, <1>9

LEMMA QueuesKept ==
  ASSUME HandlerInv, UNCHANGED <<posted, handlerQ, currentThread, gone, ran, given>>,
         handling' \in Seq(Nat), Len(handling') = Len(handling)
  PROVE  HandlerInv'
<1>1. HandlerTypeOK' /\ CurrentIsLast' /\ EndedIsEmpty'
  BY DEF HandlerInv, HandlerTypeOK, CurrentIsLast, EndedIsEmpty
<1>2. \A t : Told(t)' <=> Told(t)
  BY DEF Told
<1>3. QueueIsRest'
  BY <1>2 DEF HandlerInv, QueueIsRest
<1>4. GivenOnce' /\ GivenInOrder'
  BY DEF HandlerInv, GivenOnce, GivenInOrder
<1> QED  BY <1>1, <1>3, <1>4 DEF HandlerInv

LEMMA HandlerReturnsStep ==
  ASSUME HandlerInv, NEW t \in Threads, HandlerReturns(t)
  PROVE  HandlerInv'
<1>1. handling \in Seq(Nat) /\ t \in 1..Len(handling) /\ handling' = [handling EXCEPT ![t] = 0]
  BY LenProperties DEF HandlerInv, HandlerTypeOK, HandlerReturns, Threads
<1>2. handling' \in Seq(Nat) /\ Len(handling') = Len(handling)
  BY <1>1, ExceptSeq
<1>3. UNCHANGED <<posted, handlerQ, currentThread, gone, ran, given>>
  BY DEF HandlerReturns
<1> QED  BY <1>2, <1>3, QueuesKept

LEMMA HandlersInOrder == HandlerInv => InArrivalOrder
<1> SUFFICES ASSUME HandlerInv PROVE InArrivalOrder  OBVIOUS
<1> DEFINE l == Len(handlerQ)
<1>1. /\ Threads = 1..l /\ Len(given) = l /\ given \in Seq(Seq(Handlers)) /\ ran \in Seq(Seq(Handlers))
      /\ Len(ran) = l /\ handlerQ \in Seq(Seq(Nat))
  BY LenProperties DEF HandlerInv, HandlerTypeOK, Threads
<1>2. ASSUME NEW t \in Threads
      PROVE  /\ given[t] \in Seq(Handlers) /\ DOMAIN given[t] = 1..Len(given[t]) /\ handlerQ[t] \in Seq(Nat)
             /\ IsPrefix(ran[t], given[t]) /\ (t \in gone => ran[t] = given[t])
             /\ Told(t) => STOP \in Range(handlerQ[t])
  <2>1. given[t] \in Seq(Handlers) /\ ran[t] \in Seq(Handlers) /\ handlerQ[t] \in Seq(Nat)
    BY <1>1, ElementOfSeq
  <2>2. ran[t] \o handlerQ[t] = IF Told(t) THEN Append(given[t], STOP) ELSE given[t]
    BY <1>1 DEF HandlerInv, QueueIsRest
  <2>3. t \in gone => handlerQ[t] = <<>>
    BY DEF HandlerInv, EndedIsEmpty
  <2> QED  BY ZenonT(40), <2>1, <2>2, <2>3, StopIsLast, LenProperties
<1>3. UNION {Range(given[t]) : t \in Threads} = 1..posted
  <2>1. \A t \in Threads : Range(given[t]) \subseteq 1..posted
    BY <1>1, <1>2 DEF HandlerInv, GivenOnce, Range
  <2>2. ASSUME NEW n \in 1..posted
        PROVE  \E t \in Threads : n \in Range(given[t])
    <3>1. PICK t \in Threads : \E k \in 1..Len(given[t]) : given[t][k] = n
      BY <1>1 DEF HandlerInv, GivenOnce
    <3>2. n \in Range(given[t])
      BY <1>2, <3>1 DEF Range
    <3> QED  BY <3>2
  <2> QED  BY <2>1, <2>2
<1>4. \A s, t \in Threads : \A i \in DOMAIN given[s], j \in DOMAIN given[t] :
        s < t \/ (s = t /\ i < j) => given[s][i] < given[t][j]
  BY ZenonT(40), <1>1, <1>2 DEF HandlerInv, GivenInOrder
<1>5. \A t \in Threads : t # currentThread => t \in gone \/ STOP \in Range(handlerQ[t])
  BY <1>2 DEF Told
<1> QED  BY <1>2, <1>3, <1>4, <1>5 DEF InArrivalOrder

(* A handler is started by one thread, in the order it was given; stop() and a *)
(* frame that arrives after it neither lose one nor let a later thread take an *)
(* earlier one (_loop.py:219-256).                                             *)
THEOREM HandlersRunInOrder == HandlerSpec => []InArrivalOrder
<1>1. HandlerInit => HandlerInv
  BY EmptySeq DEF HandlerInit, HandlerInv, HandlerTypeOK, EndedIsEmpty, QueueIsRest, GivenOnce, GivenInOrder, CurrentIsLast
<1>2. HandlerInv /\ UNCHANGED handlerVars => HandlerInv'
  BY QueuesKept DEF handlerVars, HandlerInv, HandlerTypeOK
<1>3. HandlerInv /\ [HandlerNext]_handlerVars => HandlerInv'
  BY <1>2, SubmitStep, StopHandlersStep, TakesWorkStep, HandlerReturnsStep DEF HandlerNext
<1> QED  BY <1>1, <1>3, HandlersInOrder, PTL DEF HandlerSpec

(* Together, for any number of loops, callers, frames and handler threads: what*)
(* is handed to a thread of a synchronous client is done there, in its order,  *)
(* or cancelled, whatever stop() overlaps (_loop.py:103-256).                  *)
THEOREM WorkGetsDone == LoopSpec /\ HandlerSpec => []WorkIsDone
<1>1. NoneLeftWaiting /\ InArrivalOrder => WorkIsDone  BY DEF WorkIsDone
<1> QED  BY <1>1, NobodyWaitsOnAClosedLoop, HandlersRunInOrder, PTL

-----------------------------------------------------------------------------
(* An event stream.                                                            *)
StreamTypes ==
  /\ wanted \in 1..(MaxHeard + 1) /\ timed \in BOOLEAN
  /\ setup \in {"connecting", "binding", "watching", "done"}
  /\ active \in BOOLEAN /\ cancelled \in BOOLEAN /\ listening \in BOOLEAN
  /\ late \in BOOLEAN /\ ready \in BOOLEAN
  /\ heard \in 0..MaxHeard /\ accepted \in Nat
  /\ buffer \in Seq(1..MaxHeard) /\ Len(buffer) <= MaxBuffered
  /\ yielded \in Seq(1..MaxHeard)
  /\ error \in {"none", "setup", "lost", "predicate", "overflow"}
  /\ consumer \in {"running", "paused"} \cup Ended

(* What was accepted was yielded or is buffered, in the order it was heard, and *)
(* nothing was passed over before the stream stopped accepting for good.       *)
AcceptedIsKept ==
  /\ Len(yielded) + Len(buffer) = accepted
  /\ \A n \in 1..Len(yielded) : yielded[n] = n
  /\ \A n \in 1..Len(buffer) : buffer[n] = Len(yielded) + n
  /\ accepted <= heard /\ accepted <= wanted
  /\ Accepts => accepted = heard

(* A stream is retired by its end, its deadline, its last event or an error it *)
(* reports; one that ended is.                                                 *)
WhyRetired ==
  /\ ~active => cancelled \/ Expired \/ accepted = wanted \/ error # "none"
  /\ accepted = wanted => ~active
  /\ cancelled => ~active
  /\ cancelled <=> consumer \in Ended

(* Only a registration under way outlives a retirement.                        *)
RetiredIsSilent ==
  /\ setup = "connecting" => ~listening
  /\ setup \in {"watching", "done"} /\ ~active => ~listening

StreamInv == StreamTypes /\ AcceptedIsKept /\ WhyRetired /\ RetiredIsSilent /\ CleanEndIsComplete

LEMMA AcceptedKept ==
  ASSUME AcceptedIsKept, UNCHANGED <<wanted, heard, accepted, buffer, yielded>>, Accepts' => Accepts
  PROVE  AcceptedIsKept'
BY DEF AcceptedIsKept

LEMMA StreamSetupStep ==
  ASSUME StreamInv, Setup \/ LinkDrops
  PROVE  StreamInv'
<1>1. /\ UNCHANGED <<wanted, timed, cancelled, late, bufferVars, yielded, consumer>>
      /\ \/ active' = active
         \/ active' = FALSE /\ Expired
      /\ \/ error' = error
         \/ error = "none" /\ ~cancelled /\ error' \in {"setup", "lost"}
      /\ ready' \in BOOLEAN /\ active' \in BOOLEAN /\ listening' \in BOOLEAN
      /\ setup' \in {"connecting", "binding", "watching", "done"}
  BY DEF Setup, Connected, Registered, SetupFails, WatchEnds, WatchFails, LinkDrops, Raise, Retire,
         StreamInv, StreamTypes, setupVars, bufferVars
<1>2. StreamTypes'
  BY <1>1 DEF StreamInv, StreamTypes, bufferVars
<1>3. AcceptedIsKept'
  BY <1>1 DEF StreamInv, AcceptedIsKept, Accepts, Expired, bufferVars
<1>4. WhyRetired'
  BY <1>1 DEF StreamInv, WhyRetired, Expired, bufferVars
<1>5. CleanEndIsComplete'
  BY <1>1 DEF StreamInv, WhyRetired, CleanEndIsComplete, Expired, Ended, bufferVars
<1>6. RetiredIsSilent'
  BY DEF Setup, Connected, Registered, SetupFails, WatchEnds, WatchFails, LinkDrops, Retire,
         StreamInv, RetiredIsSilent, setupVars
<1> QED  BY <1>2, <1>3, <1>4, <1>5, <1>6 DEF StreamInv

LEMMA StreamTimeStep ==
  ASSUME StreamInv, DeadlinePasses \/ Expiry
  PROVE  StreamInv'
<1>1. StreamTypes'
  BY ZenonT(40) DEF DeadlinePasses, Expiry, Retire, StreamInv, StreamTypes, setupVars, bufferVars
<1>2. AcceptedIsKept'
  <2>1. UNCHANGED <<wanted, heard, accepted, buffer, yielded>>
    BY DEF DeadlinePasses, Expiry, bufferVars
  <2>2. Accepts' => Accepts
    BY DEF DeadlinePasses, Expiry, Retire, StreamInv, StreamTypes, Accepts, Expired, setupVars,
           bufferVars
  <2> QED  BY <2>1, <2>2, AcceptedKept DEF StreamInv
<1>3. WhyRetired' /\ CleanEndIsComplete' /\ RetiredIsSilent'
  BY DEF DeadlinePasses, Expiry, Retire, StreamInv, WhyRetired, CleanEndIsComplete,
         RetiredIsSilent, Expired, setupVars, bufferVars
<1> QED  BY <1>1, <1>2, <1>3 DEF StreamInv

LEMMA StreamEventStep ==
  ASSUME StreamInv, Event \/ PredicateFails
  PROVE  StreamInv'
<1> USE StreamShape
<1>1. CASE UNCHANGED <<buffer, accepted>>
  <2>1. /\ UNCHANGED <<wanted, timed, setup, ready, subscribed, cancelled, linkLost, late, buffer,
                       accepted, yielded, consumer>>
        /\ heard' = heard + 1 /\ heard < MaxHeard
        /\ \/ ~Accepts /\ UNCHANGED <<active, listening, error>>
           \/ /\ Accepts /\ active' = FALSE /\ listening' = FALSE /\ error' # "none"
              /\ error' \in {error, "overflow", "predicate"}
    <3>1. accepted \in Nat  BY DEF StreamInv, StreamTypes
    <3>2. CASE Event
      <4>1. heard' = heard + 1 /\ heard < MaxHeard /\ accepted' = accepted /\ buffer' = buffer
        BY <3>2, <1>1 DEF Event, Calls
      <4>2. accepted' # accepted + 1  BY <3>1, <4>1
      <4>3. \/ ~Accepts /\ UNCHANGED <<active, listening, error>>
            \/ Accepts /\ Raise("overflow") /\ Retire
        BY <3>2, <4>2 DEF Event
      <4> QED  BY <3>2, <4>1, <4>3 DEF Event, Raise, Retire
    <3>3. CASE PredicateFails
      BY <3>3, <1>1 DEF PredicateFails, Raise, Retire, Calls
    <3> QED  BY <3>2, <3>3
  <2>2. StreamTypes'
    <3>1. heard' \in 0..MaxHeard  BY <2>1 DEF StreamInv, StreamTypes
    <3>2. /\ active' \in BOOLEAN /\ listening' \in BOOLEAN
          /\ error' \in {"none", "setup", "lost", "predicate", "overflow"}
      <4>1. CASE UNCHANGED <<active, listening, error>>  BY <4>1 DEF StreamInv, StreamTypes
      <4>2. CASE ~UNCHANGED <<active, listening, error>>  BY <2>1, <4>2 DEF StreamInv, StreamTypes
      <4> QED  BY <4>1, <4>2
    <3> QED  BY <2>1, <3>1, <3>2 DEF StreamInv, StreamTypes
  <2>3. AcceptedIsKept'
    BY <2>1 DEF StreamInv, StreamTypes, AcceptedIsKept, Accepts, Expired
  <2>4. WhyRetired' /\ RetiredIsSilent'
    BY <2>1 DEF StreamInv, WhyRetired, RetiredIsSilent, Accepts, Expired
  <2>5. CleanEndIsComplete'
    BY <2>1 DEF StreamInv, WhyRetired, CleanEndIsComplete, Accepts, Expired, Ended
  <2> QED  BY <2>2, <2>3, <2>4, <2>5 DEF StreamInv
<1>2. CASE ~UNCHANGED <<buffer, accepted>>
  <2>1. /\ Accepts /\ Len(buffer) < MaxBuffered
        /\ UNCHANGED <<wanted, timed, setup, ready, subscribed, cancelled, linkLost, late, yielded,
                       consumer, error>>
        /\ heard' = heard + 1 /\ heard < MaxHeard
        /\ buffer' = Append(buffer, heard') /\ accepted' = accepted + 1
        /\ \/ accepted' = wanted /\ active' = FALSE /\ listening' = FALSE
           \/ accepted' # wanted /\ UNCHANGED <<active, listening>>
    <3>1. Len(buffer) \in Nat  BY DEF StreamInv, StreamTypes
    <3> QED  BY <3>1, <1>2 DEF Event, PredicateFails, Raise, Retire, Calls
  <2>2. /\ heard = accepted /\ heard' \in 1..MaxHeard /\ accepted < wanted /\ wanted \in Nat
        /\ Len(yielded) + Len(buffer) = heard /\ Len(yielded) \in Nat /\ Len(buffer) \in Nat
        /\ buffer \in Seq(1..MaxHeard)
    BY <2>1 DEF StreamInv, StreamTypes, AcceptedIsKept, Accepts
  <2>3. /\ buffer' \in Seq(1..MaxHeard) /\ Len(buffer') = Len(buffer) + 1
        /\ buffer'[Len(buffer) + 1] = heard'
        /\ \A n \in 1..Len(buffer) : buffer'[n] = buffer[n]
    BY <2>1, <2>2, AppendProperties
  <2>4. StreamTypes'
    <3>1. active' \in BOOLEAN /\ listening' \in BOOLEAN
      <4>1. CASE UNCHANGED <<active, listening>>  BY <4>1 DEF StreamInv, StreamTypes
      <4>2. CASE active' = FALSE /\ listening' = FALSE  BY <4>2
      <4> QED  BY <2>1, <4>1, <4>2
    <3>2. Len(buffer') <= MaxBuffered /\ heard' \in 0..MaxHeard /\ accepted' \in Nat
      BY <2>1, <2>2, <2>3 DEF StreamInv, StreamTypes
    <3> QED  BY <2>1, <2>3, <3>1, <3>2 DEF StreamInv, StreamTypes
  <2>5. AcceptedIsKept'
    <3>1. \A n \in 1..Len(buffer) : buffer[n] = Len(yielded) + n
      BY DEF StreamInv, AcceptedIsKept
    <3>2. ASSUME NEW n \in 1..Len(buffer') PROVE buffer'[n] = Len(yielded) + n
      <4>1. n \in 1..Len(buffer) \/ n = Len(buffer) + 1  BY <2>2, <2>3
      <4>2. CASE n \in 1..Len(buffer)  BY <2>3, <3>1, <4>2
      <4>3. CASE n = Len(buffer) + 1
        <5>1. buffer'[n] = heard + 1  BY <2>1, <2>3, <4>3
        <5> QED  BY <2>2, <4>3, <5>1
      <4> QED  BY <4>1, <4>2, <4>3
    <3>3. /\ Len(yielded') + Len(buffer') = accepted' /\ accepted' = heard'
          /\ accepted' <= wanted' /\ accepted' <= heard'
      BY <2>1, <2>2, <2>3
    <3> QED  BY <2>1, <3>2, <3>3 DEF StreamInv, AcceptedIsKept
  <2>6. WhyRetired' /\ RetiredIsSilent'
    <3>1. accepted' = wanted => ~active'  BY <2>1
    <3>2. ~active' => accepted' = wanted  BY <2>1 DEF Accepts
    <3>3. cancelled' = FALSE  BY <2>1 DEF StreamInv, StreamTypes, Accepts
    <3>4. active' \/ ~listening'  BY <2>1 DEF Accepts
    <3>5. setup = "connecting" => ~listening'
      BY <2>1 DEF StreamInv, RetiredIsSilent
    <3> QED  BY <2>1, <3>1, <3>2, <3>3, <3>4, <3>5 DEF StreamInv, WhyRetired, RetiredIsSilent
  <2>7. CleanEndIsComplete'
    BY <2>1 DEF StreamInv, WhyRetired, CleanEndIsComplete, Accepts, Ended
  <2> QED  BY <2>4, <2>5, <2>6, <2>7 DEF StreamInv
<1> QED  BY <1>1, <1>2

LEMMA StreamYieldStep ==
  ASSUME StreamInv, Yields
  PROVE  StreamInv'
<1> USE StreamShape
<1>1. /\ UNCHANGED <<wanted, timed, setup, ready, listening, subscribed, active, cancelled,
                     linkLost, late, heard, accepted, error>>
      /\ yielded' = Append(yielded, Head(buffer)) /\ buffer' = Tail(buffer) /\ buffer # << >>
      /\ consumer = "running" /\ consumer' = "paused"
  BY DEF Yields, Running, setupVars
<1>2. /\ buffer \in Seq(1..MaxHeard) /\ yielded \in Seq(1..MaxHeard)
      /\ Len(buffer) \in Nat \ {0} /\ Len(yielded) \in Nat
  BY <1>1, EmptySeq DEF StreamInv, StreamTypes
<1>3. /\ buffer' \in Seq(1..MaxHeard) /\ Len(buffer') = Len(buffer) - 1
      /\ \A n \in 1..Len(buffer') : buffer'[n] = buffer[n + 1]
      /\ Head(buffer) = buffer[1] /\ Head(buffer) \in 1..MaxHeard
  BY <1>1, <1>2, HeadTailProperties
<1>4. /\ yielded' \in Seq(1..MaxHeard) /\ Len(yielded') = Len(yielded) + 1
      /\ yielded'[Len(yielded) + 1] = Head(buffer)
      /\ \A n \in 1..Len(yielded) : yielded'[n] = yielded[n]
  BY <1>1, <1>2, <1>3, AppendProperties
<1>5. StreamTypes'
  BY <1>1, <1>3, <1>4 DEF StreamInv, StreamTypes
<1>6. AcceptedIsKept'
  <2>1. /\ Len(yielded) + Len(buffer) = accepted
        /\ \A n \in 1..Len(yielded) : yielded[n] = n
        /\ \A n \in 1..Len(buffer) : buffer[n] = Len(yielded) + n
    BY DEF StreamInv, AcceptedIsKept
  <2>2. Head(buffer) = Len(yielded) + 1  BY <1>2, <1>3, <2>1
  <2>3. ASSUME NEW n \in 1..Len(yielded') PROVE yielded'[n] = n
    <3>1. n \in 1..Len(yielded) \/ n = Len(yielded) + 1  BY <1>2, <1>4
    <3> QED  BY <1>4, <2>1, <2>2, <3>1
  <2>4. \A n \in 1..Len(buffer') : buffer'[n] = Len(yielded') + n  BY SMTT(30), <1>2, <1>3, <1>4, <2>1
  <2> QED  BY <1>1, <1>2, <1>3, <1>4, <2>1, <2>3, <2>4 DEF StreamInv, AcceptedIsKept, Accepts, Expired
<1>7. WhyRetired' /\ RetiredIsSilent' /\ CleanEndIsComplete'
  BY <1>1 DEF StreamInv, WhyRetired, RetiredIsSilent, CleanEndIsComplete, Expired, Ended
<1> QED  BY <1>5, <1>6, <1>7 DEF StreamInv

LEMMA StreamEndStep ==
  ASSUME StreamInv,
         \/ Raises \/ SetupExpires \/ Finishes \/ DeadlineBetween \/ Resumes \/ CallerCloses
  PROVE  StreamInv'
<1> USE StreamShape
<1>1. /\ UNCHANGED <<wanted, timed, setup, ready, subscribed, linkLost, heard, buffer, accepted,
                     yielded, error>>
      /\ consumer \in {"running", "paused"} /\ (late => late') /\ late' \in BOOLEAN
      /\ \/ consumer' \in Ended /\ cancelled' = TRUE /\ active' = FALSE /\ listening' = FALSE
         \/ consumer' = "running" /\ UNCHANGED <<active, cancelled, listening>>
  BY DEF Raises, SetupExpires, Finishes, DeadlineBetween, Resumes, CallerCloses, Running, Ends,
         Retire, Ended, setupVars, bufferVars, StreamInv, StreamTypes
<1>2. StreamTypes'
  BY <1>1 DEF StreamInv, StreamTypes, Ended
<1>3. AcceptedIsKept'
  <2>1. Accepts' => Accepts  BY <1>1 DEF StreamInv, StreamTypes, Accepts, Expired
  <2> QED  BY <1>1, <2>1, AcceptedKept DEF StreamInv
<1>4. WhyRetired' /\ RetiredIsSilent'
  BY <1>1 DEF StreamInv, StreamTypes, WhyRetired, RetiredIsSilent, Expired, Ended
<1>5. CleanEndIsComplete'
  <2>1. CASE consumer' # "clean"  BY <2>1 DEF CleanEndIsComplete
  <2>2. CASE consumer' = "clean"
    <3>1. /\ Len(yielded) \in Nat /\ Len(buffer) \in Nat /\ buffer \in Seq(1..MaxHeard)
          /\ wanted \in Nat /\ accepted \in Nat
          /\ Len(yielded) + Len(buffer) = accepted /\ accepted <= wanted
      BY DEF StreamInv, StreamTypes, AcceptedIsKept
    <3>2. CASE Len(yielded) = wanted
      <4>1. Len(buffer) = 0 /\ accepted = wanted  BY <3>1, <3>2
      <4> QED  BY <1>1, <3>1, <3>2, <4>1, EmptySeq DEF CleanEndIsComplete
    <3>3. CASE Len(yielded) # wanted
      <4>1. /\ error = "none" /\ buffer = << >>
            /\ Expired' \/ ~active
            /\ consumer = "running"
        BY <2>2, <3>3 DEF Raises, SetupExpires, Finishes, DeadlineBetween, Resumes, CallerCloses,
                          Ends, Running, Expired
      <4>2. Len(buffer) = 0 /\ Len(yielded) = accepted  BY <3>1, <4>1, EmptySeq
      <4>3. accepted = wanted \/ Expired'
        BY <1>1, <4>1 DEF StreamInv, WhyRetired, Expired, Ended
      <4> QED  BY <1>1, <4>1, <4>2, <4>3 DEF CleanEndIsComplete
    <3> QED  BY <3>2, <3>3
  <2> QED  BY <2>1, <2>2
<1> QED  BY <1>2, <1>3, <1>4, <1>5 DEF StreamInv

LEMMA StreamsAreTrue ==
  ASSUME StreamInv
  PROVE  StreamIsTrue
<1>1. NoGap
  <2> DEFINE got == yielded \o buffer
  <2>1. /\ yielded \in Seq(1..MaxHeard) /\ buffer \in Seq(1..MaxHeard)
        /\ \A n \in 1..Len(yielded) : yielded[n] = n
        /\ \A n \in 1..Len(buffer) : buffer[n] = Len(yielded) + n
    BY DEF StreamInv, StreamTypes, AcceptedIsKept
  <2>2. /\ Len(yielded) \in Nat /\ Len(buffer) \in Nat /\ Len(got) = Len(yielded) + Len(buffer)
        /\ \A n \in 1..Len(got) : got[n] = IF n <= Len(yielded) THEN yielded[n]
                                           ELSE buffer[n - Len(yielded)]
    BY <2>1, ConcatProperties
  <2>3. ASSUME NEW n \in 1..Len(got) PROVE got[n] = n
    <3>1. CASE n <= Len(yielded)  BY <2>1, <2>2, <3>1
    <3>2. CASE n > Len(yielded)
      <4>1. n - Len(yielded) \in 1..Len(buffer)  BY <2>2, <3>2
      <4> QED  BY <2>1, <2>2, <3>2, <4>1
    <3> QED  BY <2>2, <3>1, <3>2
  <2> QED  BY <2>3 DEF NoGap
<1>2. CleanEndIsComplete  BY DEF StreamInv
<1>3. NothingStaysSubscribed
  BY DEF StreamInv, WhyRetired, RetiredIsSilent, NothingStaysSubscribed
<1> QED  BY <1>1, <1>2, <1>3 DEF StreamIsTrue

(* Whatever the handler, the setup, the expiry and the consumer of a stream do *)
(* first, and however large its buffer: it yields the matching events in order *)
(* without a gap, a clean end left nothing out, and nothing stays subscribed   *)
(* (client.py:1261-1419).                                                      *)
THEOREM StreamsTellTheTruth == StreamSpec => []StreamIsTrue
<1>1. StreamInit => StreamInv
  <2> SUFFICES ASSUME StreamInit PROVE StreamInv  OBVIOUS
  <2>1. wanted \in 1..(MaxHeard + 1) /\ timed \in BOOLEAN /\ MaxHeard \in Nat /\ MaxBuffered \in Nat
    BY StreamShape DEF StreamInit
  <2>2. /\ buffer = << >> /\ yielded = << >> /\ << >> \in Seq(1..MaxHeard)
        /\ Len(buffer) = 0 /\ Len(yielded) = 0
    BY EmptySeq DEF StreamInit
  <2>3. StreamTypes
    <3>1. Len(buffer) <= MaxBuffered  BY <2>1, <2>2
    <3>2. buffer \in Seq(1..MaxHeard) /\ yielded \in Seq(1..MaxHeard)  BY <2>2
    <3>3. heard \in 0..MaxHeard /\ accepted \in Nat  BY <2>1 DEF StreamInit
    <3> QED  BY <2>1, <3>1, <3>2, <3>3 DEF StreamInit, StreamTypes
  <2>4. AcceptedIsKept
    <3>1. heard = 0 /\ accepted = 0  BY DEF StreamInit
    <3> QED  BY <2>1, <2>2, <3>1 DEF AcceptedIsKept
  <2>5. WhyRetired /\ RetiredIsSilent /\ CleanEndIsComplete
    BY <2>1 DEF StreamInit, WhyRetired, RetiredIsSilent, CleanEndIsComplete, Ended
  <2> QED  BY <2>3, <2>4, <2>5 DEF StreamInv
<1>2. StreamInv /\ UNCHANGED streamVars => StreamInv'
  BY DEF streamVars, setupVars, bufferVars, StreamInv, StreamTypes, AcceptedIsKept,
         WhyRetired, RetiredIsSilent, CleanEndIsComplete, Accepts, Expired
<1>3. StreamInv /\ [StreamNext]_streamVars => StreamInv'
  BY <1>2, StreamSetupStep, StreamTimeStep, StreamEventStep, StreamYieldStep, StreamEndStep
     DEF StreamNext, Consumes
<1> QED  BY <1>1, <1>3, StreamsAreTrue, PTL DEF StreamSpec
=============================================================================
