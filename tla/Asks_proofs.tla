------------------------------- MODULE Asks_proofs ------------------------------
(* What is true of every ask, query and send of one client, however many there *)
(* are of each, however often they are tried and whenever the link goes; and   *)
(* of what is carried from one turn of its conversations to the next, the ids  *)
(* requests and events go by, and the language a hub is asked in.              *)
EXTENDS Asks, ConversationMemory, Correlation, Languages, WellFoundedInduction, SequenceTheorems, TLAPS

(* The handlers of a call are a function of it.                                *)
AskTypes == AskTypeOK /\ listening \in [Collectors -> SUBSET {"speech", "handled", "query"}]

(* Who never started is unknown to the transport and to the hub; who has not   *)
(* published has nothing out.                                                  *)
NothingEarly ==
  \A c \in Collectors :
    /\ stage[c] = "idle" => listening[c] = {} /\ hub[c] = "none"
    /\ stage[c] \in {"idle", "connecting"} => sent[c] = 0

(* A call that has ended is decided, and only such a call has an outcome.      *)
EndedIsDecided ==
  \A c \in Collectors :
    /\ stage[c] = "ended" => verdict[c] # "open"
    /\ outcome[c] # "none" => stage[c] = "ended"

(* A send the hub may still refuse is one the client still counts.             *)
SendsAreCounted == \A s \in Sends : hub[s] \in {"held", "refused"} => s \in recent

AskInv ==
  /\ AskTypes /\ NothingEarly /\ EndedIsDecided /\ SendsAreCounted
  /\ VerdictIsItsOwn /\ OnceAndOver

LEMMA AskInit == AsksInit => AskInv
BY CallKinds DEF AsksInit, AskInv, AskTypes, AskTypeOK, NothingEarly, EndedIsDecided, SendsAreCounted,
  VerdictIsItsOwn, OnceAndOver, RefusalIsOwn, SpeechDecides, PublishedAtMostOnce, NothingLeftBound,
  Collectors, Utterances

LEMMA LinkStep ==
  ASSUME AskInv, LinkDrops \/ AppClose
  PROVE  AskInv'
<1> USE CallKinds DEF AskInv, AskTypes, AskTypeOK, NothingEarly, EndedIsDecided, SendsAreCounted,
  VerdictIsItsOwn, OnceAndOver, RefusalIsOwn, SpeechDecides, PublishedAtMostOnce, NothingLeftBound,
  Collectors, Utterances, callVars, frameVars, historyVars, LinkGone
<1>1. CASE LinkDrops  BY <1>1 DEF LinkDrops
<1>2. CASE AppClose  BY <1>2 DEF AppClose, Doom
<1> QED  BY <1>1, <1>2

LEMMA CallStep ==
  ASSUME AskInv, NEW c \in Collectors,
         \/ Start(c) \/ Elapse(c) \/ Deadline(c) \/ Publish(c) \/ Lost(c) \/ AttemptFails(c)
         \/ WriteDone(c) \/ WriteFails(c)
  PROVE  AskInv'
<1> USE CallKinds DEF AskInv, AskTypes, AskTypeOK, NothingEarly, EndedIsDecided, SendsAreCounted,
  VerdictIsItsOwn, OnceAndOver, RefusalIsOwn, SpeechDecides, PublishedAtMostOnce, NothingLeftBound,
  Collectors, Utterances, callVars, frameVars, historyVars, Active, Open, LinkKept, AtDeadline, Failing
<1>1. CASE Start(c)  BY <1>1 DEF Start
<1>2. CASE Elapse(c)  BY <1>2 DEF Elapse
<1>3. CASE Deadline(c)  BY <1>3 DEF Deadline
<1>4. CASE Publish(c)  BY <1>4 DEF Publish, Frames
<1>5. CASE Lost(c)  BY <1>5 DEF Lost
<1>6. CASE AttemptFails(c)  BY <1>6 DEF AttemptFails
<1>7. CASE WriteDone(c)  BY <1>7 DEF WriteDone
<1>8. CASE WriteFails(c)  BY <1>8 DEF WriteFails, LinkGone
<1> QED  BY <1>1, <1>2, <1>3, <1>4, <1>5, <1>6, <1>7, <1>8

LEMMA FrameStep ==
  ASSUME AskInv, NEW c \in Collectors, Frame(c)
  PROVE  AskInv'
<1> USE CallKinds DEF AskInv, AskTypes, AskTypeOK, NothingEarly, EndedIsDecided, SendsAreCounted,
  VerdictIsItsOwn, OnceAndOver, RefusalIsOwn, SpeechDecides, PublishedAtMostOnce, NothingLeftBound,
  Collectors, Utterances, callVars, historyVars, Open, AtDeadline, Heard, Answering, Admitted
<1>1. CASE Overdue(c)  BY <1>1 DEF Overdue, frameVars
<1>2. CASE Speak(c)  BY <1>2 DEF Speak
<1>3. CASE Unmatched(c)  BY <1>3 DEF Unmatched, EmptyWindow
<1>4. CASE HardFailure(c)  BY <1>4 DEF HardFailure
<1>5. CASE Complete(c)  BY <1>5 DEF Complete, frameVars
<1>6. CASE Handled(c)  BY <1>6 DEF Handled, EmptyWindow
<1> QED  BY <1>1, <1>2, <1>3, <1>4, <1>5, <1>6 DEF Frame

(* The caller resumes, tries again or is cancelled; its last handler goes.     *)
LEMMA EndStep ==
  ASSUME AskInv, NEW c \in Collectors, Resume(c) \/ Retry(c) \/ Cancel(c) \/ GraceEnds(c)
  PROVE  AskInv'
<1> USE CallKinds DEF AskInv, AskTypes, AskTypeOK, NothingEarly, EndedIsDecided, SendsAreCounted,
  VerdictIsItsOwn, OnceAndOver, RefusalIsOwn, SpeechDecides, PublishedAtMostOnce, NothingLeftBound,
  Collectors, Utterances, callVars, historyVars, Active, Open, LinkGone, LocalsDie
<1>1. CASE Resume(c)
  <2>1. Result(c) \in {"replied", "unanswered", "denied", "failed", "silent", "lost", "late"}
        /\ (Result(c) = "replied" => spoke[c])
        /\ (Result(c) \in {"unanswered", "denied", "failed", "silent"} => ~spoke[c])
    BY <1>1 DEF Resume, Result
  <2>2. CASE writer = c /\ Result(c) # "replied"
    BY <1>1, <2>1, <2>2 DEF Resume
  <2>3. CASE ~(writer = c /\ Result(c) # "replied")
    BY <1>1, <2>1, <2>3 DEF Resume, HandlersAfter
  <2> QED  BY <2>2, <2>3
<1>2. CASE Retry(c)  BY <1>2 DEF Retry, Retries, frameVars
<1>3. CASE Cancel(c)  BY <1>3 DEF Cancel
<1>4. CASE GraceEnds(c)  BY <1>4 DEF GraceEnds, frameVars
<1> QED  BY <1>1, <1>2, <1>3, <1>4

(* What the hub does with an utterance, and a refusal that names no request:   *)
(* it can only be taken by the one ask that is under way, while no send is     *)
(* counted, so whoever else it was for has ended.                              *)
LEMMA HubStep ==
  ASSUME AskInv, NEW u \in Utterances, HubRefuses(u) \/ HubIsDone(u) \/ Denied(u)
  PROVE  AskInv'
<1> USE CallKinds DEF AskInv, AskTypes, AskTypeOK, NothingEarly, EndedIsDecided, SendsAreCounted,
  VerdictIsItsOwn, OnceAndOver, RefusalIsOwn, SpeechDecides, PublishedAtMostOnce, NothingLeftBound,
  Collectors, Utterances, callVars, historyVars, Active, Open
<1>1. CASE HubRefuses(u)  BY <1>1 DEF HubRefuses, frameVars
<1>2. CASE HubIsDone(u)  BY <1>2 DEF HubIsDone, Answering, frameVars
<1>3. CASE Denied(u)
  <2> DEFINE takers == {a \in Asks : listening[a] # {} /\ Open(a) /\ (due[a] \/ BelongsToAsk(a))}
             told == {a \in takers : ~due[a]}
  <2>1. /\ hub[u] = "refused" /\ hub' = [hub EXCEPT ![u] = "over"]
        /\ verdict' = [c \in Collectors |-> IF c \in takers THEN "done" ELSE verdict[c]]
        /\ failure' = [c \in Collectors |-> IF c \in told THEN "denied" ELSE failure[c]]
        /\ deniedBy' = [c \in Collectors |-> IF c \in told THEN u ELSE deniedBy[c]]
        /\ UNCHANGED <<link, writer, stage, tries, doomed, outcome, spoke, window, due, carried, listening,
                       sent, recent, historyVars>>
    BY <1>3 DEF Denied
  <2>2. ASSUME NEW a \in told
        PROVE  u = a \/ (u \in Collectors /\ stage[u] = "ended")
    <3>1. InFlight = {a} /\ recent = {}
      BY DEF BelongsToAsk
    <3>2. u \notin Sends
      BY <2>1, <3>1
    <3>3. u \in Collectors /\ stage[u] # "idle"
      BY <2>1, <3>2
    <3>4. stage[u] # "ended" => u \in InFlight
      BY <3>3 DEF InFlight
    <3> QED  BY <3>1, <3>3, <3>4
  <2>3. \A c \in Collectors : c \in takers => stage[c] # "ended"
    OBVIOUS
  <2> HIDE DEF takers, told
  <2>4. RefusalIsOwn'  BY <2>1, <2>2
  <2>5. told \subseteq takers  BY DEF told
  <2> QED  BY <2>1, <2>4, <2>5
<1> QED  BY <1>1, <1>2, <1>3

LEMMA SendStep ==
  ASSUME AskInv, NEW s \in Sends, Send(s) \/ Forget(s)
  PROVE  AskInv'
<1> USE CallKinds DEF AskInv, AskTypes, AskTypeOK, NothingEarly, EndedIsDecided, SendsAreCounted,
  VerdictIsItsOwn, OnceAndOver, RefusalIsOwn, SpeechDecides, PublishedAtMostOnce, NothingLeftBound,
  Collectors, Utterances, callVars, frameVars, historyVars
<1>1. CASE Send(s)  BY <1>1 DEF Send
<1>2. CASE Forget(s)  BY <1>2 DEF Forget
<1> QED  BY <1>1, <1>2

LEMMA AskStep == AskInv /\ [AsksNext]_askVars => AskInv'
<1>1. AskInv /\ UNCHANGED askVars => AskInv'
  BY DEF askVars, callVars, frameVars, historyVars, AskInv, AskTypes, AskTypeOK, NothingEarly, EndedIsDecided,
    SendsAreCounted, VerdictIsItsOwn, OnceAndOver, RefusalIsOwn, SpeechDecides, PublishedAtMostOnce, NothingLeftBound
<1> QED
  BY <1>1, LinkStep, CallStep, FrameStep, EndStep, HubStep, SendStep DEF AsksNext

LEMMA AskInvariant == AsksSpec => []AskInv
BY AskInit, AskStep, PTL DEF AsksSpec

(* Every part of a call and of a collector keeps the values the code gives it. *)
THEOREM AskTypeCorrect == AsksSpec => []AskTypeOK
<1>1. AskInv => AskTypeOK  BY DEF AskInv, AskTypes
<1> QED  BY <1>1, AskInvariant, PTL

(* A refusal that names no request ends an ask only when no other utterance    *)
(* that still waits, and no send of the last seconds, can be the refused one;  *)
(* and a turn that spoke is a reply whatever else came, and when               *)
(* (events.py:488-533, client.py:1992-2076).                                   *)
THEOREM AskVerdictIsItsOwn == AsksSpec => []VerdictIsItsOwn
<1>1. AskInv => VerdictIsItsOwn  BY DEF AskInv
<1> QED  BY <1>1, AskInvariant, PTL

(* However the connection fails, is closed and is dialled again, an utterance  *)
(* goes out at most once and a call that has ended leaves no handler behind    *)
(* (client.py:1811-1813, 2120-2124, 2225-2245).                                *)
THEOREM AskOnceAndOver == AsksSpec => []OnceAndOver
<1>1. AskInv => OnceAndOver  BY DEF AskInv
<1> QED  BY <1>1, AskInvariant, PTL

-----------------------------------------------------------------------------
(* The memory of conversations.                                                *)
(*                                                                             *)
(* The loops of the store are recursive functions.  What such a loop computes  *)
(* is proved with the least number at which a claim would fail, for the        *)
(* numbers below others are well founded.                                      *)

Below == {p \in Nat \X Nat : p[1] < p[2]}

LEMMA BelowIsWellFounded == IsWellFoundedOn(Below, Nat)
BY NatLessThanWellFounded DEF OpToRel, Below

LEMMA Least ==
  ASSUME NEW T \in SUBSET Nat, T # {}
  PROVE  \E n \in T : \A m \in T : n <= m
<1>1. PICK n \in T : \A m \in T : <<m, n>> \notin Below
  BY BelowIsWellFounded, WFMin
<1>2. ASSUME NEW m \in T  PROVE n <= m
  <2>1. m \in Nat /\ n \in Nat  OBVIOUS
  <2>2. ~(m < n)
    <3>1. <<m, n>> \in Nat \X Nat /\ <<m, n>>[1] = m /\ <<m, n>>[2] = n  BY <2>1
    <3> QED  BY <1>1, <3>1 DEF Below
  <2> QED  BY <2>1, <2>2
<1> QED  BY <1>2

LEMMA EachStep ==
  ASSUME NEW N \in Nat, NEW S, 0 \in S, \A n \in 1..N : n - 1 \in S => n \in S
  PROVE  \A n \in 0..N : n \in S
<1> DEFINE T == {n \in 0..N : n \notin S}
<1> SUFFICES ASSUME T # {} PROVE FALSE  OBVIOUS
<1>1. T \in SUBSET Nat  OBVIOUS
<1>2. PICK n \in T : \A m \in T : n <= m
  <2> HIDE DEF T
  <2> QED  BY <1>1, Least
<1>3. n \in 1..N /\ n \notin S  BY <1>2
<1>4. n - 1 \notin T  BY <1>1, <1>2, <1>3
<1>5. n - 1 \in S  BY <1>3, <1>4
<1> QED  BY <1>3, <1>5

(* A loop over 1..N that starts with a value and makes another of it each turn *)
(* can be run, whatever the values.                                            *)
LoopOver(N, V, start, Turned) == N \in Nat /\ start \in V /\ Turned \in [1..N -> [V -> V]]
RunsAs(N, V, start, Turned, f) ==
  /\ f \in [0..N -> V] /\ f[0] = start
  /\ \A n \in 1..N : f[n] = Turned[n][f[n - 1]]

LEMMA LoopRuns ==
  ASSUME NEW N, NEW V, NEW start, NEW Turned, LoopOver(N, V, start, Turned)
  PROVE  \E f : RunsAs(N, V, start, Turned, f)
<1> USE DEF LoopOver
<1> DEFINE Runs(n, f) == f[0] = start /\ \A k \in 1..n : f[k] = Turned[k][f[k - 1]]
           S == {n \in 0..N : \E f \in [0..N -> V] : Runs(n, f)}
<1>1. 0 \in S
  <2>1. [n \in 0..N |-> start] \in [0..N -> V] /\ Runs(0, [n \in 0..N |-> start])  OBVIOUS
  <2> HIDE DEF Runs
  <2> QED  BY <2>1
<1>2. ASSUME NEW n \in 1..N, n - 1 \in S  PROVE n \in S
  <2>1. PICK f \in [0..N -> V] : Runs(n - 1, f)  BY <1>2
  <2> DEFINE g == [f EXCEPT ![n] = Turned[n][f[n - 1]]]
  <2>2. g \in [0..N -> V]  OBVIOUS
  <2>3. g[0] = start  BY <2>1
  <2>4. ASSUME NEW k \in 1..n  PROVE g[k] = Turned[k][g[k - 1]]
    <3>1. CASE k = n  BY <3>1
    <3>2. CASE k \in 1..(n - 1)  BY <2>1, <3>2
    <3> QED  BY <3>1, <3>2
  <2>5. Runs(n, g)  BY <2>3, <2>4
  <2> HIDE DEF Runs, g
  <2> QED  BY <2>2, <2>5
<1>3. N \in S
  <2> HIDE DEF S
  <2>1. \A n \in 1..N : n - 1 \in S => n \in S  BY <1>2
  <2>2. \A n \in 0..N : n \in S  BY <1>1, <2>1, EachStep
  <2> QED  BY <2>2
<1> QED  BY <1>3 DEF RunsAs

(* What steps as a loop does, wherever the values are its own, is a run of it. *)
LEMMA StepsRun ==
  ASSUME NEW N, NEW V, NEW start, NEW Turned, LoopOver(N, V, start, Turned),
         NEW F, F = [n \in 0..N |-> F[n]], F[0] = start,
         \A n \in 1..N : F[n - 1] \in V => F[n] = Turned[n][F[n - 1]]
  PROVE  RunsAs(N, V, start, Turned, F)
<1> DEFINE T == {n \in 0..N : F[n] \in V}
<1>1. N \in Nat  BY DEF LoopOver
<1>2. 0 \in T  BY <1>1 DEF LoopOver
<1>3. ASSUME NEW n \in 1..N, n - 1 \in T  PROVE n \in T
  <2>1. F[n - 1] \in V /\ Turned[n] \in [V -> V]  BY <1>3 DEF LoopOver
  <2>2. F[n] = Turned[n][F[n - 1]]  BY <2>1
  <2>3. F[n] \in V  BY <2>1, <2>2
  <2> QED  BY <1>1, <2>3
<1>4. \A n \in 0..N : n \in T
  <2> HIDE DEF T
  <2> QED  BY <1>1, <1>2, <1>3, EachStep
<1>5. F \in [0..N -> V]  BY <1>4
<1>6. \A n \in 1..N : n - 1 \in 0..N  BY <1>1
<1> QED  BY <1>4, <1>5, <1>6 DEF RunsAs

-----------------------------------------------------------------------------
(* The loops of the memory are run.  Each is the CHOOSE of its equation, which *)
(* has a solution because the loop can be run.                                 *)
FilterRun(f, X, s, S) ==
  /\ f \in [0..Len(s) -> Seq(X)] /\ f[0] = << >> /\ Only(s, S) = f[Len(s)]
  /\ \A n \in 1..Len(s) : f[n] = IF s[n] \in S THEN Append(f[n - 1], s[n]) ELSE f[n - 1]

LEMMA OnlyRuns ==
  ASSUME NEW X, NEW s \in Seq(X), NEW S
  PROVE  \E f : FilterRun(f, X, s, S)
<1> DEFINE N == Len(s)
           V == Seq(X)
           start == << >>
           Grown(n, v) == IF s[n] \in S THEN Append(v, s[n]) ELSE v
           Loop(f) == [n \in 0..N |-> IF n = 0 THEN start ELSE Grown(n, f[n - 1])]
           F == CHOOSE f : f = Loop(f)
           Turned == [n \in 1..N |-> [v \in V |-> Grown(n, v)]]
<1>1. Only(s, S) = F[N]  BY DEF Only
<1>2. N \in Nat /\ start \in V /\ \A n \in 1..N, v \in V : Grown(n, v) \in V  OBVIOUS
<1> HIDE DEF Grown, N, V, start
<1>3. LoopOver(N, V, start, Turned) /\ \A n \in 1..N, v \in V : Turned[n][v] = Grown(n, v)
  BY <1>2 DEF LoopOver
<1> HIDE DEF Turned
<1>4. PICK f : RunsAs(N, V, start, Turned, f)  BY <1>3, LoopRuns
<1>5. f = Loop(f)
  <2>1. ASSUME NEW n \in 1..N  PROVE n - 1 \in 0..N /\ f[n] = Grown(n, f[n - 1])
    <3>1. n - 1 \in 0..N  BY <1>2
    <3>2. f[n - 1] \in V /\ f[n] = Turned[n][f[n - 1]]  BY <1>4, <3>1 DEF RunsAs
    <3> QED  BY <1>3, <3>1, <3>2
  <2>2. f = [n \in 0..N |-> f[n]]  BY <1>4 DEF RunsAs
  <2>3. \A n \in 0..N : f[n] = IF n = 0 THEN start ELSE Grown(n, f[n - 1])
    BY <1>2, <1>4, <2>1 DEF RunsAs
  <2> QED  BY <2>2, <2>3
<1>6. F = Loop(F)
  <2> HIDE DEF Loop
  <2> QED  BY <1>5
<1> HIDE DEF F
<1>7. /\ F = [n \in 0..N |-> F[n]]
      /\ \A n \in 0..N : F[n] = IF n = 0 THEN start ELSE Grown(n, F[n - 1])
  BY <1>6
<1>8. F[0] = start /\ \A n \in 1..N : F[n] = Grown(n, F[n - 1])  BY <1>2, <1>7
<1>9. RunsAs(N, V, start, Turned, F)  BY <1>3, <1>7, <1>8, StepsRun
<1>10. FilterRun(F, X, s, S)  BY <1>1, <1>8, <1>9 DEF RunsAs, Grown, N, V, start, FilterRun
<1> QED  BY <1>10

LEMMA JoinedRuns ==
  ASSUME NEW X, NEW names \in Seq(X), NEW more \in Seq(X)
  PROVE  \E f \in [0..Len(more) -> Seq(X)] :
           /\ f[0] = names /\ Joined(names, more) = f[Len(more)]
           /\ \A n \in 1..Len(more) :
                f[n] = IF more[n] \in ToSet(f[n - 1]) THEN f[n - 1] ELSE Append(f[n - 1], more[n])
<1> DEFINE N == Len(more)
           V == Seq(X)
           start == names
           Grown(n, v) == IF more[n] \in ToSet(v) THEN v ELSE Append(v, more[n])
           Loop(f) == [n \in 0..N |-> IF n = 0 THEN start ELSE Grown(n, f[n - 1])]
           F == CHOOSE f : f = Loop(f)
           Turned == [n \in 1..N |-> [v \in V |-> Grown(n, v)]]
<1>1. Joined(names, more) = F[N]  BY DEF Joined
<1>2. N \in Nat /\ start \in V /\ \A n \in 1..N, v \in V : Grown(n, v) \in V  OBVIOUS
<1> HIDE DEF Grown, N, V, start
<1>3. LoopOver(N, V, start, Turned) /\ \A n \in 1..N, v \in V : Turned[n][v] = Grown(n, v)
  BY <1>2 DEF LoopOver
<1> HIDE DEF Turned
<1>4. PICK f : RunsAs(N, V, start, Turned, f)  BY <1>3, LoopRuns
<1>5. f = Loop(f)
  <2>1. ASSUME NEW n \in 1..N  PROVE n - 1 \in 0..N /\ f[n] = Grown(n, f[n - 1])
    <3>1. n - 1 \in 0..N  BY <1>2
    <3>2. f[n - 1] \in V /\ f[n] = Turned[n][f[n - 1]]  BY <1>4, <3>1 DEF RunsAs
    <3> QED  BY <1>3, <3>1, <3>2
  <2>2. f = [n \in 0..N |-> f[n]]  BY <1>4 DEF RunsAs
  <2>3. \A n \in 0..N : f[n] = IF n = 0 THEN start ELSE Grown(n, f[n - 1])
    BY <1>2, <1>4, <2>1 DEF RunsAs
  <2> QED  BY <2>2, <2>3
<1>6. F = Loop(F)
  <2> HIDE DEF Loop
  <2> QED  BY <1>5
<1> HIDE DEF F
<1>7. /\ F = [n \in 0..N |-> F[n]]
      /\ \A n \in 0..N : F[n] = IF n = 0 THEN start ELSE Grown(n, F[n - 1])
  BY <1>6
<1>8. F[0] = start /\ \A n \in 1..N : F[n] = Grown(n, F[n - 1])  BY <1>2, <1>7
<1>9. RunsAs(N, V, start, Turned, F)  BY <1>3, <1>7, <1>8, StepsRun
<1> QED  BY <1>1, <1>8, <1>9 DEF RunsAs, Grown, N, V, start

(* The elements of a sequence, of a longer one and of two.                     *)
LEMMA InSet ==
  ASSUME NEW X, NEW s \in Seq(X)
  PROVE  /\ \A x : x \in ToSet(s) <=> \E k \in 1..Len(s) : s[k] = x
         /\ ToSet(s) \subseteq X /\ Len(s) \in Nat
         /\ \A k \in 1..Len(s) : s[k] \in ToSet(s) /\ s[k] \in X
<1>1. DOMAIN s = 1..Len(s) /\ Len(s) \in Nat /\ \A k \in 1..Len(s) : s[k] \in X  OBVIOUS
<1> QED  BY <1>1 DEF ToSet

LEMMA InAppended ==
  ASSUME NEW X, NEW s \in Seq(X), NEW x \in X
  PROVE  ToSet(Append(s, x)) = ToSet(s) \cup {x}
<1>1. Append(s, x) \in Seq(X) /\ Len(Append(s, x)) = Len(s) + 1 /\ Append(s, x)[Len(s) + 1] = x
      /\ \A k \in 1..Len(s) : Append(s, x)[k] = s[k]
  BY AppendProperties
<1>2. ASSUME NEW y, y \in ToSet(Append(s, x))  PROVE y \in ToSet(s) \cup {x}
  <2>1. \A z : z \in ToSet(Append(s, x)) <=> \E k \in 1..Len(Append(s, x)) : Append(s, x)[k] = z
    BY <1>1, InSet
  <2>2. PICK k \in 1..(Len(s) + 1) : Append(s, x)[k] = y  BY <1>1, <1>2, <2>1
  <2>3. k \in 1..Len(s) \/ k = Len(s) + 1  BY InSet
  <2> QED  BY <1>1, <2>3, <2>2, InSet
<1>3. ASSUME NEW y, y \in ToSet(s) \cup {x}  PROVE y \in ToSet(Append(s, x))
  <2>1. \E k \in 1..(Len(s) + 1) : Append(s, x)[k] = y
    <3>1. CASE y = x  BY <1>1, <3>1, InSet
    <3>2. CASE y \in ToSet(s)
      <4>1. PICK k \in 1..Len(s) : s[k] = y  BY <3>2, InSet
      <4>2. k \in 1..(Len(s) + 1) /\ Append(s, x)[k] = y  BY <1>1, <4>1, InSet
      <4> QED  BY <4>2
    <3> QED  BY <1>3, <3>1, <3>2
  <2> QED  BY <1>1, <2>1, InSet
<1> QED  BY <1>2, <1>3

(* What is joined: the names as they were, then the others that are new.       *)
LEMMA JoinedIn ==
  ASSUME NEW X, NEW names \in Seq(X), NEW more \in Seq(X)
  PROVE  /\ Joined(names, more) \in Seq(X)
         /\ Len(Joined(names, more)) \in Len(names)..(Len(names) + Len(more))
         /\ \A k \in 1..Len(names) : Joined(names, more)[k] = names[k]
         /\ ToSet(Joined(names, more)) = ToSet(names) \cup ToSet(more)
<1>1. PICK f \in [0..Len(more) -> Seq(X)] :
           /\ f[0] = names /\ Joined(names, more) = f[Len(more)]
           /\ \A n \in 1..Len(more) :
                f[n] = IF more[n] \in ToSet(f[n - 1]) THEN f[n - 1] ELSE Append(f[n - 1], more[n])
  BY JoinedRuns
<1> DEFINE Good(n) == /\ Len(f[n]) \in Len(names)..(Len(names) + n)
                      /\ \A k \in 1..Len(names) : f[n][k] = names[k]
                      /\ \A x : x \in ToSet(f[n]) <=> x \in ToSet(names) \/ \E k \in 1..n : x = more[k]
           T == {n \in 0..Len(more) : Good(n)}
<1>2. Len(more) \in Nat /\ Len(names) \in Nat  OBVIOUS
<1>3. 0 \in T  BY <1>1, <1>2
<1>4. ASSUME NEW n \in 1..Len(more), n - 1 \in T  PROVE n \in T
  <2>1. f[n - 1] \in Seq(X) /\ Good(n - 1) /\ more[n] \in X  BY <1>1, <1>2, <1>4
  <2>2. CASE more[n] \in ToSet(f[n - 1])
    <3>1. f[n] = f[n - 1]  BY <1>1, <2>2
    <3> QED  BY <1>2, <2>1, <2>2, <3>1
  <2>3. CASE more[n] \notin ToSet(f[n - 1])
    <3>1. f[n] = Append(f[n - 1], more[n])  BY <1>1, <2>3
    <3> DEFINE m == Len(f[n - 1])
    <3>2. /\ Len(f[n]) = m + 1 /\ m \in Nat /\ f[n][m + 1] = more[n]
          /\ \A k \in 1..m : f[n][k] = f[n - 1][k]
      BY <2>1, <3>1, AppendProperties
    <3>3. ToSet(f[n]) = ToSet(f[n - 1]) \cup {more[n]}  BY <2>1, <3>1, InAppended
    <3>4. Len(f[n]) \in Len(names)..(Len(names) + n)  BY <1>2, <2>1, <3>2
    <3>5. \A k \in 1..Len(names) : f[n][k] = names[k]  BY <1>2, <2>1, <3>2
    <3>6. \A x : x \in ToSet(f[n]) <=> x \in ToSet(names) \/ \E k \in 1..n : x = more[k]
      BY <1>2, <2>1, <3>3
    <3> QED  BY <3>4, <3>5, <3>6
  <2> QED  BY <2>2, <2>3
<1>5. Good(Len(more))
  <2>1. \A n \in 0..Len(more) : n \in T
    <3> HIDE DEF T
    <3> QED  BY <1>2, <1>3, <1>4, EachStep
  <2> QED  BY <1>2, <2>1
<1>6. f[Len(more)] \in Seq(X)  BY <1>2
<1>7. ToSet(f[Len(more)]) = ToSet(names) \cup ToSet(more)
  <2>1. \A x : x \in ToSet(more) <=> \E k \in 1..Len(more) : x = more[k]  BY InSet
  <2> QED  BY <1>5, <2>1
<1> QED  BY <1>1, <1>5, <1>6, <1>7

(* A group is held for each id that reaches one.                               *)
LEMMA HolderIs ==
  ASSUME NEW mem \in Seq(Group), NEW i, Reached(mem, {i}) # {}
  PROVE  /\ Holder(mem, i) \in Group /\ Holder(mem, i) \in ToSet(mem) /\ i \in ToSet(Holder(mem, i).ids)
<1>1. Holder(mem, i) \in Reached(mem, {i})  BY DEF Holder
<1>2. ToSet(mem) \subseteq Group  BY DEF ToSet
<1> QED  BY <1>1, <1>2 DEF Reached

LEMMA SiblingsIn ==
  ASSUME NEW mem \in Seq(Group), NEW i
  PROVE  Siblings(mem, i) \in Seq(Ids)
<1>1. CASE Reached(mem, {i}) = {}  BY <1>1 DEF Siblings
<1>2. CASE Reached(mem, {i}) # {}
  <2>1. Holder(mem, i) \in Group  BY <1>2, HolderIs
  <2> QED  BY <1>2, <2>1 DEF Siblings, Group
<1> QED  BY <1>1, <1>2

LEMMA NamesRun ==
  ASSUME NEW mem \in Seq(Group), NEW ids \in Seq(Ids)
  PROVE  \E f \in [0..Len(ids) -> Seq(Ids)] :
           /\ f[0] = Once(ids) /\ Names(mem, ids) = f[Len(ids)]
           /\ \A n \in 1..Len(ids) : f[n] = Joined(f[n - 1], Siblings(mem, ids[n]))
<1> DEFINE N == Len(ids)
           V == Seq(Ids)
           start == Once(ids)
           Grown(n, v) == Joined(v, Siblings(mem, ids[n]))
           Loop(f) == [n \in 0..N |-> IF n = 0 THEN start ELSE Grown(n, f[n - 1])]
           F == CHOOSE f : f = Loop(f)
           Turned == [n \in 1..N |-> [v \in V |-> Grown(n, v)]]
<1>1. Names(mem, ids) = F[N]  BY DEF Names
<1>2. N \in Nat /\ start \in V /\ \A n \in 1..N, v \in V : Grown(n, v) \in V
  <2>1. << >> \in Seq(Ids) /\ N \in Nat  OBVIOUS
  <2>2. \A v, w \in Seq(Ids) : Joined(v, w) \in Seq(Ids)  BY JoinedIn
  <2>3. \A i \in Ids : Siblings(mem, i) \in Seq(Ids)  BY SiblingsIn
  <2>4. start \in V  BY <2>1, <2>2 DEF Once
  <2>5. \A n \in 1..N : ids[n] \in Ids  OBVIOUS
  <2>6. \A n \in 1..N, v \in V : Grown(n, v) \in V  BY <2>2, <2>3, <2>5
  <2> QED  BY <2>1, <2>4, <2>6
<1> HIDE DEF Grown, N, V, start
<1>3. LoopOver(N, V, start, Turned) /\ \A n \in 1..N, v \in V : Turned[n][v] = Grown(n, v)
  BY <1>2 DEF LoopOver
<1> HIDE DEF Turned
<1>4. PICK f : RunsAs(N, V, start, Turned, f)  BY <1>3, LoopRuns
<1>5. f = Loop(f)
  <2>1. ASSUME NEW n \in 1..N  PROVE n - 1 \in 0..N /\ f[n] = Grown(n, f[n - 1])
    <3>1. n - 1 \in 0..N  BY <1>2
    <3>2. f[n - 1] \in V /\ f[n] = Turned[n][f[n - 1]]  BY <1>4, <3>1 DEF RunsAs
    <3> QED  BY <1>3, <3>1, <3>2
  <2>2. f = [n \in 0..N |-> f[n]]  BY <1>4 DEF RunsAs
  <2>3. \A n \in 0..N : f[n] = IF n = 0 THEN start ELSE Grown(n, f[n - 1])
    BY <1>2, <1>4, <2>1 DEF RunsAs
  <2> QED  BY <2>2, <2>3
<1>6. F = Loop(F)
  <2> HIDE DEF Loop
  <2> QED  BY <1>5
<1> HIDE DEF F
<1>7. /\ F = [n \in 0..N |-> F[n]]
      /\ \A n \in 0..N : F[n] = IF n = 0 THEN start ELSE Grown(n, F[n - 1])
  BY <1>6
<1>8. F[0] = start /\ \A n \in 1..N : F[n] = Grown(n, F[n - 1])  BY <1>2, <1>7
<1>9. RunsAs(N, V, start, Turned, F)  BY <1>3, <1>7, <1>8, StepsRun
<1> QED  BY <1>1, <1>8, <1>9 DEF RunsAs, Grown, N, V, start

(* This turn's ids come first in the names, and the others are of what they    *)
(* reach.                                                                      *)
LEMMA NamesAre ==
  ASSUME NEW mem \in Seq(Group), NEW ids \in Seq(Ids)
  PROVE  /\ Names(mem, ids) \in Seq(Ids)
         /\ Len(Once(ids)) <= Len(ids) /\ Len(Once(ids)) <= Len(Names(mem, ids))
         /\ Once(ids) \in Seq(Ids) /\ ToSet(Once(ids)) = ToSet(ids)
         /\ \A k \in 1..Len(Once(ids)) : Names(mem, ids)[k] = Once(ids)[k]
         /\ \A i \in ToSet(Names(mem, ids)) :
              i \in ToSet(ids) \/ \E g \in Reached(mem, ToSet(ids)) : i \in ToSet(g.ids)
<1>1. PICK f \in [0..Len(ids) -> Seq(Ids)] :
        /\ f[0] = Once(ids) /\ Names(mem, ids) = f[Len(ids)]
        /\ \A n \in 1..Len(ids) : f[n] = Joined(f[n - 1], Siblings(mem, ids[n]))
  BY NamesRun
<1>2. /\ Once(ids) \in Seq(Ids) /\ Len(Once(ids)) \in 0..Len(ids) /\ ToSet(Once(ids)) = ToSet(ids)
      /\ Len(ids) \in Nat
  <2>1. << >> \in Seq(Ids) /\ Len(<< >>) = 0 /\ ToSet(<< >>) = {}  BY DEF ToSet
  <2>2. Len(ids) \in Nat  OBVIOUS
  <2>3. /\ Joined(<< >>, ids) \in Seq(Ids)
        /\ Len(Joined(<< >>, ids)) \in Len(<< >>)..(Len(<< >>) + Len(ids))
        /\ ToSet(Joined(<< >>, ids)) = ToSet(<< >>) \cup ToSet(ids)
    BY <2>1, JoinedIn
  <2>4. Len(Joined(<< >>, ids)) \in 0..Len(ids)
    <3> HIDE DEF Joined
    <3> QED  BY <2>1, <2>2, <2>3
  <2> QED  BY <2>1, <2>2, <2>3, <2>4 DEF Once
<1> DEFINE m == Len(Once(ids))
           Inherited(i) == i \in ToSet(ids) \/ \E g \in Reached(mem, ToSet(ids)) : i \in ToSet(g.ids)
           Good(n) == /\ m <= Len(f[n]) /\ \A k \in 1..m : f[n][k] = Once(ids)[k]
                      /\ \A i \in ToSet(f[n]) : Inherited(i)
           T == {n \in 0..Len(ids) : Good(n)}
<1>3. 0 \in T
  <2>1. f[0] = Once(ids) /\ m \in Nat /\ 0 \in 0..Len(ids)  BY <1>1, <1>2
  <2>2. \A i \in ToSet(f[0]) : Inherited(i)  BY <1>2, <2>1
  <2>3. Good(0)
    <3> HIDE DEF Inherited
    <3> QED  BY <2>1, <2>2
  <2> QED  BY <2>1, <2>3
<1>4. ASSUME NEW n \in 1..Len(ids), n - 1 \in T  PROVE n \in T
  <2> DEFINE more == Siblings(mem, ids[n])
  <2>1. f[n - 1] \in Seq(Ids) /\ Good(n - 1) /\ ids[n] \in Ids /\ Len(f[n - 1]) \in Nat
    <3> HIDE DEF Good
    <3>1. n - 1 \in 0..Len(ids) /\ Good(n - 1)  BY <1>4
    <3>2. f[n - 1] \in Seq(Ids)  BY ONLY <1>1, <3>1
    <3> QED  BY <3>1, <3>2
  <2>2. more \in Seq(Ids) /\ f[n] = Joined(f[n - 1], more) /\ Len(more) \in Nat
    BY <1>1, SiblingsIn
  <2>3. ASSUME NEW i \in ToSet(more)  PROVE Inherited(i)
    <3>1. Reached(mem, {ids[n]}) # {} /\ more = Holder(mem, ids[n]).ids
      <4>1. ToSet(<< >>) = {}  BY DEF ToSet
      <4> QED  BY <2>3, <4>1 DEF Siblings
    <3>2. Holder(mem, ids[n]) \in ToSet(mem) /\ ids[n] \in ToSet(Holder(mem, ids[n]).ids)
      BY <3>1, HolderIs
    <3>3. ids[n] \in ToSet(ids)  BY InSet
    <3>4. Holder(mem, ids[n]) \in Reached(mem, ToSet(ids))  BY <3>2, <3>3 DEF Reached
    <3> QED  BY <2>3, <3>1, <3>4
  <2> HIDE DEF more, Inherited
  <2>4. /\ Len(f[n]) >= Len(f[n - 1]) /\ Len(f[n]) \in Nat
        /\ \A k \in 1..Len(f[n - 1]) : f[n][k] = f[n - 1][k]
        /\ ToSet(f[n]) = ToSet(f[n - 1]) \cup ToSet(more)
    BY <2>1, <2>2, JoinedIn
  <2>5. m <= Len(f[n]) /\ \A k \in 1..m : f[n][k] = Once(ids)[k]
    <3>1. m <= Len(f[n - 1]) /\ \A k \in 1..m : f[n - 1][k] = Once(ids)[k]  BY <2>1
    <3>2. m <= Len(f[n])  BY <1>2, <2>1, <2>4, <3>1
    <3>3. \A k \in 1..m : k \in 1..Len(f[n - 1])  BY <1>2, <2>1, <3>1
    <3> QED  BY <2>4, <3>1, <3>2, <3>3
  <2>6. \A i \in ToSet(f[n]) : Inherited(i)  BY <2>1, <2>3, <2>4
  <2> QED  BY <2>5, <2>6
<1>5. Good(Len(ids))
  <2>1. \A n \in 0..Len(ids) : n \in T
    <3> HIDE DEF T
    <3> QED  BY <1>2, <1>3, <1>4, EachStep
  <2>2. Len(ids) \in 0..Len(ids)  BY <1>2
  <2>3. Len(ids) \in T  BY <2>1, <2>2
  <2> QED  BY <2>3
<1> QED  BY <1>1, <1>2, <1>5

(* A filter keeps what the set holds, in its order.                            *)
Kept(q, s, n, S) ==
  /\ \A p \in 1..Len(q) : \E k \in 1..n : q[p] = s[k] /\ s[k] \in S
  /\ \A k \in 1..n : s[k] \in S => \E p \in 1..Len(q) : q[p] = s[k]
InOrder(q, s, n) ==
  \A p, r \in 1..Len(q) : p < r => \E k, l \in 1..n : k < l /\ q[p] = s[k] /\ q[r] = s[l]
OrderKept(q, s, n, S) ==
  \A k, l \in 1..n : k < l /\ s[k] \in S /\ s[l] \in S =>
       \E p, r \in 1..Len(q) : p < r /\ q[p] = s[k] /\ q[r] = s[l]
Thins(q, s, n, S) == Kept(q, s, n, S) /\ InOrder(q, s, n) /\ OrderKept(q, s, n, S)

LEMMA ThinsOn ==
  ASSUME NEW X, NEW s \in Seq(X), NEW S, NEW n \in 1..Len(s), NEW q \in Seq(X), Thins(q, s, n - 1, S)
  PROVE  Thins(IF s[n] \in S THEN Append(q, s[n]) ELSE q, s, n, S)
<1>1. n \in Nat /\ Len(q) \in Nat /\ s[n] \in X /\ \A k \in 1..n : k \in 1..(n - 1) \/ k = n  OBVIOUS
<1>2. \A k \in 1..(n - 1) : k \in 1..n /\ k < n  BY <1>1
<1>3. CASE s[n] \notin S
  <2>1. Kept(q, s, n, S)
    <3>0. Kept(q, s, n - 1, S)  BY DEF Thins
    <3>1. ASSUME NEW p \in 1..Len(q)  PROVE \E k \in 1..n : q[p] = s[k] /\ s[k] \in S
      <4>1. PICK k \in 1..(n - 1) : q[p] = s[k] /\ s[k] \in S  BY <3>0 DEF Kept
      <4> QED  BY <1>2, <4>1
    <3>2. \A k \in 1..n : s[k] \in S => \E p \in 1..Len(q) : q[p] = s[k]  BY <1>1, <1>3, <3>0 DEF Kept
    <3> QED  BY <3>1, <3>2 DEF Kept
  <2>2. InOrder(q, s, n)  BY <1>2 DEF Thins, InOrder
  <2>3. OrderKept(q, s, n, S)
    <3> SUFFICES ASSUME NEW k \in 1..n, NEW l \in 1..n, k < l, s[k] \in S, s[l] \in S
                 PROVE  \E p, r \in 1..Len(q) : p < r /\ q[p] = s[k] /\ q[r] = s[l]
      BY DEF OrderKept
    <3>1. k \in 1..(n - 1) /\ l \in 1..(n - 1)  BY <1>1, <1>3
    <3> QED  BY <3>1 DEF Thins, OrderKept
  <2> QED  BY <1>3, <2>1, <2>2, <2>3 DEF Thins
<1>4. CASE s[n] \in S
  <2> DEFINE r == Append(q, s[n])  m == Len(q)
  <2>1. Len(r) = m + 1 /\ r[m + 1] = s[n] /\ \A p \in 1..m : r[p] = q[p]  BY <1>1, AppendProperties
  <2>2. \A p \in 1..(m + 1) : p \in 1..m \/ p = m + 1  BY <1>1
  <2>3. \A p \in 1..m : p \in 1..(m + 1) /\ p < m + 1  BY <1>1
  <2>4. m + 1 \in 1..(m + 1) /\ n \in 1..n  BY <1>1
  <2>5. m \in Nat  BY <1>1
  <2>6. Len(q) = m  OBVIOUS
  <2> HIDE DEF r, m
  <2>7. Kept(r, s, n, S)
    <3>1. ASSUME NEW p \in 1..Len(r)  PROVE \E k \in 1..n : r[p] = s[k] /\ s[k] \in S
      <4>1. CASE p = m + 1  BY <1>4, <2>1, <2>4, <4>1
      <4>2. CASE p \in 1..m
        <5>1. PICK k \in 1..(n - 1) : q[p] = s[k] /\ s[k] \in S  BY <2>6, <4>2 DEF Thins, Kept
        <5> QED  BY <1>2, <2>1, <4>2, <5>1
      <4> QED  BY <2>1, <2>2, <4>1, <4>2
    <3>2. ASSUME NEW k \in 1..n, s[k] \in S  PROVE \E p \in 1..Len(r) : r[p] = s[k]
      <4>1. CASE k = n  BY <2>1, <2>4, <4>1
      <4>2. CASE k \in 1..(n - 1)
        <5>1. PICK p \in 1..m : q[p] = s[k]  BY <2>6, <3>2, <4>2 DEF Thins, Kept
        <5> QED  BY <2>1, <2>3, <5>1
      <4> QED  BY <1>1, <4>1, <4>2
    <3> QED  BY <3>1, <3>2 DEF Kept
  <2>8. InOrder(r, s, n)
    <3> SUFFICES ASSUME NEW p \in 1..Len(r), NEW o \in 1..Len(r), p < o
                 PROVE  \E k, l \in 1..n : k < l /\ r[p] = s[k] /\ r[o] = s[l]
      BY DEF InOrder
    <3>1. p \in 1..m  BY <2>1, <2>5
    <3>2. CASE o \in 1..m
      <4>1. PICK k \in 1..(n - 1), l \in 1..(n - 1) : k < l /\ q[p] = s[k] /\ q[o] = s[l]
        BY <2>6, <3>1, <3>2 DEF Thins, InOrder
      <4> QED  BY <1>2, <2>1, <3>1, <3>2, <4>1
    <3>3. CASE o = m + 1
      <4>1. PICK k \in 1..(n - 1) : q[p] = s[k]  BY <2>6, <3>1 DEF Thins, Kept
      <4>2. k \in 1..n /\ n \in 1..n /\ k < n /\ r[p] = s[k] /\ r[o] = s[n]
        BY <1>2, <2>1, <2>4, <3>1, <3>3, <4>1
      <4> QED  BY <4>2
    <3> QED  BY <2>1, <2>2, <3>2, <3>3
  <2>9. OrderKept(r, s, n, S)
    <3> SUFFICES ASSUME NEW k \in 1..n, NEW l \in 1..n, k < l, s[k] \in S, s[l] \in S
                 PROVE  \E p, o \in 1..Len(r) : p < o /\ r[p] = s[k] /\ r[o] = s[l]
      BY DEF OrderKept
    <3>1. k \in 1..(n - 1)  BY <1>1
    <3>2. CASE l \in 1..(n - 1)
      <4>1. PICK p \in 1..m, o \in 1..m : p < o /\ q[p] = s[k] /\ q[o] = s[l]
        BY <2>6, <3>1, <3>2 DEF Thins, OrderKept
      <4>2. p \in 1..Len(r) /\ o \in 1..Len(r) /\ r[p] = s[k] /\ r[o] = s[l]  BY <2>1, <2>3, <4>1
      <4> QED  BY <4>1, <4>2
    <3>3. CASE l = n
      <4>1. PICK p \in 1..m : q[p] = s[k]  BY <2>6, <3>1 DEF Thins, Kept
      <4>2. p \in 1..Len(r) /\ m + 1 \in 1..Len(r) /\ p < m + 1 /\ r[p] = s[k] /\ r[m + 1] = s[l]
        BY <2>1, <2>3, <2>4, <3>3, <4>1
      <4> QED  BY <4>2
    <3> QED  BY <1>1, <3>2, <3>3
  <2>10. Thins(r, s, n, S)  BY <2>7, <2>8, <2>9 DEF Thins
  <2> QED  BY <1>4, <2>10 DEF r
<1> QED  BY <1>3, <1>4

LEMMA OnlyThins ==
  ASSUME NEW X, NEW s \in Seq(X), NEW S
  PROVE  Only(s, S) \in Seq(X) /\ Thins(Only(s, S), s, Len(s), S)
<1>1. PICK f : FilterRun(f, X, s, S)  BY OnlyRuns
<1> DEFINE T == {n \in 0..Len(s) : Thins(f[n], s, n, S)}
<1>2. Len(s) \in Nat  OBVIOUS
<1>3. 0 \in T  BY <1>1, <1>2 DEF Thins, Kept, InOrder, OrderKept, FilterRun
<1>4. ASSUME NEW n \in 1..Len(s), n - 1 \in T  PROVE n \in T
  <2>1. f[n - 1] \in Seq(X) /\ Thins(f[n - 1], s, n - 1, S)  BY <1>1, <1>2, <1>4 DEF FilterRun
  <2>2. Thins(IF s[n] \in S THEN Append(f[n - 1], s[n]) ELSE f[n - 1], s, n, S)  BY <2>1, ThinsOn
  <2>3. f[n] = IF s[n] \in S THEN Append(f[n - 1], s[n]) ELSE f[n - 1]  BY <1>1 DEF FilterRun
  <2>4. Thins(f[n], s, n, S)  BY <2>2, <2>3
  <2> QED  BY <1>2, <2>4
<1>5. \A n \in 0..Len(s) : n \in T
  <2> HIDE DEF T
  <2> QED  BY <1>2, <1>3, <1>4, EachStep
<1>6. Thins(f[Len(s)], s, Len(s), S) /\ f[Len(s)] \in Seq(X)  BY <1>1, <1>2, <1>5 DEF FilterRun
<1> QED  BY <1>1, <1>6 DEF FilterRun

(* Two filters that share a sequence between them keep all of it.              *)
LEMMA OnlySplits ==
  ASSUME NEW X, NEW s \in Seq(X), NEW S
  PROVE  Len(Only(s, ToSet(s) \ S)) + Len(Only(s, S)) = Len(s)
<1> DEFINE R == ToSet(s) \ S
<1>1. \A n \in 1..Len(s) : s[n] \in X /\ (s[n] \in R <=> s[n] \notin S)  BY InSet
<1> HIDE DEF R
<1>2. PICK f : FilterRun(f, X, s, S)  BY OnlyRuns
<1>3. PICK g : FilterRun(g, X, s, R)  BY OnlyRuns
<1> DEFINE T == {n \in 0..Len(s) : Len(g[n]) + Len(f[n]) = n}
<1>4. Len(s) \in Nat  OBVIOUS
<1>5. 0 \in T  BY <1>2, <1>3, <1>4 DEF FilterRun
<1>6. ASSUME NEW n \in 1..Len(s), n - 1 \in T  PROVE n \in T
  <2>1. n - 1 \in 0..Len(s) /\ n \in 0..Len(s) /\ n \in Nat  BY <1>4
  <2>2. PICK a \in Seq(X), b \in Seq(X) :
          a = f[n - 1] /\ b = g[n - 1]
    BY <1>2, <1>3, <2>1 DEF FilterRun
  <2>3. Len(b) + Len(a) = n - 1  BY <1>6, <2>2
  <2>4. /\ f[n] = IF s[n] \in S THEN Append(a, s[n]) ELSE a
        /\ g[n] = IF s[n] \in R THEN Append(b, s[n]) ELSE b
    BY <1>2, <1>3, <2>2 DEF FilterRun
  <2>5. s[n] \in X /\ (s[n] \in R <=> s[n] \notin S)  BY <1>1
  <2>6. /\ Len(Append(a, s[n])) = Len(a) + 1 /\ Len(Append(b, s[n])) = Len(b) + 1
        /\ Len(a) \in Nat /\ Len(b) \in Nat
    BY <2>5, AppendProperties
  <2>7. Len(g[n]) + Len(f[n]) = n
    <3>1. CASE s[n] \in S
      <4>1. Len(f[n]) = Len(a) + 1 /\ Len(g[n]) = Len(b)  BY <2>4, <2>5, <2>6, <3>1
      <4> QED  BY ONLY <2>1, <2>3, <2>6, <4>1
    <3>2. CASE s[n] \notin S
      <4>1. Len(g[n]) = Len(b) + 1 /\ Len(f[n]) = Len(a)  BY <2>4, <2>5, <2>6, <3>2
      <4> QED  BY ONLY <2>1, <2>3, <2>6, <4>1
    <3> QED  BY <3>1, <3>2
  <2> QED  BY <2>1, <2>7
<1>7. \A n \in 0..Len(s) : n \in T
  <2> HIDE DEF T
  <2> QED  BY <1>4, <1>5, <1>6, EachStep
<1>8. Len(s) \in T
  <2>1. Len(s) \in 0..Len(s)  BY <1>4
  <2> HIDE DEF T
  <2> QED  BY <1>7, <2>1
<1> QED  BY <1>2, <1>3, <1>8 DEF FilterRun, R

(* The first and the last of a sequence, and one after another.                *)
LEMMA FirstIs ==
  ASSUME NEW X, NEW s \in Seq(X), NEW n \in Nat
  PROVE  /\ FirstOf(s, n) \in Seq(X)
         /\ Len(FirstOf(s, n)) = IF Len(s) < n THEN Len(s) ELSE n
         /\ \A k \in 1..Len(FirstOf(s, n)) : FirstOf(s, n)[k] = s[k]
<1> DEFINE m == IF Len(s) < n THEN Len(s) ELSE n
<1>1. Len(s) \in Nat /\ m \in 0..Len(s)  OBVIOUS
<1>2. \A k \in 1..m : s[k] \in X /\ k \in 1..Len(s)  BY <1>1
<1> HIDE DEF m
<1>3. SubSeq(s, 1, m) = [k \in 1..m |-> s[k]]  BY <1>1
<1>4. SubSeq(s, 1, m) \in Seq(X) /\ Len(SubSeq(s, 1, m)) = m  BY <1>1, <1>2, <1>3
<1>5. FirstOf(s, n) = SubSeq(s, 1, m)  BY DEF FirstOf, m
<1> QED  BY <1>3, <1>4, <1>5 DEF m

LEMMA LastIs ==
  ASSUME NEW X, NEW s \in Seq(X), NEW n \in Nat \ {0}
  PROVE  /\ LastOf(s, n) \in Seq(X)
         /\ Len(LastOf(s, n)) = IF Len(s) < n THEN Len(s) ELSE n
         /\ \A k \in 1..Len(LastOf(s, n)) :
              /\ k + (Len(s) - Len(LastOf(s, n))) \in 1..Len(s)
              /\ LastOf(s, n)[k] = s[k + (Len(s) - Len(LastOf(s, n)))]
<1> DEFINE m == IF Len(s) < n THEN Len(s) ELSE n
           d == Len(s) - m
<1>1. Len(s) \in Nat /\ m \in 0..Len(s) /\ d \in Nat /\ m = Len(s) - d  OBVIOUS
<1>2. LastOf(s, n) = SubSeq(s, d + 1, Len(s))
  <2>1. (IF Len(s) < n THEN 1 ELSE Len(s) - n + 1) = d + 1  BY <1>1
  <2> QED  BY <2>1 DEF LastOf
<1> HIDE DEF m, d
<1>3. \A k \in 1..m : k + d \in 1..Len(s) /\ s[k + d] \in X  BY <1>1
<1>4. SubSeq(s, d + 1, Len(s)) = [k \in 1..m |-> s[k + d]]  BY <1>1
<1>5. SubSeq(s, d + 1, Len(s)) \in Seq(X) /\ Len(SubSeq(s, d + 1, Len(s))) = m
  BY <1>1, <1>3, <1>4
<1>6. Len(s) - m = d  BY <1>1
<1> QED  BY <1>2, <1>3, <1>4, <1>5, <1>6 DEF m

(* What a filing leaves: groups its ids do not reach, as they were, and after  *)
(* them the one it made, if it had a state to keep.                            *)
Free(g, ids) == ToSet(g.ids) \cap ToSet(ids) = {}
AsBefore(M, mem, m, n) == \E k, l \in 1..Len(mem) : k < l /\ M[m] = mem[k] /\ M[n] = mem[l]

LEMMA OthersAre ==
  ASSUME NEW mem \in Seq(Group), NEW ids
  PROVE  /\ Others(mem, ids) \in Seq(Group) /\ Len(Others(mem, ids)) <= Len(mem)
         /\ \A p \in 1..Len(Others(mem, ids)) :
              Others(mem, ids)[p] \in ToSet(mem) /\ Free(Others(mem, ids)[p], ids)
         /\ \A g \in ToSet(mem) : Free(g, ids) => g \in ToSet(Others(mem, ids))
         /\ \A m, n \in 1..Len(Others(mem, ids)) :
              m < n => AsBefore(Others(mem, ids), mem, m, n)
<1> DEFINE O == Others(mem, ids)
           K == Reached(mem, ToSet(ids))
           S == ToSet(mem) \ K
<1>1. O = Only(mem, S)  BY DEF Others
<1>2. \A g \in ToSet(mem) : g \in S <=> Free(g, ids)  BY DEF Reached, Free
<1>3. \A k \in 1..Len(mem) : mem[k] \in ToSet(mem)  BY InSet
<1>4. \A g \in ToSet(mem) : \E k \in 1..Len(mem) : g = mem[k]  BY InSet
<1> HIDE DEF K
<1>5. Len(O) + Len(Only(mem, K)) = Len(mem)  BY <1>1, OnlySplits
<1> HIDE DEF O, S
<1>6. O \in Seq(Group) /\ Thins(O, mem, Len(mem), S)  BY <1>1, OnlyThins
<1>7. Len(O) <= Len(mem)
  <2>1. Only(mem, K) \in Seq(Group)  BY OnlyThins
  <2>2. Len(O) \in Nat /\ Len(Only(mem, K)) \in Nat  BY <1>6, <2>1
  <2>3. Len(mem) \in Nat  OBVIOUS
  <2> QED  BY ONLY <1>5, <2>2, <2>3
<1>8. \A p \in 1..Len(O) : O[p] \in ToSet(mem) /\ Free(O[p], ids)
  BY <1>2, <1>3, <1>6 DEF Thins, Kept
<1>9. ASSUME NEW g \in ToSet(mem), Free(g, ids)  PROVE g \in ToSet(O)
  <2>1. PICK k \in 1..Len(mem) : g = mem[k]  BY <1>4
  <2>2. mem[k] \in S  BY <1>2, <1>9, <2>1
  <2>3. PICK p \in 1..Len(O) : O[p] = mem[k]  BY <1>6, <2>2 DEF Thins, Kept
  <2> QED  BY <1>6, <2>1, <2>3, InSet
<1>10. \A m, n \in 1..Len(O) : m < n => AsBefore(O, mem, m, n)
  BY <1>6 DEF Thins, InOrder, AsBefore
<1> QED  BY <1>6, <1>7, <1>8, <1>9, <1>10 DEF O

Made(M, n, g, carries) == carries /\ n = Len(M) /\ M[n] = g
Left(M, n, mem, ids) == M[n] \in ToSet(mem) /\ Free(M[n], ids)
Files(M, mem, ids, g, carries) ==
  /\ M \in Seq(Group) /\ (Len(mem) <= MaxRemembered => Len(M) <= MaxRemembered)
  /\ \A n \in 1..Len(M) : Made(M, n, g, carries) \/ Left(M, n, mem, ids)
  /\ \A m, n \in 1..Len(M) : m < n =>
       Left(M, m, mem, ids) /\ (Made(M, n, g, carries) \/ AsBefore(M, mem, m, n))
  /\ carries => g \in ToSet(M)
  /\ ~carries => \A f \in ToSet(mem) : Free(f, ids) => f \in ToSet(M)
  /\ ToSet(M) \subseteq ToSet(mem) \cup {g}

NewGroup(mem, ids, t) == [ids |-> FirstOf(Names(mem, ids), MaxAliases), turn |-> t]

LEMMA NewGroupIs ==
  ASSUME NEW mem \in Seq(Group), NEW ids \in Seq(Ids), NEW t \in Turns, Len(ids) \in 1..3
  PROVE  LET g == NewGroup(mem, ids, t) IN
         /\ g \in Group /\ g.turn = t /\ Len(g.ids) \in 1..MaxAliases
         /\ ToSet(ids) \subseteq ToSet(g.ids)
         /\ \A i \in ToSet(g.ids) :
              i \in ToSet(ids) \/ \E h \in Reached(mem, ToSet(ids)) : i \in ToSet(h.ids)
<1> DEFINE N == Names(mem, ids)
           O == Once(ids)
           F == FirstOf(N, MaxAliases)
           OfOthers(i) == \E h \in Reached(mem, ToSet(ids)) : i \in ToSet(h.ids)
<1>1. MaxAliases \in Nat /\ MaxAliases >= 3  BY MemoryShape
<1>2. /\ N \in Seq(Ids) /\ O \in Seq(Ids) /\ Len(O) <= Len(ids) /\ Len(O) <= Len(N)
      /\ ToSet(O) = ToSet(ids) /\ \A k \in 1..Len(O) : N[k] = O[k]
      /\ \A i \in ToSet(N) : i \in ToSet(ids) \/ OfOthers(i)
  BY NamesAre
<1> HIDE DEF N, O, OfOthers
<1>3. /\ F \in Seq(Ids) /\ Len(F) = (IF Len(N) < MaxAliases THEN Len(N) ELSE MaxAliases)
      /\ \A k \in 1..Len(F) : F[k] = N[k]
  BY <1>1, <1>2, FirstIs
<1> HIDE DEF F
<1>4. Len(N) \in Nat /\ Len(O) \in Nat /\ Len(F) \in Nat  BY <1>2, <1>3
<1>5. Len(O) # 0
  <2>1. ids[1] \in ToSet(O)  BY <1>2, InSet
  <2>2. PICK k \in 1..Len(O) : O[k] = ids[1]  BY <1>2, <2>1, InSet
  <2> QED  BY <1>4, <2>2
<1>6. Len(O) <= Len(F) /\ Len(F) \in 1..MaxAliases /\ Len(F) <= Len(N)
  BY <1>1, <1>2, <1>3, <1>4, <1>5
<1>7. ToSet(ids) \subseteq ToSet(F)
  <2> SUFFICES ASSUME NEW i \in ToSet(O) PROVE i \in ToSet(F)  BY <1>2
  <2>1. PICK k \in 1..Len(O) : O[k] = i  BY <1>2, InSet
  <2>2. k \in 1..Len(F) /\ F[k] = i  BY <1>2, <1>3, <1>4, <1>6, <2>1
  <2> QED  BY <1>3, <2>2, InSet
<1>8. ASSUME NEW i \in ToSet(F)  PROVE i \in ToSet(ids) \/ OfOthers(i)
  <2>1. PICK k \in 1..Len(F) : F[k] = i  BY <1>3, InSet
  <2>2. k \in 1..Len(N) /\ N[k] = i  BY <1>3, <1>4, <1>6, <2>1
  <2>3. i \in ToSet(N)  BY <1>2, <2>2, InSet
  <2> QED  BY <1>2, <2>3
<1>9. NewGroup(mem, ids, t) = [ids |-> F, turn |-> t]  BY DEF NewGroup, F, N
<1> QED  BY <1>3, <1>6, <1>7, <1>8, <1>9 DEF Group, OfOthers

LEMMA RememberedFiles ==
  ASSUME NEW mem \in Seq(Group), NEW ids \in Seq(Ids), NEW t \in Turns, NEW carries \in BOOLEAN,
         Len(ids) \in 1..3
  PROVE  Files(Remembered(mem, ids, t, carries), mem, ids, NewGroup(mem, ids, t), carries)
<1> DEFINE M == Remembered(mem, ids, t, carries)
           O == Others(mem, ids)
           g == NewGroup(mem, ids, t)
<1>1. /\ O \in Seq(Group) /\ Len(O) <= Len(mem)
      /\ \A p \in 1..Len(O) : O[p] \in ToSet(mem) /\ Free(O[p], ids)
      /\ \A f \in ToSet(mem) : Free(f, ids) => f \in ToSet(O)
      /\ \A m, n \in 1..Len(O) : m < n => AsBefore(O, mem, m, n)
  BY OthersAre
<1>2. g \in Group  BY NewGroupIs
<1>3. M = IF carries THEN LastOf(Append(O, g), MaxRemembered) ELSE O  BY DEF Remembered, NewGroup
<1>4. MaxRemembered \in Nat \ {0}  BY MemoryShape
<1> HIDE DEF O, g, M
<1> SUFFICES Files(M, mem, ids, g, carries)  BY DEF M, g
<1>5. CASE ~carries
  <2>1. M = O  BY <1>3, <1>5
  <2>2. \A n \in 1..Len(M) : Left(M, n, mem, ids)  BY <1>1, <2>1 DEF Left
  <2>3. \A m, n \in 1..Len(M) : m < n => AsBefore(M, mem, m, n)  BY <1>1, <2>1
  <2>4. ToSet(M) \subseteq ToSet(mem)  BY <1>1, <2>1, InSet
  <2>5. Len(mem) <= MaxRemembered => Len(M) <= MaxRemembered
    <3>1. Len(O) \in Nat /\ Len(mem) \in Nat /\ Len(M) = Len(O)  BY <1>1, <2>1
    <3> QED  BY <1>1, <1>4, <3>1
  <2> QED  BY <1>1, <1>5, <2>1, <2>2, <2>3, <2>4, <2>5 DEF Files
<1>6. CASE carries
  <2> DEFINE A == Append(O, g)
             d == Len(A) - Len(M)
  <2>1. /\ A \in Seq(Group) /\ Len(A) = Len(O) + 1 /\ A[Len(O) + 1] = g
        /\ \A k \in 1..Len(O) : A[k] = O[k]
    BY <1>1, <1>2, AppendProperties
  <2> HIDE DEF A
  <2>2. M = LastOf(A, MaxRemembered)  BY <1>3, <1>6 DEF A
  <2>3. /\ M \in Seq(Group) /\ Len(M) = (IF Len(A) < MaxRemembered THEN Len(A) ELSE MaxRemembered)
        /\ \A k \in 1..Len(M) : k + d \in 1..Len(A) /\ M[k] = A[k + d]
    BY <1>4, <2>1, <2>2, LastIs
  <2>4. Len(O) \in Nat /\ Len(A) \in Nat /\ Len(M) \in Nat \ {0} /\ Len(M) <= MaxRemembered
    BY <1>1, <1>4, <2>1, <2>3
  <2>5. d \in Int /\ Len(M) + d = Len(O) + 1  BY <2>1, <2>4
  <2> HIDE DEF d
  <2>6. ASSUME NEW n \in 1..Len(M)
        PROVE  \/ n = Len(M) /\ M[n] = g
               \/ n + d \in 1..Len(O) /\ M[n] = O[n + d] /\ n # Len(M)
    <3>1. n + d \in 1..(Len(O) + 1) /\ M[n] = A[n + d]  BY <2>1, <2>3
    <3>2. CASE n = Len(M)  BY <2>1, <2>5, <3>1, <3>2
    <3>3. CASE n # Len(M)
      <4>1. n + d \in 1..Len(O)  BY <2>4, <2>5, <3>1, <3>3
      <4> QED  BY <2>1, <3>1, <3>3, <4>1
    <3> QED  BY <3>2, <3>3
  <2>7. \A n \in 1..Len(M) : Made(M, n, g, carries) \/ Left(M, n, mem, ids)
    BY <1>1, <1>6, <2>6 DEF Made, Left
  <2>8. ASSUME NEW m \in 1..Len(M), NEW n \in 1..Len(M), m < n
        PROVE  Left(M, m, mem, ids) /\ (Made(M, n, g, carries) \/ AsBefore(M, mem, m, n))
    <3>1. m # Len(M)  BY <2>4, <2>8
    <3>2. m + d \in 1..Len(O) /\ M[m] = O[m + d]  BY <2>6, <3>1
    <3>3. Left(M, m, mem, ids)  BY <1>1, <3>2 DEF Left
    <3>4. CASE n = Len(M) /\ M[n] = g  BY <1>6, <3>3, <3>4 DEF Made
    <3>5. CASE n + d \in 1..Len(O) /\ M[n] = O[n + d]
      <4>1. m + d < n + d  BY <2>5, <2>8
      <4>2. AsBefore(O, mem, m + d, n + d)  BY <1>1, <3>2, <3>5, <4>1
      <4> QED  BY <3>2, <3>3, <3>5, <4>2 DEF AsBefore
    <3> QED  BY <2>6, <3>4, <3>5
  <2>9. g \in ToSet(M)
    <3>1. Len(M) \in 1..Len(M)  BY <2>4
    <3>2. M[Len(M)] = g  BY <2>6, <3>1
    <3> QED  BY <2>3, <3>1, <3>2, InSet
  <2>10. ToSet(M) \subseteq ToSet(mem) \cup {g}
    <3> SUFFICES ASSUME NEW f \in ToSet(M) PROVE f \in ToSet(mem) \cup {g}  OBVIOUS
    <3>1. PICK n \in 1..Len(M) : M[n] = f  BY <2>3, InSet
    <3> QED  BY <2>7, <3>1 DEF Made, Left
  <2> QED  BY <1>6, <2>3, <2>4, <2>7, <2>8, <2>9, <2>10 DEF Files
<1> QED  BY <1>5, <1>6

(* What looking a conversation up leaves: all of it, what the id reaches last. *)
Renews(R, mem, i) ==
  /\ R \in Seq(Group) /\ Len(R) = Len(mem) /\ ToSet(R) = ToSet(mem)
  /\ \A m, n \in 1..Len(R) : m < n =>
       \/ AsBefore(R, mem, m, n) /\ (i \in ToSet(R[m].ids) => i \in ToSet(R[n].ids))
       \/ i \notin ToSet(R[m].ids) /\ i \in ToSet(R[n].ids)

LEMMA RenewedRenews ==
  ASSUME NEW mem \in Seq(Group), NEW i
  PROVE  Renews(Renewed(mem, i), mem, i)
<1> DEFINE R == Renewed(mem, i)
           O == Others(mem, <<i>>)
           K == Reached(mem, {i})
           L == Only(mem, K)
<1>1. ToSet(<<i>>) = {i}  BY DEF ToSet
<1>2. /\ O \in Seq(Group)
      /\ \A p \in 1..Len(O) : O[p] \in ToSet(mem) /\ Free(O[p], <<i>>)
      /\ \A f \in ToSet(mem) : Free(f, <<i>>) => f \in ToSet(O)
      /\ \A m, n \in 1..Len(O) : m < n => AsBefore(O, mem, m, n)
  BY OthersAre
<1>3. \A g : Free(g, <<i>>) <=> i \notin ToSet(g.ids)  BY <1>1 DEF Free
<1>4. \A g : g \in K <=> g \in ToSet(mem) /\ i \in ToSet(g.ids)  BY DEF Reached
<1>5. R = O \o L  BY DEF Renewed
<1>6. Len(O) + Len(L) = Len(mem)
  <2>1. O = Only(mem, ToSet(mem) \ K)  BY <1>1 DEF Others
  <2> HIDE DEF K
  <2> QED  BY <2>1, OnlySplits
<1> HIDE DEF K
<1>7. L \in Seq(Group) /\ Thins(L, mem, Len(mem), K)  BY OnlyThins
<1> HIDE DEF O, L, R
<1>8. Len(O) \in Nat /\ Len(L) \in Nat  BY <1>2, <1>7
<1>9. /\ R \in Seq(Group) /\ Len(R) = Len(O) + Len(L)
      /\ \A n \in 1..Len(R) : R[n] = IF n <= Len(O) THEN O[n] ELSE L[n - Len(O)]
  BY <1>2, <1>5, <1>7, ConcatProperties
<1>10. ASSUME NEW n \in 1..Len(R)
       PROVE  \/ n \in 1..Len(O) /\ R[n] = O[n]
              \/ n - Len(O) \in 1..Len(L) /\ R[n] = L[n - Len(O)] /\ n > Len(O)
  BY <1>8, <1>9
<1>11. \A p \in 1..Len(L) : L[p] \in K  BY <1>7 DEF Thins, Kept
<1>12. \A n \in 1..Len(O) : n \in 1..Len(R) /\ R[n] = O[n]  BY <1>8, <1>9
<1>13. \A n \in 1..Len(L) : n + Len(O) \in 1..Len(R) /\ R[n + Len(O)] = L[n]
  <2> SUFFICES ASSUME NEW n \in 1..Len(L)
               PROVE  n + Len(O) \in 1..Len(R) /\ R[n + Len(O)] = L[n]
    OBVIOUS
  <2>1. n + Len(O) \in 1..Len(R) /\ ~(n + Len(O) <= Len(O)) /\ (n + Len(O)) - Len(O) = n
    BY <1>8, <1>9
  <2> QED  BY <1>9, <2>1
<1>14. ToSet(R) = ToSet(mem)
  <2>1. ASSUME NEW f \in ToSet(R)  PROVE f \in ToSet(mem)
    <3>1. PICK n \in 1..Len(R) : R[n] = f  BY <1>9, InSet
    <3> QED  BY <1>2, <1>4, <1>10, <1>11, <3>1
  <2>2. ASSUME NEW f \in ToSet(mem)  PROVE f \in ToSet(R)
    <3>1. CASE Free(f, <<i>>)
      <4>1. PICK n \in 1..Len(O) : O[n] = f  BY <1>2, <3>1, InSet
      <4> QED  BY <1>9, <1>12, <4>1, InSet
    <3>2. CASE ~Free(f, <<i>>)
      <4>1. f \in K  BY <1>3, <1>4, <3>2
      <4>2. PICK k \in 1..Len(mem) : mem[k] = f  BY InSet
      <4>3. PICK n \in 1..Len(L) : L[n] = mem[k]  BY <1>7, <4>1, <4>2 DEF Thins, Kept
      <4> QED  BY <1>9, <1>13, <4>2, <4>3, InSet
    <3> QED  BY <3>1, <3>2
  <2> QED  BY <2>1, <2>2
<1>15. ASSUME NEW m \in 1..Len(R), NEW n \in 1..Len(R), m < n
       PROVE  \/ AsBefore(R, mem, m, n) /\ (i \in ToSet(R[m].ids) => i \in ToSet(R[n].ids))
              \/ i \notin ToSet(R[m].ids) /\ i \in ToSet(R[n].ids)
  <2>1. CASE m \in 1..Len(O) /\ n \in 1..Len(O)
    <3>1. AsBefore(O, mem, m, n) /\ R[m] = O[m] /\ R[n] = O[n]  BY <1>2, <1>12, <1>15, <2>1
    <3>2. i \notin ToSet(R[m].ids)  BY <1>2, <1>3, <2>1, <3>1
    <3> QED  BY <3>1, <3>2 DEF AsBefore
  <2>2. CASE m \in 1..Len(O) /\ n - Len(O) \in 1..Len(L) /\ R[n] = L[n - Len(O)]
    <3>1. Free(R[m], <<i>>) /\ R[n] \in K  BY <1>2, <1>11, <1>12, <2>2
    <3> QED  BY <1>3, <1>4, <3>1
  <2>3. CASE /\ m - Len(O) \in 1..Len(L) /\ R[m] = L[m - Len(O)]
             /\ n - Len(O) \in 1..Len(L) /\ R[n] = L[n - Len(O)]
    <3>1. m - Len(O) < n - Len(O)  BY <1>8, <1>9, <1>15
    <3>2. PICK k \in 1..Len(mem), l \in 1..Len(mem) :
            k < l /\ L[m - Len(O)] = mem[k] /\ L[n - Len(O)] = mem[l]
      BY <1>7, <2>3, <3>1 DEF Thins, InOrder
    <3>3. i \in ToSet(R[n].ids)  BY <1>4, <1>11, <2>3
    <3> QED  BY <2>3, <3>2, <3>3 DEF AsBefore
  <2>4. ~(m > Len(O) /\ n \in 1..Len(O))  BY <1>8, <1>9, <1>15
  <2> QED  BY <1>10, <2>1, <2>2, <2>3, <2>4
<1> QED  BY <1>6, <1>9, <1>14, <1>15 DEF Renews, R

Earlier(r, c, d) == \E k, l \in 1..Len(r) : k < l /\ r[k] = c /\ r[l] = d

(* The conversation used now comes after all others, whose order stays.        *)
UsedLast(r, u, c) ==
  /\ u \in Seq(Conversations) /\ c \in ToSet(u) /\ ToSet(r) \subseteq ToSet(u)
  /\ \A d \in ToSet(r) : d # c => Earlier(u, d, c)
  /\ \A d, e \in Conversations : d # c /\ e # c /\ Earlier(r, d, e) => Earlier(u, d, e)

LEMMA UsedIs ==
  ASSUME NEW r \in Seq(Conversations), NEW c \in Conversations,
         NEW u, u = Append(Only(r, Conversations \ {c}), c)
  PROVE  UsedLast(r, u, c)
<1> DEFINE S == Conversations \ {c}
           q == Only(r, S)
<1>1. Len(r) \in Nat /\ \A k \in 1..Len(r) : r[k] \in Conversations  OBVIOUS
<1>2. q \in Seq(Conversations) /\ Thins(q, r, Len(r), S)  BY OnlyThins
<1> HIDE DEF q
<1>3. u = Append(q, c)  BY DEF q
<1>4. /\ u \in Seq(Conversations) /\ Len(u) = Len(q) + 1 /\ u[Len(q) + 1] = c /\ Len(q) \in Nat
      /\ \A k \in 1..Len(q) : u[k] = q[k]
  <2>1. q \in Seq(Conversations) /\ c \in Conversations /\ Len(q) \in Nat  BY <1>2
  <2>2. /\ Append(q, c) \in Seq(Conversations) /\ Len(Append(q, c)) = Len(q) + 1
        /\ Append(q, c)[Len(q) + 1] = c /\ \A k \in 1..Len(q) : Append(q, c)[k] = q[k]
    BY ONLY <2>1, AppendProperties
  <2> QED  BY ONLY <1>3, <2>1, <2>2
<1>5. \A k \in 1..Len(q) : k \in 1..Len(u) /\ k < Len(u) /\ u[k] = q[k]  BY ONLY <1>4
<1>6. Len(u) \in 1..Len(u) /\ u[Len(u)] = c  BY ONLY <1>4
<1>7. ASSUME NEW d \in ToSet(r), d # c  PROVE Earlier(u, d, c)
  <2>1. PICK k \in 1..Len(r) : r[k] = d  BY InSet
  <2>2. r[k] \in S  BY <1>1, <1>7, <2>1
  <2>3. PICK p \in 1..Len(q) : q[p] = r[k]  BY <1>2, <2>2 DEF Thins, Kept
  <2> QED  BY <1>5, <1>6, <2>1, <2>3 DEF Earlier
<1>8. ASSUME NEW d \in Conversations, NEW e \in Conversations, d # c, e # c, Earlier(r, d, e)
      PROVE  Earlier(u, d, e)
  <2>1. PICK k \in 1..Len(r), l \in 1..Len(r) : k < l /\ r[k] = d /\ r[l] = e  BY <1>8 DEF Earlier
  <2>2. r[k] \in S /\ r[l] \in S  BY <1>8, <2>1
  <2>3. PICK p \in 1..Len(q), o \in 1..Len(q) : p < o /\ q[p] = r[k] /\ q[o] = r[l]
    BY <1>2, <2>1, <2>2 DEF Thins, OrderKept
  <2> QED  BY <1>5, <2>1, <2>3 DEF Earlier
<1>9. c \in ToSet(u)  BY ONLY <1>4, <1>6, InSet
<1>10. ToSet(r) \subseteq ToSet(u)
  <2> SUFFICES ASSUME NEW d \in ToSet(r), d # c PROVE d \in ToSet(u)  BY <1>9
  <2>1. PICK k \in 1..Len(u) : u[k] = d  BY <1>7 DEF Earlier
  <2> QED  BY ONLY <1>4, <2>1, InSet
<1> QED  BY <1>4, <1>7, <1>8, <1>9, <1>10 DEF UsedLast

-----------------------------------------------------------------------------
(* The invariant.                                                              *)
Whole(g) ==
  /\ turn[g.turn] # "new"
  /\ turn[g.turn] = "over" \/ filed[g.turn] # << >>
  /\ ToSet(filed[g.turn]) \subseteq ToSet(g.ids)
  /\ \A i \in ToSet(g.ids) : ConversationOf[i] = Of(g.turn)
  /\ Of(g.turn) \in Steady =>
       /\ AnswerIds(Of(g.turn)) \subseteq ToSet(g.ids)
       /\ g.turn = latest[Of(g.turn)] /\ kept[g.turn]

GroupsAreWhole == \A g \in ToSet(memory) : Whole(g)

KeptApart(g, h) == g.turn # h.turn /\ ToSet(g.ids) \cap ToSet(h.ids) = {}
GroupsAreApart == \A m, n \in 1..Len(memory) : m < n => KeptApart(memory[m], memory[n])

TurnIsWhole(t) ==
  /\ turn[t] = "new" => filed[t] = << >> /\ returned[t] = Nothing
  /\ turn[t] # "new" => under[t] \in Ids /\ ToSet(filed[t]) \subseteq IdsOf(Of(t))
  /\ turn[t] = "asked" => returned[t] = Nothing /\ Len(filed[t]) <= 2
  /\ turn[t] = "replied" => returned[t] \in AnswerIds(Of(t))
  /\ turn[t] = "over" => filed[t] = << >>
  /\ filed[t] # << >> =>
       /\ under[t] \in ToSet(filed[t]) /\ Len(filed[t]) \in 1..3
       /\ Of(t) \in Steady => AnswerIds(Of(t)) \subseteq ToSet(filed[t])
TurnsAreWhole == \A t \in Turns : TurnIsWhole(t)

IsKept(t) == \E g \in ToSet(memory) : g.turn = t /\ (turn[t] = "replied" => returned[t] \in ToSet(g.ids))
FiledIsKept ==
  \A t \in Turns :
    turn[t] # "new" /\ filed[t] # << >> /\ kept[t] /\ latest[Of(t)] = t /\ t \notin evicted => IsKept(t)

OwedAreOpen == \A k \in 1..Len(owed) : turn[owed[k]] \in {"asked", "replied"} /\ filed[owed[k]] = << >>
OwedInTurn ==
  \A k, l \in 1..Len(owed) :
    k < l /\ Of(owed[k]) = Of(owed[l]) /\ Of(owed[k]) \notin Steady => turn[owed[k]] # "asked"
HandledIsLatest ==
  \A s \in Turns :
    turn[s] = "asked" /\ filed[s] # << >> /\ Of(s) \notin Steady =>
      latest[Of(s)] = s /\ \A k \in 1..Len(owed) : Of(owed[k]) # Of(s)
OneAtATime ==
  \A s, t \in Turns : s # t /\ turn[s] = "asked" /\ turn[t] = "asked" /\ Of(s) = Of(t) => Of(s) \in Steady
GroupsAreUsed == \A g \in ToSet(memory) : Of(g.turn) \in ToSet(recency)

MemoryInv ==
  /\ MemoryTypeOK /\ GroupsAreWhole /\ GroupsAreApart /\ TurnsAreWhole /\ FiledIsKept
  /\ OwedAreOpen /\ OwedInTurn /\ HandledIsLatest /\ OneAtATime /\ GroupsAreUsed /\ LeastRecentGoes

LEMMA AnswersExist ==
  ASSUME NEW c, NEW i \in Ids, ConversationOf[i] = c
  PROVE  AnswerIds(c) # {} /\ AnswerIds(c) \subseteq IdsOf(c)
BY DEF AnswerIds, IdsOf

(* What the type says of one group, and of two.                                *)
LEMMA OneGroup ==
  ASSUME MemoryTypeOK, GroupsAreWhole, NEW g \in ToSet(memory)
  PROVE  /\ g \in Group /\ g.turn \in Turns /\ g.ids \in Seq(Ids) /\ ToSet(g.ids) # {}
         /\ ToSet(g.ids) \subseteq Ids /\ Whole(g)
<1>1. PICK n \in 1..Len(memory) : memory[n] = g  BY InSet DEF MemoryTypeOK
<1>2. g \in Group /\ Len(g.ids) \in 1..MaxAliases  BY <1>1 DEF MemoryTypeOK
<1>3. g.ids \in Seq(Ids) /\ g.turn \in Turns  BY <1>2 DEF Group
<1>4. 1 \in 1..Len(g.ids)  BY <1>2, MemoryShape
<1>5. g.ids[1] \in ToSet(g.ids)  BY <1>3, <1>4, InSet
<1>6. ToSet(g.ids) \subseteq Ids  BY <1>3, InSet
<1> QED  BY <1>2, <1>3, <1>5, <1>6 DEF GroupsAreWhole

LEMMA TwoGroups ==
  ASSUME MemoryTypeOK, GroupsAreApart, NEW g \in ToSet(memory), NEW h \in ToSet(memory), g # h
  PROVE  KeptApart(g, h)
<1>1. PICK m \in 1..Len(memory) : memory[m] = g  BY InSet DEF MemoryTypeOK
<1>2. PICK n \in 1..Len(memory) : memory[n] = h  BY InSet DEF MemoryTypeOK
<1>3. m < n \/ n < m  BY <1>1, <1>2
<1>4. KeptApart(g, h) \/ KeptApart(h, g)  BY <1>1, <1>2, <1>3 DEF GroupsAreApart
<1> QED  BY <1>4 DEF KeptApart

(* A steady conversation has one group, for all reach the id the hub answers   *)
(* under.                                                                      *)
LEMMA OneSteadyGroup ==
  ASSUME MemoryTypeOK, GroupsAreWhole, NEW g \in ToSet(memory), NEW ids,
         Of(g.turn) \in Steady, AnswerIds(Of(g.turn)) \subseteq ToSet(ids)
  PROVE  ~Free(g, ids)
<1>1. ToSet(g.ids) # {} /\ ToSet(g.ids) \subseteq Ids /\ Whole(g)  BY OneGroup
<1>2. PICK i \in Ids : i \in ToSet(g.ids)  BY <1>1
<1>3. ConversationOf[i] = Of(g.turn) /\ AnswerIds(Of(g.turn)) \subseteq ToSet(g.ids)
  BY <1>1, <1>2 DEF Whole
<1>4. AnswerIds(Of(g.turn)) # {}  BY <1>3, AnswersExist
<1> QED  BY <1>3, <1>4 DEF Free

THEOREM TrueByInvariant == MemoryInv => MemoryIsTrue
<1> SUFFICES ASSUME MemoryInv PROVE MemoryIsTrue  OBVIOUS
<1> USE DEF MemoryInv
<1>1. memory \in Seq(Group)  BY DEF MemoryTypeOK
<1>2. NeverStale
  <2> SUFFICES ASSUME NEW n \in 1..Len(memory)
               PROVE  LET C == {ConversationOf[i] : i \in ToSet(memory[n].ids)} IN
                      \E c \in C : /\ C = {c} /\ Of(memory[n].turn) = c
                                   /\ c \in Steady => memory[n].turn = latest[c] /\ kept[latest[c]]
    BY DEF NeverStale
  <2> DEFINE g == memory[n]
             C == {ConversationOf[i] : i \in ToSet(g.ids)}
  <2>1. g \in ToSet(memory)  BY <1>1, InSet
  <2>2. ToSet(g.ids) # {} /\ Whole(g)  BY <2>1, OneGroup
  <2>3. PICK i : i \in ToSet(g.ids)  BY <2>2
  <2>4. \A j \in ToSet(g.ids) : ConversationOf[j] = Of(g.turn)  BY <2>2 DEF Whole
  <2>5. C = {Of(g.turn)}  BY <2>3, <2>4
  <2>6. Of(g.turn) \in Steady => g.turn = latest[Of(g.turn)] /\ kept[g.turn]  BY <2>2 DEF Whole
  <2> QED  BY <2>5, <2>6
<1>3. ReturnedIdReaches
  <2> SUFFICES ASSUME NEW t \in Turns,
                      turn[t] = "replied", filed[t] # << >>, kept[t], latest[Of(t)] = t, t \notin evicted
               PROVE  Lookup(memory, returned[t]) = t /\ Lookup(memory, under[t]) = t
    BY DEF ReturnedIdReaches
  <2>1. IsKept(t)  BY DEF FiledIsKept
  <2>2. PICK g \in ToSet(memory) : g.turn = t /\ returned[t] \in ToSet(g.ids)  BY <2>1 DEF IsKept
  <2>3. Whole(g)  BY OneGroup
  <2>4. under[t] \in ToSet(g.ids)  BY <2>2, <2>3 DEF Whole, TurnsAreWhole, TurnIsWhole
  <2>5. ASSUME NEW i \in ToSet(g.ids)  PROVE Lookup(memory, i) = t
    <3>1. g \in Reached(memory, {i})  BY <2>5 DEF Reached
    <3>2. Reached(memory, {i}) # {}  BY <3>1
    <3>3. Holder(memory, i) \in ToSet(memory) /\ i \in ToSet(Holder(memory, i).ids)
      BY <1>1, <3>2, HolderIs
    <3>4. Holder(memory, i) = g  BY <2>5, <3>3, TwoGroups DEF KeptApart
    <3> QED  BY <2>2, <3>2, <3>4 DEF Lookup
  <2> QED  BY <2>2, <2>4, <2>5
<1> QED  BY <1>2, <1>3 DEF MemoryIsTrue

LEMMA MemoryBegins == MemoryInit => MemoryInv
<1> SUFFICES ASSUME MemoryInit PROVE MemoryInv  OBVIOUS
<1> USE DEF MemoryInit
<1>1. ToSet(<< >>) = {} /\ Len(<< >>) = 0 /\ \A X : << >> \in Seq(X)  BY DEF ToSet
<1>2. MaxRemembered \in Nat /\ Nothing \notin Ids  BY MemoryShape
<1>3. MemoryTypeOK
  <2>1. memory \in Seq(Group) /\ owed \in Seq(Turns) /\ recency \in Seq(Conversations)
        /\ Len(memory) <= MaxRemembered /\ \A n \in 1..Len(memory) : Len(memory[n].ids) \in 1..MaxAliases
    BY <1>1, <1>2
  <2>2. filed \in [Turns -> Seq(Ids)] /\ turn \in [Turns -> {"new", "asked", "replied", "over"}]
        /\ kept \in [Turns -> BOOLEAN]
    BY <1>1
  <2> QED  BY <2>1, <2>2 DEF MemoryTypeOK
<1>4. TurnsAreWhole  BY <1>1 DEF TurnsAreWhole, TurnIsWhole
<1>5. LeastRecentGoes  BY <1>1 DEF LeastRecentGoes
<1>6. GroupsAreWhole /\ GroupsAreApart /\ GroupsAreUsed  BY <1>1 DEF GroupsAreWhole, GroupsAreApart, GroupsAreUsed
<1>7. FiledIsKept /\ OwedAreOpen /\ OwedInTurn /\ HandledIsLatest /\ OneAtATime
  BY <1>1 DEF FiledIsKept, OwedAreOpen, OwedInTurn, HandledIsLatest, OneAtATime
<1> QED  BY <1>3, <1>4, <1>5, <1>6, <1>7 DEF MemoryInv

(* What filing a turn's state does to the memory, the keys being of its        *)
(* conversation, and reaching what the turn left before.                       *)
KeysOf(t, keys) ==
  /\ keys \in Seq(Ids) /\ Len(keys) \in 1..3 /\ ToSet(keys) \subseteq IdsOf(Of(t))
  /\ Of(t) \in Steady => AnswerIds(Of(t)) \subseteq ToSet(keys)
  /\ \A h \in ToSet(memory) : h.turn = t => ~Free(h, keys)

LEMMA FiledGroups ==
  ASSUME MemoryInv, NEW t \in Turns, under[t] \in Ids, NEW keys, KeysOf(t, keys),
         NEW carries \in BOOLEAN, File(t, keys, carries)
  PROVE  LET g == NewGroup(memory, keys, t) IN
         /\ Files(memory', memory, keys, g, carries)
         /\ g \in Group /\ g.turn = t /\ Len(g.ids) \in 1..MaxAliases /\ ToSet(keys) \subseteq ToSet(g.ids)
         /\ \A i \in ToSet(g.ids) : ConversationOf[i] = Of(t)
         /\ \A h \in ToSet(memory) : Free(h, keys) => KeptApart(h, g)
         /\ \A h \in ToSet(memory) : Free(h, keys) /\ Of(h.turn) \in Steady => Of(h.turn) # Of(t)
<1> USE DEF MemoryInv, KeysOf
<1> DEFINE g == NewGroup(memory, keys, t)
<1>1. memory \in Seq(Group)  BY DEF MemoryTypeOK
<1>2. Files(memory', memory, keys, g, carries)
  <2>1. memory' = Remembered(memory, keys, t, carries)  BY DEF File
  <2> HIDE DEF g
  <2>2. keys \in Seq(Ids) /\ Len(keys) \in 1..3  OBVIOUS
  <2>3. Files(Remembered(memory, keys, t, carries), memory, keys, NewGroup(memory, keys, t), carries)
    BY ONLY <1>1, <2>2, t \in Turns, carries \in BOOLEAN, RememberedFiles
  <2> QED  BY <2>1, <2>3 DEF g
<1>3. /\ g \in Group /\ g.turn = t /\ Len(g.ids) \in 1..MaxAliases
      /\ ToSet(keys) \subseteq ToSet(g.ids)
      /\ \A i \in ToSet(g.ids) :
           i \in ToSet(keys) \/ \E h \in Reached(memory, ToSet(keys)) : i \in ToSet(h.ids)
  BY <1>1, NewGroupIs
<1> HIDE DEF g
<1>4. \A i \in ToSet(keys) : i \in Ids /\ ConversationOf[i] = Of(t)  BY DEF IdsOf
<1>5. ASSUME NEW i \in ToSet(g.ids)  PROVE ConversationOf[i] = Of(t)
  <2>1. CASE i \in ToSet(keys)  BY <1>4, <2>1
  <2>2. CASE \E h \in Reached(memory, ToSet(keys)) : i \in ToSet(h.ids)
    <3>1. PICK h \in ToSet(memory), j \in ToSet(keys) : i \in ToSet(h.ids) /\ j \in ToSet(h.ids)
      BY <2>2 DEF Reached
    <3>2. Whole(h)  BY <3>1, OneGroup
    <3>3. ConversationOf[i] = Of(h.turn) /\ ConversationOf[j] = Of(h.turn)  BY <3>1, <3>2 DEF Whole
    <3> QED  BY <1>4, <3>1, <3>3
  <2> QED  BY <1>3, <2>1, <2>2
<1>6. ASSUME NEW h \in ToSet(memory), Free(h, keys)  PROVE KeptApart(h, g)
  <2>1. h.turn # g.turn  BY <1>3, <1>6
  <2>2. ASSUME NEW i, i \in ToSet(h.ids), i \in ToSet(g.ids)  PROVE FALSE
    <3>1. i \notin ToSet(keys)  BY <1>6, <2>2 DEF Free
    <3>2. PICK f \in Reached(memory, ToSet(keys)) : i \in ToSet(f.ids)  BY <1>3, <2>2, <3>1
    <3>3. f \in ToSet(memory) /\ f # h  BY <1>6, <3>2 DEF Reached, Free
    <3>4. KeptApart(f, h)  BY <3>3, TwoGroups
    <3> QED  BY <2>2, <3>2, <3>4 DEF KeptApart
  <2> QED  BY <2>1, <2>2 DEF KeptApart
<1>7. ASSUME NEW h \in ToSet(memory), Free(h, keys), Of(h.turn) \in Steady  PROVE Of(h.turn) # Of(t)
  <2> SUFFICES ASSUME Of(h.turn) = Of(t) PROVE FALSE  OBVIOUS
  <2>1. AnswerIds(Of(h.turn)) \subseteq ToSet(keys)  BY <1>7
  <2> QED  BY <1>7, <2>1, OneSteadyGroup
<1> QED  BY <1>2, <1>3, <1>5, <1>6, <1>7 DEF g

LEMMA FiledKeeps ==
  ASSUME MemoryInv, NEW t \in Turns, under[t] \in Ids, NEW keys, KeysOf(t, keys),
         NEW carries \in BOOLEAN, File(t, keys, carries), UNCHANGED under
  PROVE  /\ memory' \in Seq(Group) /\ Len(memory') <= MaxRemembered
         /\ \A n \in 1..Len(memory') : Len(memory'[n].ids) \in 1..MaxAliases
         /\ recency' \in Seq(Conversations) /\ evicted' \subseteq Turns
         /\ \A h \in ToSet(memory') :
              \/ h \in ToSet(memory) /\ Free(h, keys)
              \/ carries /\ h = NewGroup(memory, keys, t)
         /\ carries => NewGroup(memory, keys, t) \in ToSet(memory')
         /\ GroupsAreApart' /\ GroupsAreUsed' /\ LeastRecentGoes'
         /\ \A h \in ToSet(memory) :
              Of(h.turn) # Of(t) /\ h.turn \notin evicted' => h \in ToSet(memory') /\ h.turn \notin evicted
<1> USE DEF MemoryInv
<1> DEFINE g == NewGroup(memory, keys, t)
           c == Of(t)
<1>1. memory \in Seq(Group) /\ Len(memory) <= MaxRemembered /\ recency \in Seq(Conversations)
      /\ evicted \subseteq Turns /\ c \in Conversations
  BY MemoryShape DEF MemoryTypeOK, Of
<1>2. /\ Files(memory', memory, keys, g, carries)
      /\ g \in Group /\ g.turn = t /\ Len(g.ids) \in 1..MaxAliases /\ ToSet(keys) \subseteq ToSet(g.ids)
      /\ \A i \in ToSet(g.ids) : ConversationOf[i] = c
      /\ \A h \in ToSet(memory) : Free(h, keys) => KeptApart(h, g)
      /\ \A h \in ToSet(memory) : Free(h, keys) /\ Of(h.turn) \in Steady => Of(h.turn) # c
  BY FiledGroups
<1>3. \A s : Of(s)' = Of(s)  BY DEF Of
<1>4. recency' = Append(Only(recency, Conversations \ {c}), c)  BY DEF File, UsedNow
<1>5. /\ recency' \in Seq(Conversations) /\ c \in ToSet(recency') /\ ToSet(recency) \subseteq ToSet(recency')
      /\ \A d \in ToSet(recency) : d # c => Earlier(recency', d, c)
      /\ \A d, e \in Conversations : d # c /\ e # c /\ Earlier(recency, d, e) => Earlier(recency', d, e)
  <2> HIDE DEF c
  <2>1. UsedLast(recency, recency', c)  BY ONLY <1>1, <1>4, UsedIs
  <2> QED  BY <2>1 DEF UsedLast
<1>6. evicted' = (evicted \ {t}) \cup (TurnsOf(Others(memory, keys)) \ TurnsOf(memory'))
  BY DEF File
<1> HIDE DEF g, c
<1>7. memory' \in Seq(Group) /\ Len(memory') <= MaxRemembered  BY <1>1, <1>2 DEF Files
<1>8. \A n \in 1..Len(memory') : Made(memory', n, g, carries) \/ Left(memory', n, memory, keys)
  BY <1>2 DEF Files
<1>9. \A h \in ToSet(memory') :
        (h \in ToSet(memory) /\ Free(h, keys)) \/ (carries /\ h = g)
  <2> SUFFICES ASSUME NEW h \in ToSet(memory')
               PROVE  (h \in ToSet(memory) /\ Free(h, keys)) \/ (carries /\ h = g)
    OBVIOUS
  <2>1. PICK n \in 1..Len(memory') : memory'[n] = h  BY <1>7, InSet
  <2> QED  BY <1>8, <2>1 DEF Made, Left
<1>10. \A n \in 1..Len(memory') : Len(memory'[n].ids) \in 1..MaxAliases
  <2> SUFFICES ASSUME NEW n \in 1..Len(memory') PROVE Len(memory'[n].ids) \in 1..MaxAliases
    OBVIOUS
  <2>1. CASE Made(memory', n, g, carries)  BY <1>2, <2>1 DEF Made
  <2>2. CASE Left(memory', n, memory, keys)
    <3>1. PICK k \in 1..Len(memory) : memory[k] = memory'[n]  BY <1>1, <2>2, InSet DEF Left
    <3> QED  BY <3>1 DEF MemoryTypeOK
  <2> QED  BY <1>8, <2>1, <2>2
<1>11. /\ Others(memory, keys) \in Seq(Group)
       /\ \A h \in ToSet(memory) : Free(h, keys) => h \in ToSet(Others(memory, keys))
       /\ \A h \in ToSet(Others(memory, keys)) : h \in ToSet(memory)
  <2>1. /\ Others(memory, keys) \in Seq(Group)
        /\ \A p \in 1..Len(Others(memory, keys)) : Others(memory, keys)[p] \in ToSet(memory)
        /\ \A h \in ToSet(memory) : Free(h, keys) => h \in ToSet(Others(memory, keys))
    BY <1>1, OthersAre
  <2>2. ASSUME NEW h \in ToSet(Others(memory, keys))  PROVE h \in ToSet(memory)
    <3>1. PICK p \in 1..Len(Others(memory, keys)) : Others(memory, keys)[p] = h  BY <2>1, InSet
    <3> QED  BY <2>1, <3>1
  <2> QED  BY <2>1, <2>2
<1>12. evicted' \subseteq Turns
  <2>1. \A h \in ToSet(memory) : h.turn \in Turns  BY OneGroup
  <2>2. TurnsOf(Others(memory, keys)) \subseteq Turns  BY <1>11, <2>1 DEF TurnsOf
  <2> QED  BY <1>1, <1>6, <2>2
<1>13. GroupsAreApart'
  <2> SUFFICES ASSUME NEW m \in 1..Len(memory'), NEW n \in 1..Len(memory'), m < n
               PROVE  KeptApart(memory'[m], memory'[n])
    BY DEF GroupsAreApart, KeptApart
  <2>1. Left(memory', m, memory, keys)
        /\ (Made(memory', n, g, carries) \/ AsBefore(memory', memory, m, n))
    BY <1>2 DEF Files
  <2>2. CASE Made(memory', n, g, carries)  BY <1>2, <2>1, <2>2 DEF Left, Made
  <2>3. CASE AsBefore(memory', memory, m, n)  BY <2>3 DEF AsBefore, GroupsAreApart
  <2> QED  BY <2>1, <2>2, <2>3
<1>14. GroupsAreUsed'
  <2> SUFFICES ASSUME NEW h \in ToSet(memory') PROVE Of(h.turn) \in ToSet(recency')
    BY <1>3 DEF GroupsAreUsed
  <2>1. CASE h = g  BY <1>2, <1>5, <2>1 DEF c
  <2>2. CASE h \in ToSet(memory)  BY <1>5, <2>2 DEF GroupsAreUsed
  <2> QED  BY <1>9, <2>1, <2>2
<1>15. LeastRecentGoes'
  <2> SUFFICES ASSUME NEW m \in 1..Len(memory'), NEW n \in 1..Len(memory'), m < n,
                      Of(memory'[m].turn) \in Steady, Of(memory'[n].turn) \in Steady
               PROVE  Earlier(recency', Of(memory'[m].turn), Of(memory'[n].turn))
    BY <1>3 DEF LeastRecentGoes, Earlier
  <2>1. Left(memory', m, memory, keys)
        /\ (Made(memory', n, g, carries) \/ AsBefore(memory', memory, m, n))
    BY <1>2 DEF Files
  <2>2. memory'[m] \in ToSet(memory) /\ Of(memory'[m].turn) # c  BY <1>2, <2>1 DEF Left
  <2>3. CASE Made(memory', n, g, carries)
    <3>1. Of(memory'[n].turn) = c  BY <1>2, <2>3 DEF Made, c
    <3>2. Of(memory'[m].turn) \in ToSet(recency)  BY <2>2 DEF GroupsAreUsed
    <3> QED  BY <1>5, <2>2, <3>1, <3>2
  <2>4. CASE Left(memory', n, memory, keys) /\ AsBefore(memory', memory, m, n)
    <3>1. Of(memory'[n].turn) # c  BY <1>2, <2>4 DEF Left
    <3>2. PICK k \in 1..Len(memory), l \in 1..Len(memory) :
            k < l /\ memory'[m] = memory[k] /\ memory'[n] = memory[l]
      BY <2>4 DEF AsBefore
    <3>3. Earlier(recency, Of(memory[k].turn), Of(memory[l].turn))
      BY <3>2 DEF LeastRecentGoes, Earlier
    <3>4. Of(memory[k].turn) \in ToSet(recency) /\ Of(memory[l].turn) \in ToSet(recency)
      BY <1>1, InSet DEF GroupsAreUsed
    <3>5. ToSet(recency) \subseteq Conversations  BY <1>1, InSet
    <3> QED  BY <1>5, <2>2, <3>1, <3>2, <3>3, <3>4, <3>5
  <2> QED  BY <1>8, <2>1, <2>3, <2>4
<1>16. ASSUME NEW h \in ToSet(memory), Of(h.turn) # c, h.turn \notin evicted'
       PROVE  h \in ToSet(memory') /\ h.turn \notin evicted
  <2>1. h.turn # t  BY <1>16 DEF c
  <2>2. Whole(h) /\ ToSet(h.ids) # {}  BY OneGroup
  <2>3. Free(h, keys)
    <3>1. \A i \in ToSet(h.ids) : ConversationOf[i] = Of(h.turn)  BY <2>2 DEF Whole
    <3>2. \A i \in ToSet(keys) : ConversationOf[i] = c  BY <1>2
    <3> QED  BY <1>16, <3>1, <3>2 DEF Free
  <2>4. h.turn \in TurnsOf(Others(memory, keys))  BY <1>11, <2>3 DEF TurnsOf
  <2>5. h.turn \in TurnsOf(memory') /\ h.turn \notin evicted  BY <1>6, <1>16, <2>1, <2>4
  <2>6. PICK f \in ToSet(memory') : f.turn = h.turn  BY <2>5 DEF TurnsOf
  <2>7. f \in ToSet(memory)  BY <1>2, <1>9, <2>1, <2>6
  <2>8. f = h  BY <2>6, <2>7, TwoGroups DEF KeptApart
  <2> QED  BY <2>5, <2>6, <2>8
<1>17. carries => g \in ToSet(memory')  BY <1>2 DEF Files
<1> QED  BY <1>5, <1>7, <1>9, <1>10, <1>12, <1>13, <1>14, <1>15, <1>16, <1>17 DEF g, c

Follows(r, X, s, q) == r \in Seq(X) /\ Len(r) = Len(s) + Len(q) /\ ToSet(r) = ToSet(s) \cup ToSet(q)

LEMMA InConcat ==
  ASSUME NEW X, NEW s \in Seq(X), NEW q \in Seq(X)
  PROVE  Follows(s \o q, X, s, q)
<1> DEFINE r == s \o q
<1>1. /\ r \in Seq(X) /\ Len(r) = Len(s) + Len(q)
      /\ \A n \in 1..Len(r) : r[n] = IF n <= Len(s) THEN s[n] ELSE q[n - Len(s)]
  BY ConcatProperties
<1> HIDE DEF r
<1>2. Len(s) \in Nat /\ Len(q) \in Nat  OBVIOUS
<1>3. ASSUME NEW x \in ToSet(r)  PROVE x \in ToSet(s) \cup ToSet(q)
  <2>1. PICK n \in 1..Len(r) : r[n] = x  BY <1>1, InSet
  <2>2. CASE n <= Len(s)
    <3>1. n \in 1..Len(s) /\ s[n] = x  BY <1>1, <1>2, <2>1, <2>2
    <3> QED  BY <3>1, InSet
  <2>3. CASE ~(n <= Len(s))
    <3>1. n - Len(s) \in 1..Len(q) /\ q[n - Len(s)] = x  BY <1>1, <1>2, <2>1, <2>3
    <3> QED  BY <3>1, InSet
  <2> QED  BY <2>2, <2>3
<1>4. ASSUME NEW x \in ToSet(s)  PROVE x \in ToSet(r)
  <2>1. PICK n \in 1..Len(s) : s[n] = x  BY InSet
  <2>2. n \in 1..Len(r) /\ r[n] = x  BY <1>1, <1>2, <2>1
  <2> QED  BY <1>1, <2>2, InSet
<1>5. ASSUME NEW x \in ToSet(q)  PROVE x \in ToSet(r)
  <2>1. PICK n \in 1..Len(q) : q[n] = x  BY InSet
  <2>2. n + Len(s) \in 1..Len(r) /\ ~(n + Len(s) <= Len(s)) /\ (n + Len(s)) - Len(s) = n
    BY <1>1, <1>2, <2>1
  <2>3. r[n + Len(s)] = x  BY <1>1, <2>1, <2>2
  <2> QED  BY <1>1, <2>2, <2>3, InSet
<1>6. Follows(r, X, s, q)  BY <1>1, <1>3, <1>4, <1>5 DEF Follows
<1> QED  BY <1>6 DEF r

(* The keys of a handled frame.                                                *)
LEMMA HandledKeys ==
  ASSUME MemoryInv, NEW t \in Turns, turn[t] \in {"asked", "replied"}, filed[t] = << >>,
         NEW answered \in {<< >>} \cup {<<i>> : i \in AnswerIds(Of(t))},
         Of(t) \in Steady => answered # << >>,
         NEW keys, keys = Once(<<under[t]>> \o answered
                               \o IF returned[t] = Nothing THEN << >> ELSE <<returned[t]>>)
  PROVE  /\ KeysOf(t, keys) /\ under[t] \in ToSet(keys) /\ keys # << >>
         /\ turn[t] = "asked" => Len(keys) <= 2
         /\ turn[t] = "replied" => returned[t] \in ToSet(keys)
<1> USE DEF MemoryInv
<1> DEFINE back == IF returned[t] = Nothing THEN << >> ELSE <<returned[t]>>
           first == <<under[t]>>
           A == AnswerIds(Of(t))
<1>1. /\ under[t] \in Ids
      /\ turn[t] = "asked" => returned[t] = Nothing
      /\ turn[t] = "replied" => returned[t] \in A
  BY DEF TurnsAreWhole, TurnIsWhole
<1>2. A \subseteq IdsOf(Of(t)) /\ A \subseteq Ids /\ under[t] \in IdsOf(Of(t))
  BY <1>1 DEF AnswerIds, IdsOf, Of
<1>3. /\ first \in Seq(Ids) /\ Len(first) = 1 /\ ToSet(first) = {under[t]}
  BY <1>1 DEF ToSet
<1>4. /\ back \in Seq(Ids) /\ Len(back) \in 0..1 /\ ToSet(back) \subseteq A
      /\ turn[t] = "asked" => Len(back) = 0
      /\ turn[t] = "replied" => returned[t] \in ToSet(back)
  <2>1. CASE turn[t] = "asked"
    <3>1. back = << >>  BY <1>1, <2>1
    <3> QED  BY <2>1, <3>1 DEF ToSet
  <2>2. CASE turn[t] = "replied"
    <3>1. returned[t] \in A /\ returned[t] # Nothing  BY <1>1, <1>2, <2>2, MemoryShape
    <3>2. back = <<returned[t]>>  BY <3>1
    <3>3. returned[t] \in Ids  BY <1>2, <3>1
    <3> HIDE DEF back, A
    <3> QED  BY <2>2, <3>1, <3>2, <3>3 DEF ToSet
  <2> QED  BY <2>1, <2>2
<1>5. /\ answered \in Seq(Ids) /\ Len(answered) \in 0..1 /\ ToSet(answered) \subseteq A
      /\ Of(t) \in Steady => A \subseteq ToSet(answered)
  <2>1. CASE answered = << >>  BY <2>1 DEF ToSet
  <2>2. ASSUME NEW i \in A, answered = <<i>>
        PROVE  /\ answered \in Seq(Ids) /\ Len(answered) \in 0..1 /\ ToSet(answered) = {i}
               /\ Of(t) \in Steady => A = {i}
    <3>1. i \in Ids  BY <1>2
    <3>2. Of(t) \in Steady => A = {i}  BY SteadyShape
    <3> HIDE DEF A
    <3> QED  BY <2>2, <3>1, <3>2 DEF ToSet
  <2>3. answered = << >> \/ \E i \in A : answered = <<i>>  OBVIOUS
  <2> HIDE DEF A
  <2>4. ASSUME NEW i \in A, answered = <<i>>
        PROVE  /\ answered \in Seq(Ids) /\ Len(answered) \in 0..1 /\ ToSet(answered) \subseteq A
               /\ Of(t) \in Steady => A \subseteq ToSet(answered)
    BY <2>2, <2>4
  <2> QED  BY <2>1, <2>3, <2>4
<1> HIDE DEF back, first, A
<1> DEFINE most == first \o answered
           ids == most \o back
<1>6. Follows(most, Ids, first, answered)  BY <1>3, <1>5, InConcat
<1> HIDE DEF most
<1>7. Follows(ids, Ids, most, back)
  <2>1. most \in Seq(Ids)  BY <1>6 DEF Follows
  <2>2. back \in Seq(Ids)  BY <1>4
  <2> QED  BY <2>1, <2>2, InConcat
<1>8. keys = Once(ids)  BY DEF most, first, back
<1> HIDE DEF ids
<1>9. Len(ids) \in 1..3 /\ (turn[t] = "asked" => Len(ids) \in 1..2)
  <2>1. Len(ids) = (1 + Len(answered)) + Len(back)  BY <1>3, <1>6, <1>7 DEF Follows
  <2>2. Len(answered) = 0 \/ Len(answered) = 1  BY ONLY <1>5
  <2>3. (Len(back) = 0 \/ Len(back) = 1) /\ (turn[t] = "asked" => Len(back) = 0)  BY ONLY <1>4
  <2>4. CASE Len(answered) = 0 /\ Len(back) = 0
    <3>1. Len(ids) = 1  BY <2>1, <2>4
    <3> QED  BY <3>1
  <2>5. CASE (Len(answered) = 0 /\ Len(back) = 1) \/ (Len(answered) = 1 /\ Len(back) = 0)
    <3>1. Len(ids) = 2
      <4>1. CASE Len(answered) = 0 /\ Len(back) = 1  BY <2>1, <4>1
      <4>2. CASE Len(answered) = 1 /\ Len(back) = 0  BY <2>1, <4>2
      <4> QED  BY <2>5, <4>1, <4>2
    <3> QED  BY <3>1
  <2>6. CASE Len(answered) = 1 /\ Len(back) = 1
    <3>1. Len(ids) = 3 /\ turn[t] # "asked"  BY <2>1, <2>3, <2>6
    <3> QED  BY <3>1
  <2> QED  BY <2>2, <2>3, <2>4, <2>5, <2>6
<1>10. Once(ids) \in Seq(Ids) /\ Len(Once(ids)) <= Len(ids) /\ ToSet(Once(ids)) = ToSet(ids)
  BY <1>7, NamesAre DEF MemoryTypeOK, Follows
<1>11. /\ keys \in Seq(Ids) /\ Len(keys) <= Len(ids)
       /\ ToSet(keys) = {under[t]} \cup ToSet(answered) \cup ToSet(back)
  BY <1>3, <1>6, <1>7, <1>8, <1>10 DEF Follows
<1>12. keys # << >> /\ Len(keys) \in Nat \ {0}
  <2>1. under[t] \in ToSet(keys)  BY <1>11
  <2>2. PICK k \in 1..Len(keys) : keys[k] = under[t]  BY <1>11, <2>1, InSet
  <2> QED  BY <1>11, <2>2
<1>13. Len(keys) \in 1..3 /\ (turn[t] = "asked" => Len(keys) <= 2)
  <2>1. PICK n \in 1..3 : n = Len(ids) /\ (turn[t] = "asked" => n \in 1..2)  BY <1>9
  <2>2. PICK m \in Nat \ {0} : m = Len(keys) /\ m <= n  BY <1>11, <1>12, <2>1
  <2>3. m \in 1..3 /\ (turn[t] = "asked" => m <= 2)  BY ONLY <2>1, <2>2
  <2> QED  BY <2>2, <2>3
<1>14. \A h \in ToSet(memory) : h.turn # t
  <2> SUFFICES ASSUME NEW h \in ToSet(memory) PROVE h.turn # t  OBVIOUS
  <2>1. Whole(h)  BY OneGroup
  <2> QED  BY <2>1 DEF Whole
<1>15. KeysOf(t, keys)
  <2>1. Len(keys) \in 1..3  BY <1>13
  <2>2. ToSet(keys) \subseteq IdsOf(Of(t))  BY <1>2, <1>4, <1>5, <1>11
  <2>3. Of(t) \in Steady => AnswerIds(Of(t)) \subseteq ToSet(keys)  BY <1>5, <1>11 DEF A
  <2> QED  BY <1>11, <1>14, <2>1, <2>2, <2>3 DEF KeysOf
<1> QED  BY <1>4, <1>11, <1>12, <1>15, <1>13

\* The conversation of a turn after a step.
After(s) == ConversationOf[under'[s]]

LEMMA AskKeeps ==
  ASSUME MemoryInv, NEW t \in Turns, NEW i \in Ids, Ask(t, i)
  PROVE  MemoryInv'
<1> USE DEF MemoryInv
<1> DEFINE c == ConversationOf[i]
<1>1. /\ memory \in Seq(Group) /\ recency \in Seq(Conversations) /\ owed \in Seq(Turns)
      /\ c \in Conversations /\ turn[t] = "new"
  BY MemoryShape DEF MemoryTypeOK, Ask
<1>2. /\ \A s \in Turns : s # t => turn'[s] = turn[s] /\ under'[s] = under[s] /\ Of(s)' = Of(s)
      /\ turn'[t] = "asked" /\ under'[t] = i /\ Of(t)' = c
      /\ UNCHANGED <<filed, kept, returned, latest, evicted>>
  BY DEF Ask, MemoryTypeOK, Of
<1>3. After(t) = c /\ \A s \in Turns : s # t => After(s) = Of(s)
  BY <1>2 DEF After, Of
<1>4. Renews(memory', memory, i)
  <2>1. memory' = Renewed(memory, i)  BY DEF Ask
  <2>2. Renews(Renewed(memory, i), memory, i)  BY <1>1, RenewedRenews
  <2> QED  BY <2>1, <2>2
<1>5. memory' \in Seq(Group) /\ Len(memory') = Len(memory) /\ ToSet(memory') = ToSet(memory)
  BY <1>4 DEF Renews
<1>6. ASSUME NEW g \in ToSet(memory)
      PROVE  g.turn \in Turns /\ g.turn # t /\ Whole(g) /\ Of(g.turn)' = Of(g.turn)
             /\ Of(g.turn) \in Conversations
  <2>1. Whole(g) /\ g.turn \in Turns  BY OneGroup
  <2>2. g.turn # t  BY <1>1, <2>1 DEF Whole
  <2>3. Of(g.turn) \in Conversations
    <3>1. Of(g.turn) \in ToSet(recency)  BY DEF GroupsAreUsed
    <3> QED  BY <1>1, <3>1, InSet
  <2> QED  BY <1>2, <2>1, <2>2, <2>3
<1>7. /\ owed' \in Seq(Turns) /\ Len(owed') = Len(owed) + 1 /\ owed'[Len(owed) + 1] = t
      /\ \A k \in 1..Len(owed) : owed'[k] = owed[k]
  BY <1>1, AppendProperties DEF Ask
<1>8. \A k \in 1..Len(owed') : (k \in 1..Len(owed) /\ owed'[k] = owed[k]) \/ (k = Len(owed) + 1 /\ owed'[k] = t)
  BY <1>1, <1>7
<1>9. \A k \in 1..Len(owed) : owed[k] \in Turns /\ owed[k] # t
  BY <1>1 DEF OwedAreOpen
<1>10. \/ UNCHANGED recency /\ Reached(memory, {i}) = {}
       \/ UsedLast(recency, recency', c) /\ Reached(memory, {i}) # {}
  <2>1. CASE Lookup(memory, i) = Nothing
    <3>1. UNCHANGED recency  BY <2>1 DEF Ask
    <3>2. ASSUME Reached(memory, {i}) # {}  PROVE FALSE
      <4>1. Holder(memory, i) \in ToSet(memory)  BY <1>1, <3>2, HolderIs
      <4>2. Holder(memory, i).turn \in Turns  BY <1>6, <4>1
      <4> QED  BY <2>1, <3>2, <4>2, MemoryShape DEF Lookup
    <3> QED  BY <3>1, <3>2
  <2>2. CASE Lookup(memory, i) # Nothing
    <3>1. recency' = Append(Only(recency, Conversations \ {c}), c)  BY <2>2 DEF Ask, UsedNow
    <3>2. UsedLast(recency, recency', c)
      <4> HIDE DEF c
      <4> QED  BY ONLY <1>1, <3>1, UsedIs
    <3>3. Reached(memory, {i}) # {}  BY <2>2 DEF Lookup
    <3> QED  BY <3>2, <3>3
  <2> QED  BY <2>1, <2>2
<1>11. recency' \in Seq(Conversations) /\ ToSet(recency) \subseteq ToSet(recency')
  BY <1>1, <1>10 DEF UsedLast
<1> HIDE DEF c
<1>12. MemoryTypeOK'
  <2>1. turn' \in [Turns -> {"new", "asked", "replied", "over"}] /\ under' \in [Turns -> Ids \cup {Nothing}]
    BY DEF Ask, MemoryTypeOK
  <2>2. ASSUME NEW n \in 1..Len(memory')  PROVE Len(memory'[n].ids) \in 1..MaxAliases
    <3>1. memory'[n] \in ToSet(memory)  BY <1>5, InSet
    <3>2. PICK m \in 1..Len(memory) : memory[m] = memory'[n]  BY <1>1, <3>1, InSet
    <3> QED  BY <3>2 DEF MemoryTypeOK
  <2>3. memory' \in Seq(Group) /\ Len(memory') <= MaxRemembered  BY <1>5 DEF MemoryTypeOK
  <2> QED  BY <1>2, <1>7, <1>11, <2>1, <2>2, <2>3 DEF MemoryTypeOK
<1>13. GroupsAreWhole'
  <2> SUFFICES ASSUME NEW g \in ToSet(memory) PROVE Whole(g)'  BY <1>5 DEF GroupsAreWhole
  <2> QED  BY <1>2, <1>6 DEF Whole
<1>14. GroupsAreApart'
  <2> SUFFICES ASSUME NEW m \in 1..Len(memory'), NEW n \in 1..Len(memory'), m < n
               PROVE  KeptApart(memory'[m], memory'[n])
    BY DEF GroupsAreApart, KeptApart
  <2>1. CASE AsBefore(memory', memory, m, n)  BY <2>1 DEF AsBefore, GroupsAreApart
  <2>2. CASE i \notin ToSet(memory'[m].ids) /\ i \in ToSet(memory'[n].ids)
    <3>1. memory'[m] \in ToSet(memory) /\ memory'[n] \in ToSet(memory)  BY <1>5, InSet
    <3> QED  BY <2>2, <3>1, TwoGroups
  <2> QED  BY <1>4, <2>1, <2>2 DEF Renews
<1>15. TurnsAreWhole'
  <2> SUFFICES ASSUME NEW s \in Turns PROVE TurnIsWhole(s)'  BY DEF TurnsAreWhole
  <2>1. TurnIsWhole(s)  BY DEF TurnsAreWhole
  <2>2. CASE s = t
    <3>1. filed[t] = << >> /\ returned[t] = Nothing  BY <1>1, <2>1, <2>2 DEF TurnIsWhole
    <3>2. ToSet(filed[t]) = {} /\ Len(filed[t]) = 0  BY <3>1 DEF ToSet
    <3> QED  BY <1>2, <2>2, <3>1, <3>2 DEF TurnIsWhole
  <2>3. CASE s # t
    <3>1. turn'[s] = turn[s] /\ under'[s] = under[s] /\ Of(s)' = Of(s) /\ filed' = filed /\ returned' = returned
      BY <1>2, <2>3
    <3>2. IdsOf(Of(s))' = IdsOf(Of(s)) /\ AnswerIds(Of(s))' = AnswerIds(Of(s))
      BY <3>1 DEF IdsOf, AnswerIds
    <3> QED  BY <2>1, <3>1, <3>2 DEF TurnIsWhole
  <2> QED  BY <2>2, <2>3
<1>16. FiledIsKept'
  <2> SUFFICES ASSUME NEW s \in Turns, turn'[s] # "new", filed'[s] # << >>, kept'[s], latest'[Of(s)'] = s,
                      s \notin evicted'
               PROVE  IsKept(s)'
    BY DEF FiledIsKept
  <2>1. s # t  BY <1>1, <1>2 DEF TurnsAreWhole, TurnIsWhole
  <2>2. IsKept(s)  BY <1>2, <2>1 DEF FiledIsKept
  <2> QED  BY <1>2, <1>5, <2>1, <2>2 DEF IsKept
<1>17. OwedAreOpen'
  <2> SUFFICES ASSUME NEW k \in 1..Len(owed')
               PROVE  turn'[owed'[k]] \in {"asked", "replied"} /\ filed'[owed'[k]] = << >>
    BY DEF OwedAreOpen
  <2>1. CASE k \in 1..Len(owed) /\ owed'[k] = owed[k]  BY <1>2, <1>9, <2>1 DEF OwedAreOpen
  <2>2. CASE owed'[k] = t  BY <1>1, <1>2, <2>2 DEF TurnsAreWhole, TurnIsWhole
  <2> QED  BY <1>8, <2>1, <2>2
<1>18. c \in Steady \/ \A s \in Turns : turn[s] = "asked" => Of(s) # c
  BY DEF Ask, c
<1>19. OwedInTurn'
  <2> SUFFICES ASSUME NEW k \in 1..Len(owed'), NEW l \in 1..Len(owed'), k < l,
                      After(owed'[k]) = After(owed'[l]), After(owed'[k]) \notin Steady
               PROVE  turn'[owed'[k]] # "asked"
    BY DEF OwedInTurn, Of, After
  <2>1. k \in 1..Len(owed) /\ owed'[k] = owed[k]
    <3>1. Len(owed) \in Nat /\ k # Len(owed) + 1  BY <1>1, <1>7
    <3> QED  BY <1>8, <3>1
  <2>2. owed[k] # t /\ owed[k] \in Turns  BY <1>9, <2>1
  <2>3. After(owed'[k]) = Of(owed[k]) /\ turn'[owed'[k]] = turn[owed[k]]  BY <1>2, <1>3, <2>1, <2>2
  <2>4. CASE l \in 1..Len(owed) /\ owed'[l] = owed[l]
    <3>1. After(owed'[l]) = Of(owed[l])  BY <1>3, <1>9, <2>4
    <3> QED  BY <2>1, <2>3, <2>4, <3>1 DEF OwedInTurn
  <2>5. CASE owed'[l] = t
    <3>1. After(owed'[l]) = c  BY <1>3, <2>5
    <3> QED  BY <1>18, <2>2, <2>3, <3>1
  <2> QED  BY <1>8, <2>4, <2>5
<1>20. HandledIsLatest'
  <2> SUFFICES ASSUME NEW s \in Turns, turn'[s] = "asked", filed'[s] # << >>, After(s) \notin Steady
               PROVE  latest'[After(s)] = s /\ \A k \in 1..Len(owed') : After(owed'[k]) # After(s)
    BY DEF HandledIsLatest, Of, After
  <2>1. s # t  BY <1>1, <1>2 DEF TurnsAreWhole, TurnIsWhole
  <2>2. turn[s] = "asked" /\ filed[s] # << >> /\ After(s) = Of(s)  BY <1>2, <1>3, <2>1
  <2>3. latest[Of(s)] = s /\ \A k \in 1..Len(owed) : Of(owed[k]) # Of(s)
    BY <2>2 DEF HandledIsLatest
  <2>4. Of(s) # c  BY <1>18, <2>2
  <2>5. ASSUME NEW k \in 1..Len(owed')  PROVE After(owed'[k]) # After(s)
    <3>1. CASE k \in 1..Len(owed) /\ owed'[k] = owed[k]
      <4>1. After(owed'[k]) = Of(owed[k])  BY <1>2, <1>3, <1>9, <3>1
      <4> QED  BY <2>2, <2>3, <3>1, <4>1
    <3>2. CASE owed'[k] = t
      <4>1. After(owed'[k]) = c  BY <1>3, <3>2
      <4> QED  BY <2>2, <2>4, <4>1
    <3> QED  BY <1>8, <3>1, <3>2
  <2> QED  BY <1>2, <2>2, <2>3, <2>5
<1>21. OneAtATime'
  <2> SUFFICES ASSUME NEW s \in Turns, NEW u \in Turns, s # u, turn'[s] = "asked", turn'[u] = "asked",
                      Of(s)' = Of(u)', Of(s)' \notin Steady
               PROVE  FALSE
    BY DEF OneAtATime
  <2>1. CASE s # t /\ u # t  BY <1>2, <2>1 DEF OneAtATime
  <2>2. CASE s = t /\ u # t  BY <1>2, <1>18, <2>2
  <2>3. CASE s # t /\ u = t  BY <1>2, <1>18, <2>3
  <2> QED  BY <2>1, <2>2, <2>3
<1>22. GroupsAreUsed'
  <2> SUFFICES ASSUME NEW g \in ToSet(memory) PROVE Of(g.turn)' \in ToSet(recency')
    BY <1>5 DEF GroupsAreUsed
  <2> QED  BY <1>6, <1>11 DEF GroupsAreUsed
<1>23. LeastRecentGoes'
  <2> SUFFICES ASSUME NEW m \in 1..Len(memory'), NEW n \in 1..Len(memory'), m < n,
                      After(memory'[m].turn) \in Steady, After(memory'[n].turn) \in Steady
               PROVE  Earlier(recency', After(memory'[m].turn), After(memory'[n].turn))
    BY DEF LeastRecentGoes, Earlier, Of, After
  <2> DEFINE g == memory'[m]   h == memory'[n]
  <2>1. g \in ToSet(memory) /\ h \in ToSet(memory)  BY <1>5, InSet
  <2>2. /\ After(g.turn) = Of(g.turn) /\ After(h.turn) = Of(h.turn)
        /\ Of(g.turn) \in Conversations /\ Of(h.turn) \in Conversations
        /\ Whole(g) /\ Whole(h)
    BY <1>3, <1>6, <2>1
  <2>3. Of(g.turn) \in ToSet(recency) /\ Of(h.turn) \in ToSet(recency)  BY <2>1 DEF GroupsAreUsed
  <2>4. ASSUME NEW f \in ToSet(memory), Of(f.turn) \in Steady, Of(f.turn) = c, NEW e \in Reached(memory, {i})
        PROVE  f = e
    <3>1. e \in ToSet(memory) /\ i \in ToSet(e.ids)  BY DEF Reached
    <3>2. Whole(e) /\ Whole(f) /\ ToSet(f.ids) # {} /\ ToSet(f.ids) \subseteq Ids  BY <3>1, OneGroup
    <3>3. Of(e.turn) = c  BY <3>1, <3>2 DEF Whole, c
    <3>4. AnswerIds(c) \subseteq ToSet(f.ids) /\ AnswerIds(c) \subseteq ToSet(e.ids)
      BY <2>4, <3>2, <3>3 DEF Whole
    <3>5. AnswerIds(c) # {}  BY AnswersExist DEF c
    <3> QED  BY <3>1, <3>4, <3>5, TwoGroups DEF KeptApart
  <2>5. g # h
    <3>1. KeptApart(g, h)  BY <1>14 DEF GroupsAreApart, KeptApart
    <3> QED  BY <3>1 DEF KeptApart
  <2>6. CASE AsBefore(memory', memory, m, n) /\ (i \in ToSet(g.ids) => i \in ToSet(h.ids))
    <3>1. PICK k \in 1..Len(memory), l \in 1..Len(memory) : k < l /\ g = memory[k] /\ h = memory[l]
      BY <2>6 DEF AsBefore
    <3>2. Earlier(recency, Of(g.turn), Of(h.turn))
      BY <2>2, <3>1 DEF LeastRecentGoes, Earlier
    <3>3. CASE UNCHANGED recency  BY <2>2, <3>2, <3>3
    <3>4. CASE UsedLast(recency, recency', c) /\ Of(g.turn) # c /\ Of(h.turn) # c
      BY <2>2, <3>2, <3>4 DEF UsedLast
    <3>5. CASE UsedLast(recency, recency', c) /\ Of(g.turn) # c /\ Of(h.turn) = c
      BY <2>2, <2>3, <3>5 DEF UsedLast
    <3>6. CASE Of(g.turn) = c /\ Reached(memory, {i}) # {}
      <4>1. PICK e \in Reached(memory, {i}) : e = g  BY <2>1, <2>2, <2>4, <3>6
      <4>2. i \in ToSet(g.ids) /\ i \in ToSet(h.ids)  BY <2>6, <4>1 DEF Reached
      <4>3. KeptApart(g, h)  BY <2>1, <2>5, TwoGroups
      <4> QED  BY <4>2, <4>3 DEF KeptApart
    <3> QED  BY <1>10, <3>3, <3>4, <3>5, <3>6 DEF UsedLast
  <2>7. CASE i \notin ToSet(g.ids) /\ i \in ToSet(h.ids)
    <3>1. h \in Reached(memory, {i})  BY <2>1, <2>7 DEF Reached
    <3>2. Of(h.turn) = c  BY <2>2, <2>7 DEF Whole, c
    <3>3. Of(g.turn) # c  BY <2>1, <2>2, <2>4, <2>5, <3>1
    <3>4. UsedLast(recency, recency', c)  BY <1>10, <3>1
    <3> QED  BY <2>2, <2>3, <3>2, <3>3, <3>4 DEF UsedLast
  <2> QED  BY <1>4, <2>6, <2>7 DEF Renews
<1> QED  BY <1>12, <1>13, <1>14, <1>15, <1>16, <1>17, <1>19, <1>20, <1>21, <1>22, <1>23

(* What is owed no longer: one turn, and the others in their order.            *)
LEMMA OwedLess ==
  ASSUME MemoryInv, NEW t \in Turns, owed' = NoLongerOwed(t)
  PROVE  /\ owed' \in Seq(Turns)
         /\ \A k \in 1..Len(owed') : owed'[k] # t /\ \E m \in 1..Len(owed) : owed'[k] = owed[m]
         /\ \A k, l \in 1..Len(owed') :
              k < l => \E m, n \in 1..Len(owed) : m < n /\ owed'[k] = owed[m] /\ owed'[l] = owed[n]
<1> DEFINE S == Turns \ {t}
           q == Only(owed, S)
<1>1. q \in Seq(Turns) /\ Thins(q, owed, Len(owed), S)
  BY OnlyThins DEF MemoryInv, MemoryTypeOK
<1> HIDE DEF q
<1>2. owed' = q  BY DEF NoLongerOwed, q
<1>3. ASSUME NEW k \in 1..Len(q)  PROVE q[k] # t /\ \E m \in 1..Len(owed) : q[k] = owed[m]
  <2>1. PICK m \in 1..Len(owed) : q[k] = owed[m] /\ owed[m] \in S  BY <1>1 DEF Thins, Kept
  <2> QED  BY <2>1
<1>4. \A k, l \in 1..Len(q) :
        k < l => \E m, n \in 1..Len(owed) : m < n /\ q[k] = owed[m] /\ q[l] = owed[n]
  BY <1>1 DEF Thins, InOrder
<1> QED  BY <1>1, <1>2, <1>3, <1>4

(* The turns in a step that files one of them, or ends one.                    *)
LEMMA HandledFrameKeeps ==
  ASSUME MemoryInv, NEW t \in Turns, NEW carries \in BOOLEAN,
         NEW answered \in {<< >>} \cup {<<i>> : i \in AnswerIds(Of(t))},
         Of(t) \in Steady => answered # << >>, HandledFrame(t, answered, carries)
  PROVE  MemoryInv'
<1> USE DEF MemoryInv
<1> DEFINE c == Of(t)
<1>1. PICK keys : /\ keys = Once(<<under[t]>> \o answered
                                  \o IF returned[t] = Nothing THEN << >> ELSE <<returned[t]>>)
                  /\ filed' = [filed EXCEPT ![t] = keys] /\ File(t, keys, carries)
  BY DEF HandledFrame
<1>2. /\ turn[t] \in {"asked", "replied"} /\ filed[t] = << >>
      /\ kept' = [kept EXCEPT ![t] = carries] /\ latest' = [latest EXCEPT ![c] = t]
      /\ owed' = NoLongerOwed(t) /\ UNCHANGED <<turn, under, returned>>
  BY DEF HandledFrame
<1>3. PICK n \in 1..Len(owed) : owed[n] = t /\ \A k \in 1..(n - 1) : Of(owed[k]) # c
  BY DEF HandledFrame
<1>4. \A s : Of(s)' = Of(s)  BY <1>2 DEF Of
<1>5. /\ KeysOf(t, keys) /\ under[t] \in ToSet(keys) /\ keys # << >>
      /\ turn[t] = "asked" => Len(keys) <= 2
      /\ turn[t] = "replied" => returned[t] \in ToSet(keys)
  BY <1>1, <1>2, HandledKeys
<1>6. under[t] \in Ids /\ c \in Conversations
  BY <1>2, MemoryShape DEF TurnsAreWhole, TurnIsWhole, Of
<1> DEFINE g == NewGroup(memory, keys, t)
<1>7. /\ memory' \in Seq(Group) /\ Len(memory') <= MaxRemembered
      /\ \A k \in 1..Len(memory') : Len(memory'[k].ids) \in 1..MaxAliases
      /\ recency' \in Seq(Conversations) /\ evicted' \subseteq Turns
      /\ \A h \in ToSet(memory') : (h \in ToSet(memory) /\ Free(h, keys)) \/ (carries /\ h = g)
      /\ carries => g \in ToSet(memory')
      /\ GroupsAreApart' /\ GroupsAreUsed' /\ LeastRecentGoes'
      /\ \A h \in ToSet(memory) :
           Of(h.turn) # c /\ h.turn \notin evicted' => h \in ToSet(memory') /\ h.turn \notin evicted
  BY <1>1, <1>2, <1>5, <1>6, FiledKeeps
<1>8. /\ g.turn = t /\ ToSet(keys) \subseteq ToSet(g.ids) /\ \A i \in ToSet(g.ids) : ConversationOf[i] = c
      /\ \A h \in ToSet(memory) : Free(h, keys) => KeptApart(h, g)
      /\ \A h \in ToSet(memory) : Free(h, keys) /\ Of(h.turn) \in Steady => Of(h.turn) # c
  BY <1>1, <1>5, <1>6, FiledGroups
<1> HIDE DEF g
<1>9. /\ filed'[t] = keys /\ kept'[t] = carries /\ latest'[c] = t
      /\ \A s \in Turns : s # t => filed'[s] = filed[s] /\ kept'[s] = kept[s]
      /\ \A d \in Conversations : d # c => latest'[d] = latest[d]
  BY <1>1, <1>2, <1>6 DEF MemoryTypeOK
<1>10. /\ owed' \in Seq(Turns)
       /\ \A k \in 1..Len(owed') : owed'[k] # t /\ \E m \in 1..Len(owed) : owed'[k] = owed[m]
       /\ \A k, l \in 1..Len(owed') :
            k < l => \E m, o \in 1..Len(owed) : m < o /\ owed'[k] = owed[m] /\ owed'[l] = owed[o]
  BY <1>2, OwedLess
<1> HIDE DEF c
<1>11. MemoryTypeOK'
  <2>1. filed' \in [Turns -> Seq(Ids)] /\ kept' \in [Turns -> BOOLEAN]
    BY <1>1, <1>2, <1>5 DEF MemoryTypeOK, KeysOf
  <2>2. latest' \in [Conversations -> Turns \cup {Nothing}]  BY <1>2 DEF MemoryTypeOK
  <2>3. UNCHANGED <<turn, under, returned>>  BY <1>2
  <2> QED  BY <1>7, <1>10, <2>1, <2>2, <2>3 DEF MemoryTypeOK
<1>12. GroupsAreWhole'
  <2> SUFFICES ASSUME NEW h \in ToSet(memory') PROVE Whole(h)'  BY DEF GroupsAreWhole
  <2>1. CASE h \in ToSet(memory) /\ Free(h, keys)
    <3>1. Whole(h) /\ h.turn \in Turns /\ h.turn # t /\ (Of(h.turn) \in Steady => Of(h.turn) # c)
      BY <1>8, <2>1, OneGroup DEF KeptApart
    <3>2. filed'[h.turn] = filed[h.turn] /\ kept'[h.turn] = kept[h.turn] /\ turn'[h.turn] = turn[h.turn]
      BY <1>2, <1>9, <3>1
    <3>3. Of(h.turn) \in Steady => latest'[Of(h.turn)] = latest[Of(h.turn)]
      BY <1>9, <3>1, MemoryShape
    <3>4. AnswerIds(Of(h.turn))' = AnswerIds(Of(h.turn))  BY <1>4 DEF AnswerIds, IdsOf
    <3> QED  BY <1>4, <3>1, <3>2, <3>3, <3>4 DEF Whole
  <2>2. CASE carries /\ h = g
    <3>1. /\ h.turn = t /\ ToSet(keys) \subseteq ToSet(h.ids)
          /\ \A i \in ToSet(h.ids) : ConversationOf[i] = c
      BY <1>8, <2>2
    <3>2. Of(h.turn)' = c /\ AnswerIds(Of(h.turn))' = AnswerIds(c)
      BY <1>4, <3>1 DEF c, AnswerIds, IdsOf
    <3>3. c \in Steady => AnswerIds(c) \subseteq ToSet(h.ids)
      BY <1>5, <3>1 DEF KeysOf, c
    <3> QED  BY <1>2, <1>5, <1>9, <2>2, <3>1, <3>2, <3>3 DEF Whole
  <2> QED  BY <1>7, <2>1, <2>2
<1>13. TurnsAreWhole'
  <2> SUFFICES ASSUME NEW s \in Turns PROVE TurnIsWhole(s)'  BY DEF TurnsAreWhole
  <2>1. TurnIsWhole(s) /\ IdsOf(Of(s))' = IdsOf(Of(s)) /\ AnswerIds(Of(s))' = AnswerIds(Of(s))
    BY <1>4 DEF TurnsAreWhole, IdsOf, AnswerIds
  <2>2. CASE s # t  BY <1>2, <1>4, <1>9, <2>1, <2>2 DEF TurnIsWhole
  <2>3. CASE s = t
    <3>1. ToSet(keys) \subseteq IdsOf(Of(t)) /\ Len(keys) \in 1..3
          /\ (Of(t) \in Steady => AnswerIds(Of(t)) \subseteq ToSet(keys))
      BY <1>5 DEF KeysOf
    <3> QED  BY <1>2, <1>4, <1>5, <1>9, <2>1, <2>3, <3>1 DEF TurnIsWhole
  <2> QED  BY <2>2, <2>3
<1>14. FiledIsKept'
  <2> SUFFICES ASSUME NEW s \in Turns, turn'[s] # "new", filed'[s] # << >>, kept'[s], latest'[Of(s)] = s,
                      s \notin evicted'
               PROVE  IsKept(s)'
    BY <1>4 DEF FiledIsKept
  <2>1. CASE s = t
    <3>1. g \in ToSet(memory')  BY <1>7, <1>9, <2>1
    <3> QED  BY <1>2, <1>5, <1>8, <2>1, <3>1 DEF IsKept
  <2>2. CASE s # t
    <3>1. Of(s) # c  BY <1>9, <2>2
    <3>2. Of(s) \in Conversations
      BY <1>2, MemoryShape DEF TurnsAreWhole, TurnIsWhole, Of
    <3>3. turn[s] # "new" /\ filed[s] # << >> /\ kept[s] /\ latest[Of(s)] = s
      BY <1>2, <1>9, <2>2, <3>1, <3>2
    <3>4. s \notin evicted
      <4>1. evicted' = (evicted \ {t}) \cup (TurnsOf(Others(memory, keys)) \ TurnsOf(memory'))
        BY <1>1 DEF File
      <4> QED  BY <2>2, <4>1
    <3>5. IsKept(s)  BY <3>3, <3>4 DEF FiledIsKept
    <3> QED  BY <1>2, <1>7, <3>1, <3>5 DEF IsKept
  <2> QED  BY <2>1, <2>2
<1>15. OwedAreOpen'
  <2> SUFFICES ASSUME NEW k \in 1..Len(owed')
               PROVE  turn[owed'[k]] \in {"asked", "replied"} /\ filed'[owed'[k]] = << >>
    BY <1>2 DEF OwedAreOpen
  <2>1. PICK m \in 1..Len(owed) : owed'[k] = owed[m]  BY <1>10
  <2>2. owed'[k] \in Turns /\ owed'[k] # t  BY <1>10
  <2> QED  BY <1>9, <2>1, <2>2 DEF OwedAreOpen
<1>16. OwedInTurn'
  <2> SUFFICES ASSUME NEW k \in 1..Len(owed'), NEW l \in 1..Len(owed'), k < l,
                      Of(owed'[k]) = Of(owed'[l]), Of(owed'[k]) \notin Steady
               PROVE  turn'[owed'[k]] # "asked"
    BY <1>4 DEF OwedInTurn
  <2>1. PICK m \in 1..Len(owed), o \in 1..Len(owed) : m < o /\ owed'[k] = owed[m] /\ owed'[l] = owed[o]
    BY <1>10
  <2>2. turn[owed[m]] # "asked"  BY <2>1 DEF OwedInTurn
  <2> QED  BY <1>2, <2>1, <2>2
<1>17. HandledIsLatest'
  <2> SUFFICES ASSUME NEW s \in Turns, turn'[s] = "asked", filed'[s] # << >>, Of(s) \notin Steady
               PROVE  latest'[Of(s)] = s /\ \A k \in 1..Len(owed') : Of(owed'[k]) # Of(s)
    BY <1>4 DEF HandledIsLatest
  <2>1. CASE s = t
    <3>1. ASSUME NEW k \in 1..Len(owed'), Of(owed'[k]) = c  PROVE FALSE
      <4>1. PICK m \in 1..Len(owed) : owed'[k] = owed[m] /\ owed[m] # t  BY <1>10
      <4>2. Len(owed) \in Nat  BY DEF MemoryTypeOK
      <4>3. n < m  BY <1>3, <3>1, <4>1, <4>2
      <4>4. Of(owed[n]) = c /\ Of(owed[m]) = c /\ c \notin Steady /\ turn[owed[n]] = "asked"
        BY <1>2, <1>3, <2>1, <3>1, <4>1 DEF c
      <4> QED  BY <4>3, <4>4 DEF OwedInTurn
    <3> QED  BY <1>9, <2>1, <3>1 DEF c
  <2>2. CASE s # t
    <3>1. turn[s] = "asked" /\ filed[s] # << >>  BY <1>2, <1>9, <2>2
    <3>2. latest[Of(s)] = s /\ \A k \in 1..Len(owed) : Of(owed[k]) # Of(s)
      BY <3>1 DEF HandledIsLatest
    <3>3. Of(s) # c  BY <1>3, <3>2 DEF c
    <3>4. Of(s) \in Conversations
      BY <3>1, MemoryShape DEF TurnsAreWhole, TurnIsWhole, Of
    <3> QED  BY <1>9, <1>10, <3>2, <3>3, <3>4
  <2> QED  BY <2>1, <2>2
<1>18. OneAtATime'  BY <1>2, <1>4 DEF OneAtATime
<1> QED  BY <1>7, <1>11, <1>12, <1>13, <1>14, <1>15, <1>16, <1>17, <1>18

LEMMA TurnEndsKeeps ==
  ASSUME MemoryInv, NEW t \in Turns, TurnEnds(t)
  PROVE  MemoryInv'
<1> USE DEF MemoryInv
<1>1. /\ turn' = [turn EXCEPT ![t] = "over"] /\ filed' = [filed EXCEPT ![t] = << >>]
      /\ owed' = NoLongerOwed(t) /\ turn[t] \in {"asked", "replied"}
      /\ UNCHANGED <<memory, under, kept, returned, latest, recency, evicted>>
  BY DEF TurnEnds
<1>2. \A s : Of(s)' = Of(s)  BY <1>1 DEF Of
<1>3. /\ turn'[t] = "over" /\ filed'[t] = << >>
      /\ \A s \in Turns : s # t => turn'[s] = turn[s] /\ filed'[s] = filed[s]
  BY <1>1 DEF MemoryTypeOK
<1>4. /\ owed' \in Seq(Turns)
      /\ \A k \in 1..Len(owed') : owed'[k] # t /\ \E m \in 1..Len(owed) : owed'[k] = owed[m]
      /\ \A k, l \in 1..Len(owed') :
           k < l => \E m, o \in 1..Len(owed) : m < o /\ owed'[k] = owed[m] /\ owed'[l] = owed[o]
  BY <1>1, OwedLess
<1>5. ToSet(<< >>) = {}  BY DEF ToSet
<1>6. MemoryTypeOK'
  <2>1. filed' \in [Turns -> Seq(Ids)]
    <3>1. << >> \in Seq(Ids)  OBVIOUS
    <3> QED  BY <1>1, <3>1 DEF MemoryTypeOK
  <2>2. turn' \in [Turns -> {"new", "asked", "replied", "over"}]  BY <1>1 DEF MemoryTypeOK
  <2>3. UNCHANGED <<memory, under, kept, returned, latest, recency, evicted>>  BY <1>1
  <2> QED  BY <1>4, <2>1, <2>2, <2>3 DEF MemoryTypeOK
<1>7. GroupsAreWhole'
  <2> SUFFICES ASSUME NEW h \in ToSet(memory) PROVE Whole(h)'  BY <1>1 DEF GroupsAreWhole
  <2>1. Whole(h) /\ h.turn \in Turns  BY OneGroup
  <2>2. AnswerIds(Of(h.turn))' = AnswerIds(Of(h.turn))  BY <1>2 DEF AnswerIds, IdsOf
  <2> QED  BY <1>1, <1>2, <1>3, <1>5, <2>1, <2>2 DEF Whole
<1>8. TurnsAreWhole'
  <2> SUFFICES ASSUME NEW s \in Turns PROVE TurnIsWhole(s)'  BY DEF TurnsAreWhole
  <2>1. TurnIsWhole(s) /\ IdsOf(Of(s))' = IdsOf(Of(s)) /\ AnswerIds(Of(s))' = AnswerIds(Of(s))
    BY <1>2 DEF TurnsAreWhole, IdsOf, AnswerIds
  <2>2. CASE s # t  BY <1>1, <1>2, <1>3, <2>1, <2>2 DEF TurnIsWhole
  <2>3. CASE s = t  BY <1>1, <1>2, <1>3, <1>5, <2>1, <2>3 DEF TurnIsWhole
  <2> QED  BY <2>2, <2>3
<1>9. FiledIsKept'
  <2> SUFFICES ASSUME NEW s \in Turns, turn'[s] # "new", filed'[s] # << >>, kept[s], latest[Of(s)] = s,
                      s \notin evicted
               PROVE  IsKept(s)'
    BY <1>1, <1>2 DEF FiledIsKept
  <2>1. s # t  BY <1>3
  <2>2. IsKept(s)  BY <1>3, <2>1 DEF FiledIsKept
  <2> QED  BY <1>1, <1>3, <2>1, <2>2 DEF IsKept
<1>10. OwedAreOpen'
  <2> SUFFICES ASSUME NEW k \in 1..Len(owed')
               PROVE  turn'[owed'[k]] \in {"asked", "replied"} /\ filed'[owed'[k]] = << >>
    BY DEF OwedAreOpen
  <2>1. PICK m \in 1..Len(owed) : owed'[k] = owed[m]  BY <1>4
  <2>2. owed'[k] \in Turns /\ owed'[k] # t  BY <1>4
  <2> QED  BY <1>3, <2>1, <2>2 DEF OwedAreOpen
<1>11. OwedInTurn'
  <2> SUFFICES ASSUME NEW k \in 1..Len(owed'), NEW l \in 1..Len(owed'), k < l,
                      Of(owed'[k]) = Of(owed'[l]), Of(owed'[k]) \notin Steady
               PROVE  turn'[owed'[k]] # "asked"
    BY <1>2 DEF OwedInTurn
  <2>1. owed'[k] # t /\ owed'[k] \in Turns  BY <1>4
  <2>2. turn'[owed'[k]] = turn[owed'[k]]  BY <1>3, <2>1
  <2>3. PICK m \in 1..Len(owed), o \in 1..Len(owed) : m < o /\ owed'[k] = owed[m] /\ owed'[l] = owed[o]
    BY <1>4
  <2>4. turn[owed[m]] # "asked"  BY <2>3 DEF OwedInTurn
  <2> QED  BY <2>2, <2>3, <2>4
<1>12. HandledIsLatest'
  <2> SUFFICES ASSUME NEW s \in Turns, turn'[s] = "asked", filed'[s] # << >>, Of(s) \notin Steady
               PROVE  latest'[Of(s)] = s /\ \A k \in 1..Len(owed') : Of(owed'[k]) # Of(s)
    BY <1>2 DEF HandledIsLatest
  <2>1. turn[s] = "asked" /\ filed[s] # << >>  BY <1>3
  <2> QED  BY <1>1, <1>4, <2>1 DEF HandledIsLatest
<1>13. OneAtATime'
  <2>1. \A s \in Turns : turn'[s] = "asked" => turn[s] = "asked"  BY <1>3
  <2> QED  BY <1>2, <2>1 DEF OneAtATime
<1>14. GroupsAreUsed' /\ GroupsAreApart'
  BY <1>1, <1>2 DEF GroupsAreUsed, GroupsAreApart, KeptApart
<1>15. LeastRecentGoes'  BY <1>1, <1>2 DEF LeastRecentGoes
<1> QED  BY <1>6, <1>7, <1>8, <1>9, <1>10, <1>11, <1>12, <1>13, <1>14, <1>15

LEMMA ReplyKeeps ==
  ASSUME MemoryInv, NEW t \in Turns, NEW i \in AnswerIds(Of(t)), Reply(t, i)
  PROVE  MemoryInv'
<1> USE DEF MemoryInv
<1> DEFINE c == Of(t)
           keys == Append(filed[t], i)
           again == filed[t] # << >> /\ ~Contains(filed[t], i)
           g == NewGroup(memory, keys, t)
<1>1. /\ turn[t] = "asked" /\ turn' = [turn EXCEPT ![t] = "replied"]
      /\ returned' = [returned EXCEPT ![t] = i] /\ UNCHANGED <<under, filed, kept, owed, latest>>
  BY DEF Reply
<1>2. \A s : Of(s)' = Of(s)  BY <1>1 DEF Of
<1>3. /\ turn'[t] = "replied" /\ returned'[t] = i
      /\ \A s \in Turns : s # t => turn'[s] = turn[s] /\ returned'[s] = returned[s]
  BY <1>1 DEF MemoryTypeOK
<1>4. /\ TurnIsWhole(t) /\ under[t] \in Ids /\ c \in Conversations /\ i \in Ids /\ ConversationOf[i] = c
      /\ filed[t] \in Seq(Ids) /\ kept[t] \in BOOLEAN
  <2>1. TurnIsWhole(t) /\ under[t] \in Ids  BY <1>1 DEF TurnsAreWhole, TurnIsWhole
  <2>2. i \in IdsOf(c)  BY DEF AnswerIds
  <2>3. c \in Conversations  BY <2>1, MemoryShape DEF Of
  <2> QED  BY <2>1, <2>2, <2>3 DEF IdsOf, MemoryTypeOK
<1>5. \/ ~again /\ UNCHANGED <<memory, recency, evicted>>
      \/ again /\ File(t, keys, kept[t])
  BY DEF Reply
<1>6. again => i \notin ToSet(filed[t])
  <2> SUFFICES ASSUME again, i \in ToSet(filed[t]) PROVE FALSE  OBVIOUS
  <2>1. PICK k \in 1..Len(filed[t]) : filed[t][k] = i  BY <1>4, InSet
  <2> QED  BY <2>1 DEF Contains
<1>7. ~again /\ filed[t] # << >> => i \in ToSet(filed[t])
  <2> SUFFICES ASSUME Contains(filed[t], i) PROVE i \in ToSet(filed[t])  OBVIOUS
  <2>1. PICK k \in 1..Len(filed[t]) : filed[t][k] = i  BY DEF Contains
  <2> QED  BY <1>4, <2>1, InSet
<1>8. again => c \notin Steady /\ latest[c] = t
  <2> SUFFICES ASSUME again PROVE c \notin Steady /\ latest[c] = t  OBVIOUS
  <2>1. c \notin Steady  BY <1>4, <1>6 DEF TurnIsWhole
  <2> QED  BY <1>1, <2>1 DEF HandledIsLatest
<1>9. again => /\ KeysOf(t, keys) /\ ToSet(keys) = ToSet(filed[t]) \cup {i}
  <2> SUFFICES ASSUME again
               PROVE  KeysOf(t, keys) /\ ToSet(keys) = ToSet(filed[t]) \cup {i}
    OBVIOUS
  <2>1. keys \in Seq(Ids) /\ Len(keys) = Len(filed[t]) + 1  BY <1>4, AppendProperties
  <2>2. ToSet(keys) = ToSet(filed[t]) \cup {i}  BY <1>4, InAppended
  <2>3. /\ ToSet(filed[t]) \subseteq IdsOf(c) /\ Len(filed[t]) \in 1..2 /\ under[t] \in ToSet(filed[t])
        /\ i \in IdsOf(c)
    <3>1. Len(filed[t]) \in 1..3 /\ Len(filed[t]) <= 2  BY <1>1, <1>4 DEF TurnIsWhole
    <3>2. PICK n \in 1..3 : n = Len(filed[t]) /\ n <= 2  BY <3>1
    <3>3. n \in 1..2  BY <3>2
    <3>4. ToSet(filed[t]) \subseteq IdsOf(c) /\ under[t] \in ToSet(filed[t])  BY <1>1, <1>4 DEF TurnIsWhole
    <3> QED  BY <1>4, <3>2, <3>3, <3>4 DEF IdsOf
  <2> HIDE DEF keys
  <2>4. Len(keys) \in 1..3
    <3>1. PICK n \in 1..2 : n = Len(filed[t])  BY <2>3
    <3>2. Len(keys) = n + 1  BY <2>1, <3>1
    <3>3. n + 1 \in 1..3  OBVIOUS
    <3> QED  BY <3>2, <3>3
  <2>5. ASSUME NEW h \in ToSet(memory), h.turn = t  PROVE ~Free(h, keys)
    <3>1. Whole(h)  BY OneGroup
    <3>2. under[t] \in ToSet(h.ids) /\ under[t] \in ToSet(keys)  BY <2>2, <2>3, <2>5, <3>1 DEF Whole
    <3> QED  BY <3>2 DEF Free
  <2> QED  BY <1>8, <2>1, <2>2, <2>3, <2>4, <2>5 DEF KeysOf
<1>10. \/ UNCHANGED <<memory, recency, evicted>> /\ (filed[t] # << >> => i \in ToSet(filed[t]))
       \/ /\ memory' \in Seq(Group) /\ Len(memory') <= MaxRemembered
          /\ \A k \in 1..Len(memory') : Len(memory'[k].ids) \in 1..MaxAliases
          /\ recency' \in Seq(Conversations) /\ evicted' \subseteq Turns
          /\ \A h \in ToSet(memory') : (h \in ToSet(memory) /\ h.turn # t) \/ (kept[t] /\ h = g)
          /\ kept[t] => g \in ToSet(memory')
          /\ GroupsAreApart' /\ GroupsAreUsed' /\ LeastRecentGoes'
          /\ \A h \in ToSet(memory) :
               Of(h.turn) # c /\ h.turn \notin evicted' => h \in ToSet(memory') /\ h.turn \notin evicted
          /\ c \notin Steady /\ latest[c] = t /\ filed[t] # << >>
          /\ g.turn = t /\ ToSet(filed[t]) \subseteq ToSet(g.ids) /\ i \in ToSet(g.ids)
          /\ \A j \in ToSet(g.ids) : ConversationOf[j] = c
          /\ \A s \in Turns : s # t /\ s \notin evicted' => s \notin evicted
  <2>1. CASE again
    <3>1. KeysOf(t, keys) /\ File(t, keys, kept[t]) /\ ToSet(keys) = ToSet(filed[t]) \cup {i}
      BY <1>5, <1>9, <2>1
    <3>2. filed[t] # << >>  BY <2>1
    <3>3. evicted' = (evicted \ {t}) \cup (TurnsOf(Others(memory, keys)) \ TurnsOf(memory'))
      BY <3>1 DEF File
    <3> HIDE DEF keys, again
    <3>4. /\ memory' \in Seq(Group) /\ Len(memory') <= MaxRemembered
          /\ \A k \in 1..Len(memory') : Len(memory'[k].ids) \in 1..MaxAliases
          /\ recency' \in Seq(Conversations) /\ evicted' \subseteq Turns
          /\ \A h \in ToSet(memory') : (h \in ToSet(memory) /\ Free(h, keys)) \/ (kept[t] /\ h = g)
          /\ kept[t] => g \in ToSet(memory')
          /\ GroupsAreApart' /\ GroupsAreUsed' /\ LeastRecentGoes'
          /\ \A h \in ToSet(memory) :
               Of(h.turn) # c /\ h.turn \notin evicted' => h \in ToSet(memory') /\ h.turn \notin evicted
      BY <1>1, <1>4, <3>1, FiledKeeps
    <3>5. /\ g.turn = t /\ ToSet(keys) \subseteq ToSet(g.ids)
          /\ \A j \in ToSet(g.ids) : ConversationOf[j] = c
      BY <1>4, <3>1, FiledGroups
    <3> HIDE DEF g
    <3>6. \A h \in ToSet(memory) : Free(h, keys) => h.turn # t  BY <3>1 DEF KeysOf
    <3>7. \A s \in Turns : s # t /\ s \notin evicted' => s \notin evicted  BY <3>3
    <3> HIDE DEF c
    <3> QED  BY <1>8, <2>1, <3>1, <3>2, <3>4, <3>5, <3>6, <3>7
  <2>2. CASE ~again  BY <1>5, <1>7, <2>2
  <2> QED  BY <2>1, <2>2
<1> HIDE DEF g, keys, again, c
<1>11. MemoryTypeOK'
  <2>1. turn' \in [Turns -> {"new", "asked", "replied", "over"}]  BY <1>1 DEF MemoryTypeOK
  <2>2. returned' \in [Turns -> Ids \cup {Nothing}]  BY <1>1, <1>4 DEF MemoryTypeOK
  <2>3. UNCHANGED <<under, filed, kept, owed, latest>>  BY <1>1
  <2>4. /\ memory' \in Seq(Group) /\ Len(memory') <= MaxRemembered
        /\ \A k \in 1..Len(memory') : Len(memory'[k].ids) \in 1..MaxAliases
        /\ recency' \in Seq(Conversations) /\ evicted' \subseteq Turns
    BY <1>10 DEF MemoryTypeOK
  <2> QED  BY <2>1, <2>2, <2>3, <2>4 DEF MemoryTypeOK
<1>12. GroupsAreWhole'
  <2> SUFFICES ASSUME NEW h \in ToSet(memory') PROVE Whole(h)'  BY DEF GroupsAreWhole
  <2>1. \/ h \in ToSet(memory)
        \/ /\ kept[t] /\ h.turn = t /\ ToSet(filed[t]) \subseteq ToSet(h.ids)
           /\ \A j \in ToSet(h.ids) : ConversationOf[j] = c
           /\ c \notin Steady /\ filed[t] # << >>
    BY <1>10
  <2>2. CASE h \in ToSet(memory)
    <3>1. Whole(h) /\ h.turn \in Turns  BY <2>2, OneGroup
    <3>2. AnswerIds(Of(h.turn))' = AnswerIds(Of(h.turn))  BY <1>2 DEF AnswerIds, IdsOf
    <3>3. turn'[h.turn] # "new" /\ (turn'[h.turn] = "over" \/ filed[h.turn] # << >>)
      BY <1>1, <1>3, <3>1 DEF Whole
    <3> QED  BY <1>1, <1>2, <3>1, <3>2, <3>3 DEF Whole
  <2>3. CASE /\ kept[t] /\ h.turn = t /\ ToSet(filed[t]) \subseteq ToSet(h.ids)
             /\ \A j \in ToSet(h.ids) : ConversationOf[j] = c
             /\ c \notin Steady /\ filed[t] # << >>
    BY <1>1, <1>2, <1>3, <2>3 DEF Whole, c
  <2> QED  BY <2>1, <2>2, <2>3
<1>13. TurnsAreWhole'
  <2> SUFFICES ASSUME NEW s \in Turns PROVE TurnIsWhole(s)'  BY DEF TurnsAreWhole
  <2>1. TurnIsWhole(s) /\ IdsOf(Of(s))' = IdsOf(Of(s)) /\ AnswerIds(Of(s))' = AnswerIds(Of(s))
    BY <1>2 DEF TurnsAreWhole, IdsOf, AnswerIds
  <2>2. CASE s # t  BY <1>1, <1>2, <1>3, <2>1, <2>2 DEF TurnIsWhole
  <2>3. CASE s = t  BY <1>1, <1>2, <1>3, <2>1, <2>3 DEF TurnIsWhole
  <2> QED  BY <2>2, <2>3
<1>14. GroupsAreApart' /\ GroupsAreUsed' /\ LeastRecentGoes'
  <2>1. CASE UNCHANGED <<memory, recency, evicted>>
    <3>1. GroupsAreApart' /\ GroupsAreUsed'  BY <1>2, <2>1 DEF GroupsAreApart, KeptApart, GroupsAreUsed
    <3>2. LeastRecentGoes'  BY <1>2, <2>1 DEF LeastRecentGoes
    <3> QED  BY <3>1, <3>2
  <2> QED  BY <1>10, <2>1
<1>15. FiledIsKept'
  <2> SUFFICES ASSUME NEW s \in Turns, turn'[s] # "new", filed[s] # << >>, kept[s], latest[Of(s)] = s,
                      s \notin evicted'
               PROVE  IsKept(s)'
    BY <1>1, <1>2 DEF FiledIsKept
  <2>1. CASE UNCHANGED <<memory, recency, evicted>> /\ (filed[t] # << >> => i \in ToSet(filed[t]))
    <3>1. turn[s] # "new"  BY <1>1, <1>3
    <3>2. IsKept(s)  BY <2>1, <3>1 DEF FiledIsKept
    <3>3. PICK h \in ToSet(memory) : h.turn = s /\ (turn[s] = "replied" => returned[s] \in ToSet(h.ids))
      BY <3>2 DEF IsKept
    <3>4. turn'[s] = "replied" => returned'[s] \in ToSet(h.ids)
      <4>1. CASE s = t
        <5>1. Whole(h)  BY OneGroup
        <5>2. i \in ToSet(h.ids)  BY <2>1, <3>3, <4>1, <5>1 DEF Whole
        <5> QED  BY <1>3, <4>1, <5>2
      <4>2. CASE s # t  BY <1>3, <3>3, <4>2
      <4> QED  BY <4>1, <4>2
    <3> QED  BY <2>1, <3>3, <3>4 DEF IsKept
  <2>2. CASE /\ kept[t] => g \in ToSet(memory')
             /\ \A h \in ToSet(memory) :
                  Of(h.turn) # c /\ h.turn \notin evicted' => h \in ToSet(memory') /\ h.turn \notin evicted
             /\ latest[c] = t /\ g.turn = t /\ i \in ToSet(g.ids)
             /\ \A u \in Turns : u # t /\ u \notin evicted' => u \notin evicted
    <3>1. CASE s = t
      <4>1. g \in ToSet(memory') /\ g.turn = t /\ i \in ToSet(g.ids)  BY <2>2, <3>1
      <4> QED  BY <1>3, <3>1, <4>1 DEF IsKept
    <3>2. CASE s # t
      <4>1. Of(s) # c /\ s \notin evicted /\ turn[s] # "new"  BY <1>3, <2>2, <3>2
      <4>2. IsKept(s)  BY <4>1 DEF FiledIsKept
      <4>3. PICK h \in ToSet(memory) : h.turn = s /\ (turn[s] = "replied" => returned[s] \in ToSet(h.ids))
        BY <4>2 DEF IsKept
      <4>4. h \in ToSet(memory')  BY <2>2, <4>1, <4>3
      <4> QED  BY <1>3, <3>2, <4>3, <4>4 DEF IsKept
    <3> QED  BY <3>1, <3>2
  <2> QED  BY <1>10, <2>1, <2>2
<1>16. OwedAreOpen' /\ OwedInTurn'
  <2>1. \A k \in 1..Len(owed) : owed[k] \in Turns  BY DEF MemoryTypeOK
  <2>2. OwedAreOpen'  BY <1>1, <1>3, <2>1 DEF OwedAreOpen
  <2>3. \A k \in 1..Len(owed) : turn'[owed[k]] = "asked" => turn[owed[k]] = "asked"
    BY <1>3, <2>1
  <2>4. OwedInTurn'  BY <1>1, <1>2, <2>3 DEF OwedInTurn
  <2> QED  BY <2>2, <2>4
<1>17. \A s \in Turns : turn'[s] = "asked" => turn[s] = "asked"  BY <1>3
<1>18. HandledIsLatest' /\ OneAtATime'
  BY <1>1, <1>2, <1>17 DEF HandledIsLatest, OneAtATime
<1> QED  BY <1>11, <1>12, <1>13, <1>14, <1>15, <1>16, <1>18

(* Its last state, and nothing else, is carried from one turn of a             *)
(* conversation to the next, whatever the turns, the ids and the bounds.       *)
THEOREM MemoryTellsTheTruth == MemorySpec => []MemoryIsTrue
<1>1. MemoryInv /\ [MemoryNext]_memoryVars => MemoryInv'
  <2> SUFFICES ASSUME MemoryInv, [MemoryNext]_memoryVars PROVE MemoryInv'  OBVIOUS
  <2>1. CASE UNCHANGED memoryVars
    <3>1. UNCHANGED <<memory, turn, under, filed, kept, returned, owed, latest, recency, evicted>>
      BY <2>1 DEF memoryVars, turnVars, recordVars
    <3>2. \A t : Of(t)' = Of(t)  BY <3>1 DEF Of
    <3>3. \A c : AnswerIds(c)' = AnswerIds(c)  BY DEF AnswerIds, IdsOf
    <3>4. \A t : TurnIsWhole(t)' <=> TurnIsWhole(t)  BY <3>1, <3>2, <3>3 DEF TurnIsWhole, IdsOf
    <3>5. \A g : Whole(g)' <=> Whole(g)  BY <3>1, <3>2, <3>3 DEF Whole
    <3>6. \A t : IsKept(t)' <=> IsKept(t)  BY <3>1 DEF IsKept
    <3>7. MemoryTypeOK'  BY <3>1 DEF MemoryInv, MemoryTypeOK
    <3>8. GroupsAreWhole' /\ TurnsAreWhole' /\ FiledIsKept'
      BY <3>1, <3>2, <3>4, <3>5, <3>6 DEF MemoryInv, GroupsAreWhole, TurnsAreWhole, FiledIsKept
    <3>9. GroupsAreApart' /\ GroupsAreUsed'
      BY <3>1, <3>2 DEF MemoryInv, GroupsAreApart, KeptApart, GroupsAreUsed
    <3>10. LeastRecentGoes'  BY <3>1, <3>2 DEF MemoryInv, LeastRecentGoes
    <3>11. OwedAreOpen' /\ OwedInTurn' /\ HandledIsLatest' /\ OneAtATime'
      BY <3>1, <3>2 DEF MemoryInv, OwedAreOpen, OwedInTurn, HandledIsLatest, OneAtATime
    <3> QED  BY <3>7, <3>8, <3>9, <3>11, <3>10 DEF MemoryInv
  <2>2. ASSUME NEW t \in Turns, NEW i \in Ids, Ask(t, i)  PROVE MemoryInv'  BY <2>2, AskKeeps
  <2>3. ASSUME NEW t \in Turns, NEW i \in AnswerIds(Of(t)), Reply(t, i)  PROVE MemoryInv'
    BY <2>3, ReplyKeeps
  <2>4. ASSUME NEW t \in Turns, NEW i \in AnswerIds(Of(t)), NEW carries \in BOOLEAN,
               HandledFrame(t, <<i>>, carries)
        PROVE  MemoryInv'
    BY <2>4, HandledFrameKeeps
  <2>5. ASSUME NEW t \in Turns, Of(t) \notin Steady, NEW carries \in BOOLEAN,
               HandledFrame(t, << >>, carries)
        PROVE  MemoryInv'
    BY <2>5, HandledFrameKeeps
  <2>6. ASSUME NEW t \in Turns, TurnEnds(t)  PROVE MemoryInv'  BY <2>6, TurnEndsKeeps
  <2>7. CASE MemoryNext  BY <2>2, <2>3, <2>4, <2>5, <2>6, <2>7 DEF MemoryNext
  <2> QED  BY <2>1, <2>7
<1> QED  BY <1>1, MemoryBegins, TrueByInvariant, PTL DEF MemorySpec

-----------------------------------------------------------------------------
(* The ids of requests and events (events.py, context.py), for any contexts of *)
(* any strings.  A context may lack a session id but holds no empty one: over  *)
(* that, build_client_context() would not fill in the client's.                *)
Maps == {map \in UNION {[K -> STRING] : K \in SUBSET STRING} :
           "session_id" \in DOMAIN map => map["session_id"] # ""}
Contexts == [top : Maps, session : Maps, source : Seq(STRING), destination : Seq(STRING)]
GivenIds == [session_id : STRING, site_id : STRING, lang : STRING, request_id : STRING]

(* A map that holds nothing.                                                   *)
LEMMA NothingIsIn == DOMAIN <<>> = {}
<1>1. <<>> \in Seq(STRING) /\ Len(<<>>) = 0  OBVIOUS
<1> QED  BY <1>1
LEMMA InNothing == \A k : In(<<>>, k) = ""
BY DEF In

(* The request id is in all three places an event can repeat it from.          *)
Carries(request, id) ==
  /\ In(request.top, "request_id") = id /\ In(request.session, "request_id") = id
  /\ In(request.top, "thalovant_request_id") = id

(* The ids of a request are the ones given; a session id not given is kept.    *)
LEMMA SentIds ==
  ASSUME NEW context, NEW given \in GivenIds
  PROVE  LET request == WithCorrelation(context, given) IN
         /\ In(request.session, "session_id") = Or(given.session_id, In(context.session, "session_id"))
         /\ In(request.top, "session_id") = In(context.top, "session_id")
         /\ given.request_id # "" => Carries(request, given.request_id)
<1> DEFINE one == WithKey(context.session, "session_id", given.session_id)
           two == WithDefault(one, "site_id", given.site_id)
           three == WithDefault(two, "lang", given.lang)
           session == WithKey(three, "request_id", given.request_id)
           early == WithKey(context.top, "request_id", given.request_id)
           top == WithKey(early, "thalovant_request_id", given.request_id)
           request == WithCorrelation(context, given)
<1>1. request.top = top /\ request.session = session  BY DEF WithCorrelation, Rewritten
<1> HIDE DEF one, two, three, session, early, top, request
<1>3. In(session, "session_id") = Or(given.session_id, In(context.session, "session_id"))
  <2>1. In(session, "session_id") = In(three, "session_id")  BY DEF session, In, WithKey, Over, Single
  <2>2. In(three, "session_id") = In(two, "session_id")  BY DEF three, In, WithDefault, Over, Single
  <2>3. In(two, "session_id") = In(one, "session_id")  BY DEF two, In, WithDefault, Over, Single
  <2>4. In(one, "session_id") = Or(given.session_id, In(context.session, "session_id"))
    BY DEF one, In, WithKey, Over, Single, Or
  <2> QED  BY <2>1, <2>2, <2>3, <2>4
<1>4. In(top, "session_id") = In(context.top, "session_id")
  <2>1. In(top, "session_id") = In(early, "session_id")  BY DEF top, In, WithKey, Over, Single
  <2>2. In(early, "session_id") = In(context.top, "session_id")  BY DEF early, In, WithKey, Over, Single
  <2> QED  BY <2>1, <2>2
<1>5. given.request_id # "" => Carries(request, given.request_id)
  <2>1. In(top, "request_id") = In(early, "request_id")  BY DEF top, In, WithKey, Over, Single
  <2>2. given.request_id # "" => In(early, "request_id") = given.request_id  BY DEF early, In, WithKey, Over, Single
  <2>3. given.request_id # "" => In(session, "request_id") = given.request_id  BY DEF session, In, WithKey, Over, Single
  <2>4. given.request_id # "" => In(top, "thalovant_request_id") = given.request_id
    BY DEF top, In, WithKey, Over, Single
  <2> QED  BY <1>1, <2>1, <2>2, <2>3, <2>4 DEF Carries
<1> QED  BY <1>1, <1>3, <1>4, <1>5 DEF request

(* The events a hub makes of a request carry its id or none.                   *)
LEMMA EchoesCarry ==
  ASSUME NEW request, NEW id \in STRING \ {""}, Carries(request, id), NEW hubSession, NEW e \in Echoes(request, hubSession)
  PROVE  /\ RequestIdFrom(request) = id /\ EventRequestId(e) \in {id, ""} /\ RequestIdFrom(e.context) \in {id, ""}
         /\ RequestIdFrom(e.context) # "" => EventRequestId(e) = RequestIdFrom(e.context)
         /\ EventRequestId(e) = "" => SessionIdFrom(e.context) = ""
<1> DEFINE over == Over(Single("session_id", hubSession), request.session)
           named == TheIds(request.top, {"thalovant_request_id"})
           hubs == TheIds(over, {"session_id"})
           single == Single("session_id", hubSession)
           data == WithKey(<<>>, "correlation_id", id)
<1>1. In(over, "request_id") = id  BY DEF In, Over, Single, Carries
<1>2. In(named, "request_id") = "" /\ In(named, "thalovant_request_id") = id  BY DEF In, TheIds, Carries
<1>3. In(single, "request_id") = "" /\ In(single, "thalovant_request_id") = "" /\ In(single, "correlation_id") = ""
  BY DEF In, Single
<1>4. In(data, "request_id") = "" /\ In(data, "thalovant_request_id") = "" /\ In(data, "correlation_id") = id
  <2>1. DOMAIN <<>> = {}  BY NothingIsIn
  <2>2. data = Over(Single("correlation_id", id), <<>>)  BY DEF WithKey
  <2>3. DOMAIN data = {"correlation_id"} /\ data["correlation_id"] = id  BY <2>1, <2>2 DEF Over, Single
  <2> QED  BY <2>3 DEF In
<1>5. PICK top, session, said :
        /\ e = [context |-> Context(top, session), data |-> said]
        /\ \/ top = request.top /\ session = over /\ said = <<>>
           \/ top = <<>> /\ session = over /\ said = <<>>
           \/ top = named /\ session = hubs /\ said = <<>>
           \/ top = <<>> /\ session = single /\ said = data
           \/ top = <<>> /\ session = <<>> /\ said = <<>>
  <2>1. RequestIdFrom(request) = id  BY DEF RequestIdFrom, RequestIdIn, Or, Carries
  <2>2. \/ e = [context |-> Context(request.top, over), data |-> <<>>]
        \/ e = [context |-> Context(<<>>, Context(request.top, over).session), data |-> <<>>]
        \/ e = [context |-> Context(TheIds(Context(request.top, over).top, {"thalovant_request_id"}),
                                    TheIds(Context(request.top, over).session, {"session_id"})), data |-> <<>>]
        \/ e = [context |-> Context(<<>>, single), data |-> data]
        \/ e = [context |-> Context(<<>>, <<>>), data |-> <<>>]
    BY <2>1 DEF Echoes, EMPTY
  <2> HIDE DEF over, single, data
  <2>4. Context(request.top, over).top = request.top /\ Context(request.top, over).session = over  BY DEF Context
  <2> QED  BY <2>2, <2>4
<1> HIDE DEF over, named, hubs, single, data
<1>6. e.context.top = top /\ e.context.session = session /\ e.data = said  BY <1>5 DEF Context
<1>7. RequestIdFrom(request) = id /\ RequestIdIn(<<>>) = ""
  BY InNothing DEF RequestIdFrom, RequestIdIn, Or, Carries
<1>8. RequestIdIn(over) = id /\ RequestIdIn(named) = id /\ RequestIdIn(single) = "" /\ RequestIdIn(data) = id
      /\ RequestIdIn(request.top) = id
  BY <1>1, <1>2, <1>3, <1>4 DEF RequestIdIn, Or, Carries
<1>9. \/ RequestIdFrom(e.context) = id
      \/ RequestIdFrom(e.context) = "" /\ EventRequestId(e) = id
      \/ RequestIdFrom(e.context) = "" /\ EventRequestId(e) = "" /\ top = <<>> /\ session = <<>>
  BY <1>5, <1>6, <1>7, <1>8 DEF RequestIdFrom, EventRequestId, Or
<1>10. RequestIdFrom(e.context) = id => EventRequestId(e) = id  BY DEF EventRequestId, Or
<1>11. top = <<>> /\ session = <<>> => SessionIdFrom(e.context) = ""  BY <1>6, InNothing DEF SessionIdFrom, Or
<1> QED  BY <1>7, <1>9, <1>10, <1>11

(* What a context holds after it was merged.                                   *)
LEMMA MapsAreMaps ==
  ASSUME NEW map \in Maps
  PROVE  /\ DOMAIN map \subseteq STRING /\ \A k \in DOMAIN map : map[k] \in STRING
         /\ "session_id" \in DOMAIN map => map["session_id"] # ""
<1>1. PICK K \in SUBSET STRING : map \in [K -> STRING]  BY DEF Maps
<1>2. "session_id" \in DOMAIN map => map["session_id"] # ""  BY DEF Maps
<1> QED  BY <1>1, <1>2

LEMMA OverIsAMap ==
  ASSUME NEW map \in Maps, NEW below \in Maps
  PROVE  /\ Over(map, below) \in Maps
         /\ \A k \in DOMAIN map : Over(map, below)[k] = map[k]
         /\ \A k \in DOMAIN below \ DOMAIN map : Over(map, below)[k] = below[k]
         /\ DOMAIN Over(map, below) = DOMAIN map \cup DOMAIN below
<1> DEFINE K == DOMAIN map \cup DOMAIN below
<1>1. /\ DOMAIN map \subseteq STRING /\ \A k \in DOMAIN map : map[k] \in STRING
      /\ DOMAIN below \subseteq STRING /\ \A k \in DOMAIN below : below[k] \in STRING
      /\ "session_id" \in DOMAIN map => map["session_id"] # ""
      /\ "session_id" \in DOMAIN below => below["session_id"] # ""
  BY MapsAreMaps
<1>2. Over(map, below) \in [K -> STRING] /\ DOMAIN Over(map, below) = K  BY <1>1 DEF Over
<1>3. K \in SUBSET STRING  BY <1>1
<1>4. Over(map, below) \in Maps
  <2>1. "session_id" \in DOMAIN Over(map, below) => Over(map, below)["session_id"] # ""  BY <1>1 DEF Over
  <2> QED  BY <1>2, <1>3, <2>1 DEF Maps
<1> QED  BY <1>4 DEF Over

LEMMA MergedContext ==
  ASSUME NEW base \in Contexts, NEW extra \in Contexts
  PROVE  LET merged == MergeContext(base, extra) IN
         /\ merged.top \in Maps /\ merged.session \in Maps
         /\ merged.session = Over(extra.session, base.session)
<1>1. base.top \in Maps /\ base.session \in Maps /\ extra.top \in Maps /\ extra.session \in Maps
  BY DEF Contexts
<1>2. Over(extra.top, base.top) \in Maps /\ Over(extra.session, base.session) \in Maps  BY <1>1, OverIsAMap
<1> QED  BY <1>2 DEF MergeContext, Rewritten

(* A session a client names is the one its context holds, else its own.        *)
LEMMA DefaultFills ==
  ASSUME NEW map \in Maps, NEW id \in STRING
  PROVE  In(WithDefault(map, "session_id", id), "session_id") = Or(In(map, "session_id"), id)
<1>1. "session_id" \in DOMAIN map => map["session_id"] # ""  BY MapsAreMaps
<1> QED  BY <1>1 DEF In, WithDefault, Over, Single, Or

LEMMA ClientsSession ==
  ASSUME NEW merged, merged.top \in Maps, merged.session \in Maps, NEW id \in STRING
  PROVE  SessionIdFrom(ClientContext(merged, id))
           = Or(In(merged.session, "session_id"), Or(id, SessionIdFrom(merged)))
<1> DEFINE top == WithDefault(merged.top, "session_id", id)
           session == WithDefault(merged.session, "session_id", id)
<1>1. In(top, "session_id") = Or(In(merged.top, "session_id"), id)  BY DefaultFills
<1>2. In(session, "session_id") = Or(In(merged.session, "session_id"), id)  BY DefaultFills
<1>3. ClientContext(merged, id).top = top /\ ClientContext(merged, id).session = session
  BY DEF ClientContext, Rewritten
<1> HIDE DEF top, session
<1> QED  BY <1>1, <1>2, <1>3 DEF SessionIdFrom, Or

(* The session of a request, and of what is asked next.                        *)
LEMMA SessionIsMerged ==
  ASSUME NEW base \in Contexts, NEW extra \in Contexts
  PROVE  /\ \A k \in DOMAIN base.session \ DOMAIN extra.session :
              RequestContext(MergeContext(base, extra), "fr", "").session[k] = base.session[k]
         /\ \A k \in DOMAIN extra.session : MergeContext(base, extra).session[k] = extra.session[k]
<1> DEFINE merged == MergeContext(base, extra)
<1>1. base.session \in Maps /\ extra.session \in Maps  BY DEF Contexts
<1>2. merged.session = Over(extra.session, base.session)  BY MergedContext
<1> HIDE DEF merged
<1>3. RequestContext(merged, "fr", "").session = merged.session
  BY DEF RequestContext, Rewritten, WithKey
<1>4. /\ \A k \in DOMAIN extra.session : Over(extra.session, base.session)[k] = extra.session[k]
      /\ \A k \in DOMAIN base.session \ DOMAIN extra.session : Over(extra.session, base.session)[k] = base.session[k]
  BY <1>1, OverIsAMap
<1>5. /\ \A k \in DOMAIN base.session \ DOMAIN extra.session : RequestContext(merged, "fr", "").session[k] = base.session[k]
      /\ \A k \in DOMAIN extra.session : merged.session[k] = extra.session[k]
  BY <1>2, <1>3, <1>4
<1> QED  BY <1>5 DEF merged

LEMMA CarriedIsLess ==
  ASSUME NEW previous, NEW session
  PROVE  /\ \A k \in DOMAIN session : Carry(previous, session)[k] = session[k]
         /\ DOMAIN Carry(previous, session) \subseteq Carried \cup DOMAIN session
BY DEF Carry, Over

LEMMA RepliesReturn ==
  ASSUME NEW request, NEW source \in {<<>>, <<"a">>, <<"b">>}, NEW destination \in {<<>>, <<"a">>, <<"b">>},
         source # <<>>, destination # <<>>
  PROVE  ReplyContext(ReplyContext(Routed(request, source, destination))) = Routed(request, source, destination)
<1>1. <<source[1]>> = source /\ <<destination[1]>> = destination  OBVIOUS
<1> DEFINE once == Routed(request, destination, source)
<1>2. ReplyContext(Routed(request, source, destination)) = once
  <2> DEFINE routed == Routed(request, source, destination)
  <2>1. routed.destination = destination /\ routed.source = source
        /\ routed.top = request.top /\ routed.session = request.session
    BY DEF Routed
  <2> HIDE DEF routed
  <2>2. ReplyContext(routed) = Routed(routed, <<destination[1]>>, source)  BY <2>1 DEF ReplyContext
  <2>3. ReplyContext(routed) = Routed(routed, destination, source)  BY <1>1, <2>2
  <2>4. Routed(routed, destination, source) = once  BY <2>1 DEF Routed
  <2> QED  BY <2>3, <2>4 DEF routed
<1>3. ReplyContext(once) = Routed(request, source, destination)
  <2>1. once.destination = source /\ once.source = destination
        /\ once.top = request.top /\ once.session = request.session
    BY DEF Routed
  <2> HIDE DEF once
  <2>2. ReplyContext(once) = Routed(once, <<source[1]>>, destination)  BY <2>1 DEF ReplyContext
  <2>3. ReplyContext(once) = Routed(once, source, destination)  BY <1>1, <2>2
  <2> QED  BY <2>1, <2>3 DEF Routed
<1> QED  BY <1>2, <1>3


(* Every event of a request is taken for it, and none of another request's.    *)
LEMMA OwnEventsMatch ==
  ASSUME NEW request, NEW asked, NEW id \in STRING \ {""}, Carries(request, id), Carries(asked, id), NEW hubSession,
         NEW e \in Echoes(request, hubSession)
  PROVE  MatchesContext(e, request) /\ (RequestIdFrom(e.context) # "" => MatchesContext(e, asked))
<1>1. RequestIdFrom(request) = id /\ RequestIdFrom(asked) = id
  BY DEF RequestIdFrom, RequestIdIn, Or, Carries
<1>2. /\ EventRequestId(e) \in {id, ""}
      /\ RequestIdFrom(e.context) # "" => EventRequestId(e) = RequestIdFrom(e.context)
      /\ EventRequestId(e) = "" => SessionIdFrom(e.context) = ""
  BY EchoesCarry
<1> QED  BY <1>1, <1>2 DEF MatchesContext

LEMMA StrangersDoNot ==
  ASSUME NEW request, NEW id \in STRING \ {""}, Carries(request, id),
         NEW other, NEW stranger \in STRING \ {"", id}, Carries(other, stranger), NEW hubSession,
         NEW e \in Echoes(other, hubSession), EventRequestId(e) # ""
  PROVE  ~MatchesContext(e, request)
<1>1. RequestIdFrom(request) = id  BY DEF RequestIdFrom, RequestIdIn, Or, Carries
<1>2. EventRequestId(e) = stranger
  <2>1. stranger \in STRING \ {""}  OBVIOUS
  <2> QED  BY <2>1, EchoesCarry
<1> QED  BY <1>1, <1>2 DEF MatchesContext

(* A request sent under an id is answered under that id whatever ids its       *)
(* context still held, every event its hub makes of it is taken for it and     *)
(* none of another request's is; its session id is the one given, else the one *)
(* the context held; merging loses no key of the session, what is carried to   *)
(* the next turn never outranks it, and the reply to a reply goes where the    *)
(* message went (events.py:198-452, context.py:78-159, client.py:253-280).     *)
THEOREM RequestsAreCorrelated ==
  \A given \in GivenIds, base, extra \in Contexts, hubSession \in STRING :
    \A stranger \in STRING \ {"", given.request_id} :
       EventsAreCorrelated(given, base, extra, hubSession, stranger)
<1>1. SUFFICES ASSUME NEW given \in GivenIds, NEW base \in Contexts, NEW extra \in Contexts, NEW hubSession \in STRING,
                      NEW stranger \in STRING \ {"", given.request_id}
               PROVE  EventsAreCorrelated(given, base, extra, hubSession, stranger)
  OBVIOUS
<1> DEFINE merged == MergeContext(base, extra)
           request == WithCorrelation(merged, given)
           asked == WithCorrelation(EMPTY, given)
           theirs == [given EXCEPT !.request_id = stranger]
           other == WithCorrelation(merged, theirs)
<1>2. /\ given.session_id \in STRING /\ given.request_id \in STRING
      /\ theirs \in GivenIds /\ theirs.request_id = stranger
  BY DEF GivenIds
<1>3. merged.top \in Maps /\ merged.session \in Maps  BY MergedContext
<1> HIDE DEF merged, theirs
<1>5. /\ In(request.session, "session_id") = Or(given.session_id, In(merged.session, "session_id"))
      /\ In(request.top, "session_id") = In(merged.top, "session_id")
      /\ given.request_id # "" => Carries(request, given.request_id)
  BY SentIds
<1>6. given.request_id # "" => Carries(asked, given.request_id)  BY SentIds
<1>7. Carries(other, stranger)  BY <1>2, SentIds
<1> HIDE DEF request, asked, other
<1>8. given.request_id # "" =>
        /\ RequestIdFrom(request) = given.request_id
        /\ \A e \in Echoes(request, hubSession) :
             MatchesContext(e, request) /\ (RequestIdFrom(e.context) # "" => MatchesContext(e, asked))
        /\ \A e \in Echoes(other, given.session_id) : EventRequestId(e) # "" => ~MatchesContext(e, request)
  <2>1. SUFFICES ASSUME given.request_id # ""
                 PROVE  /\ RequestIdFrom(request) = given.request_id
                        /\ \A e \in Echoes(request, hubSession) :
                             MatchesContext(e, request) /\ (RequestIdFrom(e.context) # "" => MatchesContext(e, asked))
                        /\ \A e \in Echoes(other, given.session_id) : EventRequestId(e) # "" => ~MatchesContext(e, request)
    OBVIOUS
  <2>2. given.request_id \in STRING \ {""} /\ stranger \in STRING \ {"", given.request_id}  BY <1>2, <2>1
  <2>3. Carries(request, given.request_id) /\ Carries(asked, given.request_id)  BY <1>5, <1>6, <2>1
  <2>4. RequestIdFrom(request) = given.request_id  BY <2>2, <2>3 DEF RequestIdFrom, RequestIdIn, Or, Carries
  <2>5. \A e \in Echoes(request, hubSession) :
          MatchesContext(e, request) /\ (RequestIdFrom(e.context) # "" => MatchesContext(e, asked))
    BY <2>2, <2>3, OwnEventsMatch
  <2>6. \A e \in Echoes(other, given.session_id) : EventRequestId(e) # "" => ~MatchesContext(e, request)
    BY <1>7, <2>2, <2>3, StrangersDoNot
  <2> QED  BY <2>4, <2>5, <2>6
<1>9. SessionIdFrom(request) = Or(given.session_id, SessionIdFrom(merged))  BY <1>5 DEF SessionIdFrom, Or
<1>10. SessionIdFrom(ClientContext(merged, given.session_id))
         = Or(In(merged.session, "session_id"), Or(given.session_id, SessionIdFrom(merged)))
  BY <1>2, <1>3, ClientsSession
<1>11. /\ \A k \in DOMAIN base.session \ DOMAIN extra.session :
             RequestContext(merged, "fr", "").session[k] = base.session[k]
       /\ \A k \in DOMAIN extra.session : merged.session[k] = extra.session[k]
  BY SessionIsMerged, Zenon DEF merged
<1>12. /\ \A k \in DOMAIN extra.session : Carry(request.session, extra.session)[k] = extra.session[k]
       /\ DOMAIN Carry(request.session, extra.session) \subseteq Carried \cup DOMAIN extra.session
  BY CarriedIsLess
<1>13. \A source, destination \in {<<>>, <<"a">>, <<"b">>} :
         (destination # <<>> => source # <<>>) =>
            (destination # <<>> => ReplyContext(ReplyContext(Routed(request, source, destination))) = Routed(request, source, destination))
  BY RepliesReturn
<1> QED
  BY <1>8, <1>9, <1>10, <1>11, <1>12, <1>13 DEF EventsAreCorrelated, request, merged, asked, other, theirs

-----------------------------------------------------------------------------
(* The closest of a hub's languages, over any tables and any list of them.     *)
LEMMA DistancesAreNat ==
  ASSUME NEW a, NEW b
  PROVE  LangDistance(a, b) \in Nat /\ LangDistance(a, a) = 0
<1>1. \A x, y : RegionDistance(x, y) \in Nat
  <2> SUFFICES ASSUME NEW x, NEW y PROVE RegionDistance(x, y) \in Nat  OBVIOUS
  <2>1. RegionDistance(x, y) \in {1, 3, 4, 5}  BY DEF RegionDistance
  <2> QED  BY <2>1
<1>2. \A key, otherwise : otherwise \in Nat => At(Distances, key, otherwise) \in Nat
  BY DistancesAre DEF At
<1>3. \A x, y : Apart(x, y) \in Nat
  <2> SUFFICES ASSUME NEW x, NEW y PROVE Apart(x, y) \in Nat  OBVIOUS
  <2> DEFINE l == IF x.language = y.language THEN 0 ELSE At(Distances, <<<<x.language>>, <<y.language>>>>, 80)
             s == IF x.script = y.script THEN 0
                  ELSE At(Distances, <<<<x.language, x.script>>, <<y.language, y.script>>>>, 50)
             r == IF x.region = y.region THEN 0 ELSE RegionDistance(x, y)
  <2>1. l \in Nat  BY <1>2
  <2>2. s \in Nat  BY <1>2
  <2>3. r \in Nat  BY <1>1
  <2>4. Apart(x, y) = l + s + r  BY DEF Apart
  <2> HIDE DEF l, s, r
  <2> QED  BY <2>1, <2>2, <2>3, <2>4
<1>4. \A x : Apart(x, x) = 0  BY DEF Apart
<1> QED  BY <1>3, <1>4 DEF LangDistance

(* The nearest of the first n, the first of those that are as near.            *)
NearestOf(target, available, n, c) ==
  \E i \in 1..n :
    /\ c = available[i]
    /\ \A j \in 1..n :
         /\ LangDistance(target, c) <= LangDistance(target, available[j])
         /\ j < i => LangDistance(target, c) < LangDistance(target, available[j])

LEMMA NearerIsNearest ==
  ASSUME NEW T, NONE \notin T, NEW available \in Seq(T), NEW target, NEW n \in 1..Len(available), NEW c,
         IF n = 1 THEN c = NONE ELSE NearestOf(target, available, n - 1, c)
  PROVE  NearestOf(target, available, n, Nearer(target, c, available[n]))
<1> DEFINE D(x) == LangDistance(target, x)
<1>1. \A x : D(x) \in Nat  BY DistancesAreNat
<1>2. Len(available) \in Nat /\ \A i \in 1..Len(available) : available[i] \in T  OBVIOUS
<1> HIDE DEF D
<1>3. CASE n = 1
  <2>1. Nearer(target, c, available[n]) = available[1]  BY <1>3 DEF Nearer
  <2>2. D(available[1]) <= D(available[1])  BY <1>1
  <2> QED  BY <1>3, <2>1, <2>2 DEF NearestOf, D
<1>4. CASE n # 1
  <2>1. PICK i \in 1..(n - 1) :
          /\ c = available[i]
          /\ \A j \in 1..(n - 1) : D(c) <= D(available[j]) /\ (j < i => D(c) < D(available[j]))
    BY <1>4 DEF NearestOf, D
  <2>2. c # NONE  BY <1>2, <2>1
  <2>3. CASE D(available[n]) < D(c)
    <3>1. Nearer(target, c, available[n]) = available[n]  BY <2>2, <2>3 DEF Nearer, D
    <3>2. \A j \in 1..n : D(available[n]) <= D(available[j]) /\ (j < n => D(available[n]) < D(available[j]))
      <4> SUFFICES ASSUME NEW j \in 1..n
                   PROVE  D(available[n]) <= D(available[j]) /\ (j < n => D(available[n]) < D(available[j]))
        OBVIOUS
      <4>1. CASE j = n  BY <1>1, <4>1
      <4>2. CASE j \in 1..(n - 1)
        <5>1. D(c) <= D(available[j])  BY <2>1, <4>2
        <5> QED  BY <1>1, <2>3, <5>1
      <4> QED  BY <1>2, <4>1, <4>2
    <3>3. n \in 1..n  OBVIOUS
    <3> QED  BY <3>1, <3>2, <3>3 DEF NearestOf, D
  <2>4. CASE ~(D(available[n]) < D(c))
    <3>1. Nearer(target, c, available[n]) = c  BY <2>2, <2>4 DEF Nearer, D
    <3>2. \A j \in 1..n : D(c) <= D(available[j]) /\ (j < i => D(c) < D(available[j]))
      <4> SUFFICES ASSUME NEW j \in 1..n
                   PROVE  D(c) <= D(available[j]) /\ (j < i => D(c) < D(available[j]))
        OBVIOUS
      <4>1. CASE j = n  BY <1>1, <2>1, <2>4, <4>1
      <4>2. CASE j \in 1..(n - 1)  BY <2>1, <4>2
      <4> QED  BY <1>2, <4>1, <4>2
    <3>3. i \in 1..n  BY <2>1
    <3> QED  BY <2>1, <3>1, <3>2, <3>3 DEF NearestOf, D
  <2> QED  BY <2>3, <2>4
<1> QED  BY <1>3, <1>4

(* The loop of closest_lang() is run.                                          *)
ClosestRun(f, T, target, available) ==
  /\ f \in [0..Len(available) -> T \cup {NONE}] /\ f[0] = NONE
  /\ ClosestLang(target, available) = NearEnough(target, f[Len(available)])
  /\ \A n \in 1..Len(available) : f[n] = Nearer(target, f[n - 1], available[n])

LEMMA ClosestRuns ==
  ASSUME NEW T, NEW available \in Seq(T), NEW target
  PROVE  \E f : ClosestRun(f, T, target, available)
<1> DEFINE N == Len(available)
           V == T \cup {NONE}
           Grown(n, v) == Nearer(target, v, available[n])
           Loop(f) == [n \in 0..N |-> IF n = 0 THEN NONE ELSE Grown(n, f[n - 1])]
           F == CHOOSE f : f = Loop(f)
           Turned == [n \in 1..N |-> [v \in V |-> Grown(n, v)]]
<1>1. ClosestLang(target, available) = NearEnough(target, F[N])  BY DEF ClosestLang
<1>2. N \in Nat /\ NONE \in V /\ \A n \in 1..N, v \in V : Grown(n, v) \in V  BY DEF Nearer
<1> HIDE DEF Grown, N, V
<1>3. LoopOver(N, V, NONE, Turned) /\ \A n \in 1..N, v \in V : Turned[n][v] = Grown(n, v)
  BY <1>2 DEF LoopOver
<1> HIDE DEF Turned
<1>4. PICK f : RunsAs(N, V, NONE, Turned, f)  BY <1>3, LoopRuns
<1>5. f = Loop(f)
  <2>1. ASSUME NEW n \in 1..N  PROVE n - 1 \in 0..N /\ f[n] = Grown(n, f[n - 1])
    <3>1. n - 1 \in 0..N  BY <1>2
    <3>2. f[n - 1] \in V /\ f[n] = Turned[n][f[n - 1]]  BY <1>4, <3>1 DEF RunsAs
    <3> QED  BY <1>3, <3>1, <3>2
  <2>2. f = [n \in 0..N |-> f[n]]  BY <1>4 DEF RunsAs
  <2>3. \A n \in 0..N : f[n] = IF n = 0 THEN NONE ELSE Grown(n, f[n - 1])
    BY <1>2, <1>4, <2>1 DEF RunsAs
  <2> QED  BY <2>2, <2>3
<1>6. F = Loop(F)
  <2> HIDE DEF Loop
  <2> QED  BY <1>5
<1> HIDE DEF F
<1>7. /\ F = [n \in 0..N |-> F[n]]
      /\ \A n \in 0..N : F[n] = IF n = 0 THEN NONE ELSE Grown(n, F[n - 1])
  BY <1>6
<1>8. F[0] = NONE /\ \A n \in 1..N : F[n] = Grown(n, F[n - 1])
  <2>1. 0 \in 0..N /\ \A n \in 1..N : n \in 0..N /\ n # 0  BY <1>2
  <2> QED  BY <1>7, <2>1
<1>9. \A n \in 1..N : F[n - 1] \in V => F[n] = Turned[n][F[n - 1]]  BY <1>3, <1>8
<1>10. RunsAs(N, V, NONE, Turned, F)
  <2>1. F = [n \in 0..N |-> F[n]] /\ F[0] = NONE  BY <1>7, <1>8
  <2> QED  BY <1>3, <1>9, <2>1, StepsRun
<1>11. F \in [0..N -> V]  BY <1>10 DEF RunsAs
<1> QED  BY <1>1, <1>8, <1>11 DEF ClosestRun, Grown, N, V

LEMMA ClosestIsNearest ==
  ASSUME NEW T, NONE \notin T, NEW available \in Seq(T), NEW target
  PROVE  \E c : /\ ClosestLang(target, available) = NearEnough(target, c)
                /\ IF available = << >> THEN c = NONE ELSE c \in T /\ NearestOf(target, available, Len(available), c)
<1> DEFINE N == Len(available)
<1>1. PICK f : ClosestRun(f, T, target, available)  BY ClosestRuns
<1>2. N \in Nat /\ (N = 0 => available = << >>) /\ (available = << >> => N = 0)  OBVIOUS
<1> HIDE DEF N
<1> DEFINE Done(n) == IF n = 0 THEN f[n] = NONE ELSE NearestOf(target, available, n, f[n])
           S == {n \in 0..N : Done(n)}
<1>3. 0 \in S  BY <1>1, <1>2 DEF ClosestRun
<1>4. ASSUME NEW n \in 1..N, n - 1 \in S  PROVE n \in S
  <2>1. Done(n - 1)  BY <1>4
  <2>2. IF n = 1 THEN f[n - 1] = NONE ELSE NearestOf(target, available, n - 1, f[n - 1])  BY <1>2, <2>1
  <2>3. f[n] = Nearer(target, f[n - 1], available[n])  BY <1>1 DEF ClosestRun, N
  <2>4. NearestOf(target, available, n, Nearer(target, f[n - 1], available[n]))
    BY <2>2, NearerIsNearest DEF N
  <2> QED  BY <1>2, <2>3, <2>4
<1>5. Done(N)
  <2> HIDE DEF Done
  <2>1. \A n \in 0..N : n \in S
    <3> HIDE DEF S
    <3> QED  BY <1>2, <1>3, <1>4, EachStep
  <2> QED  BY <1>2, <2>1
<1>6. f[N] \in T \cup {NONE} /\ ClosestLang(target, available) = NearEnough(target, f[N])
  BY <1>1, <1>2 DEF ClosestRun, N
<1>7. N # 0 => f[N] \in T
  BY <1>2, <1>5 DEF NearestOf, N
<1> QED  BY <1>2, <1>5, <1>6, <1>7 DEF N

(* Whatever the tables say of languages, the language chosen of a hub's is the *)
(* first of the nearest, near enough, and none is chosen only where none is;   *)
(* a language the hub has is found (_language.py:107-166).                     *)
THEOREM ClosestIsFound ==
  \A T : NONE \notin T => \A target \in T, available \in Seq(T) : ClosestIsClosest(target, available)
<1> SUFFICES ASSUME NEW T, NONE \notin T, NEW target \in T, NEW available \in Seq(T)
             PROVE  ClosestIsClosest(target, available)
  OBVIOUS
<1> DEFINE found == ClosestLang(target, available)
           near == [c \in Range(available) |-> LangDistance(target, c)]
           N == Len(available)
<1>1. /\ N \in Nat /\ DOMAIN available = 1..N
      /\ Range(available) = {available[j] : j \in 1..N}
      /\ \A j \in 1..N : available[j] \in Range(available) /\ near[available[j]] = LangDistance(target, available[j])
  BY DEF Range
<1>2. PICK c : /\ found = NearEnough(target, c)
               /\ IF available = << >> THEN c = NONE ELSE c \in T /\ NearestOf(target, available, N, c)
  BY ClosestIsNearest
<1>3. \A x, y : LangDistance(x, y) \in Nat /\ LangDistance(x, x) = 0  BY DistancesAreNat
<1>4. MaxDistance = 10  BY DEF MaxDistance
<1> HIDE DEF found, near, N
<1>5. CASE available = << >>
  <2>1. N = 0 /\ found = NONE  BY <1>2, <1>5 DEF NearEnough, N
  <2>2. 1..N = {}  BY <2>1
  <2> QED  BY <1>1, <2>1, <2>2 DEF ClosestIsClosest, found, near
<1>6. CASE available # << >>
  <2>1. c # NONE /\ NearestOf(target, available, N, c)  BY <1>2, <1>6
  <2>2. PICK i \in 1..N :
          /\ c = available[i]
          /\ \A j \in 1..N :
               /\ LangDistance(target, c) <= LangDistance(target, available[j])
               /\ j < i => LangDistance(target, c) < LangDistance(target, available[j])
    BY <2>1 DEF NearestOf
  <2>3. found = IF LangDistance(target, c) > MaxDistance THEN NONE ELSE c  BY <1>2, <2>1 DEF NearEnough
  <2>4. found # NONE => \E k \in DOMAIN available :
          /\ available[k] = found /\ near[found] <= MaxDistance
          /\ \A j \in DOMAIN available : near[found] <= near[available[j]] /\ (j < k => near[found] < near[available[j]])
    <3> SUFFICES ASSUME found # NONE
                 PROVE  /\ available[i] = found /\ near[found] <= MaxDistance
                        /\ \A j \in 1..N : near[found] <= near[available[j]] /\ (j < i => near[found] < near[available[j]])
      BY <1>1, <2>2
    <3>1. found = c /\ ~(LangDistance(target, c) > MaxDistance)  BY <2>3
    <3>2. near[found] = LangDistance(target, c)  BY <1>1, <2>2, <3>1
    <3>3. near[found] <= MaxDistance  BY <1>3, <1>4, <3>1, <3>2
    <3> QED  BY <1>1, <2>2, <3>1, <3>2, <3>3
  <2>5. found = NONE => \A j \in DOMAIN available : near[available[j]] > MaxDistance
    <3> SUFFICES ASSUME found = NONE, NEW j \in 1..N PROVE near[available[j]] > MaxDistance  BY <1>1
    <3>1. LangDistance(target, c) > MaxDistance  BY <2>1, <2>3
    <3>2. LangDistance(target, c) <= LangDistance(target, available[j])  BY <2>2
    <3>3. near[available[j]] = LangDistance(target, available[j])  BY <1>1
    <3> QED  BY <1>3, <1>4, <3>1, <3>2, <3>3
  <2>6. target \in Range(available) => found # NONE /\ near[found] = 0
    <3> SUFFICES ASSUME target \in Range(available) PROVE found # NONE /\ near[found] = 0  OBVIOUS
    <3>1. PICK j \in 1..N : available[j] = target  BY <1>1
    <3>2. LangDistance(target, c) <= 0  BY <1>3, <2>2, <3>1
    <3>3. LangDistance(target, c) = 0  BY <1>3, <3>2
    <3>4. found = c  BY <1>4, <2>3, <3>3
    <3> QED  BY <1>1, <2>1, <2>2, <3>3, <3>4
  <2> QED  BY <2>4, <2>5, <2>6 DEF ClosestIsClosest, found, near
<1> QED  BY <1>5, <1>6
=============================================================================
