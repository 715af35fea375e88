----------------------------- MODULE Sessions_proofs -----------------------------
(* The sessions of threads and of asyncio, the answers to home requests and the *)
(* choice of an origin, for any number of threads, tasks, requests and clients. *)
EXTENDS MCSession, FiniteSetTheorems, SequenceTheorems, TLAPS

-----------------------------------------------------------------------------
(* OriginPreference: what is open is dialled or kept, and the wrapper belongs   *)
(* to the one that holds the lock and dials a LAN address.                      *)
OriginTables ==
  /\ dialling \in [Preferences -> {"idle", "lan", "public"}] /\ left \in [Preferences -> BOOLEAN]
  /\ open \in [Preferences -> Nat] /\ quiet \in [Preferences -> BOOLEAN]
LeftIsIdle == \A p \in Preferences : left[p] => dialling[p] = "idle"
WrapperIsTheDials ==
  /\ resolver \in Preferences \cup {Nowhere} /\ resolverLock = resolver
  /\ \A p \in Preferences : dialling[p] = "lan" <=> resolver = p
OriginInv == OriginTables /\ LeftIsIdle /\ WrapperIsTheDials /\ OneAttempt

LEMMA OriginInitial == OriginInit => OriginInv
BY OriginShape DEF OriginInit, OriginInv, OriginTables, LeftIsIdle, WrapperIsTheDials, OneAttempt

LEMMA OriginKeeps ==
  ASSUME OriginInv, [OriginNext]_originVars
  PROVE  OriginInv'
<1> USE OriginShape DEF OriginInv, OriginTables, LeftIsIdle, WrapperIsTheDials, OneAttempt
<1>1. ASSUME NEW p \in Preferences, ConnectRaises(p) \/ CoolsDown(p)
      PROVE  OriginInv'
  BY <1>1 DEF ConnectRaises, CoolsDown
<1>2. ASSUME NEW p \in Preferences, ConnectFirst(p)
      PROVE  OriginInv'
  <2>1. dialling[p] = "idle" /\ left' = [left EXCEPT ![p] = FALSE] /\ quiet' = quiet /\ open[p] = IF left[p] THEN 1 ELSE 0
    BY <1>2 DEF ConnectFirst
  <2>2. open' = [open EXCEPT ![p] = (IF left[p] THEN @ - 1 ELSE @) + 1]  BY <1>2 DEF ConnectFirst
  <2>3. open' = [open EXCEPT ![p] = 1]  BY <2>1, <2>2
  <2>4. CASE dialling' = [dialling EXCEPT ![p] = "public"] /\ UNCHANGED <<resolver, resolverLock>>
    BY <2>1, <2>3, <2>4
  <2>5. CASE dialling' = [dialling EXCEPT ![p] = "lan"] /\ TakesLock(p) /\ resolver' = p
    BY <2>1, <2>3, <2>5 DEF TakesLock
  <2> QED  BY <1>2, <2>4, <2>5 DEF ConnectFirst, Dial
<1>3. ASSUME NEW p \in Preferences, Answers(p)
      PROVE  OriginInv'
  <2>1. dialling' = [dialling EXCEPT ![p] = "idle"] /\ open' = [open EXCEPT ![p] = @ - 1] /\ left' = left
        /\ open[p] = 1 /\ ~left[p]
    BY <1>3 DEF Answers
  <2>2. open' = [open EXCEPT ![p] = 0]  BY <2>1
  <2>3. CASE dialling[p] = "lan" /\ Restores(p) /\ quiet' = [quiet EXCEPT ![p] = FALSE]
    BY <2>1, <2>2, <2>3 DEF Restores
  <2>4. CASE dialling[p] = "public" /\ UNCHANGED <<resolver, resolverLock, quiet>>
    BY <2>1, <2>2, <2>4
  <2> QED  BY <1>3, <2>3, <2>4 DEF Answers
<1>4. ASSUME NEW p \in Preferences, LanFails(p)
      PROVE  OriginInv'
  <2>1. dialling[p] = "lan" /\ resolver = p /\ resolver' = Nowhere /\ resolverLock' = Nowhere /\ open' = open
        /\ ~left[p] /\ \A q \in Preferences \ {p} : dialling[q] # "lan"
    BY <1>4 DEF LanFails, Restores
  <2>2. CASE dialling' = [dialling EXCEPT ![p] = "public"] /\ left' = left /\ quiet' = [quiet EXCEPT ![p] = TRUE]
    BY <2>1, <2>2
  <2>3. CASE dialling' = [dialling EXCEPT ![p] = "idle"] /\ Kept(p) /\ quiet' = quiet
    BY <2>1, <2>3 DEF Kept
  <2> QED  BY <1>4, <2>2, <2>3 DEF LanFails, Dial
<1>5. ASSUME NEW p \in Preferences, PublicFails(p)
      PROVE  OriginInv'
  <2>1. dialling[p] = "public" /\ dialling' = [dialling EXCEPT ![p] = "idle"] /\ open[p] = 1 /\ ~left[p]
        /\ UNCHANGED <<quiet, resolver, resolverLock>>
    BY <1>5 DEF PublicFails
  <2>2. CASE open' = [open EXCEPT ![p] = @ - 1] /\ left' = left
    <3>1. open' = [open EXCEPT ![p] = 0]  BY <2>1, <2>2
    <3> QED  BY <2>1, <2>2, <3>1
  <2>3. CASE left' = [left EXCEPT ![p] = TRUE] /\ open' = open
    BY <2>1, <2>3
  <2> QED  BY <1>5, <2>2, <2>3 DEF PublicFails, Kept
<1>6. ASSUME NEW p \in Preferences, CloseLeft(p)
      PROVE  OriginInv'
  BY <1>6 DEF CloseLeft, Cleaned
<1>7. CASE UNCHANGED originVars
  BY <1>7 DEF originVars
<1> QED  BY <1>1, <1>2, <1>3, <1>4, <1>5, <1>6, <1>7 DEF OriginNext

(* No attempt is forgotten, and the resolver is the system's own whenever no   *)
(* LAN address is dialled.                                                     *)
LEMMA OriginIsRight == OriginInv => OneAttempt /\ ResolverRestored
BY OriginShape DEF OriginInv, WrapperIsTheDials, ResolverRestored

-----------------------------------------------------------------------------
(* HomeLink: the slots count the threads; no request grows old while the       *)
(* channel is free; after unsubscribe() none is in hand.                       *)
Running == {r \in Requests : thread[r] = "runs"}
HomeStages == {"new", "starts", "handles", "queued", "writes", "sent", "silent", "cancelled"}
Replies == {"nothing", "answer", "timeout", "failed"}
HomeTables ==
  /\ stage \in [Requests -> HomeStages] /\ thread \in [Requests -> {"none", "runs", "returned"}]
  /\ age \in [Requests -> Nat] /\ saying \in [Requests -> Replies] /\ taken \in Nat
SlotsCount == IsFiniteSet(Running) /\ taken = Cardinality(Running) /\ taken <= Slots
NobodyGrowsOld ==
  /\ ~jammed => ~lane /\ \A r \in Requests : age[r] <= Timeout /\ stage[r] # "silent"
OffIsQuiet == off => \A r \in Requests : stage[r] \notin {"starts", "handles", "queued"}
StartsHasNone == \A r \in Requests : stage[r] \in {"new", "starts"} => thread[r] = "none"
HomeInv == HomeTables /\ SlotsCount /\ NobodyGrowsOld /\ OffIsQuiet /\ StartsHasNone

LEMMA HomeInitial == HomeInit => HomeInv
<1> SUFFICES ASSUME HomeInit PROVE HomeInv  OBVIOUS
<1>1. Running = {}  BY DEF HomeInit, Running
<1>2. SlotsCount  BY <1>1, FS_EmptySet, HomeShape DEF SlotsCount, HomeInit
<1>3. HomeTables  BY DEF HomeInit, HomeTables, HomeStages, Replies
<1>4. NobodyGrowsOld /\ OffIsQuiet /\ StartsHasNone
  BY HomeShape DEF HomeInit, NobodyGrowsOld, OffIsQuiet, StartsHasNone
<1> QED  BY <1>2, <1>3, <1>4 DEF HomeInv

(* What a step does to the threads, and what follows for the slots.            *)
LEMMA ThreadsCounted ==
  ASSUME HomeInv, NEW r \in Requests,
         \/ UNCHANGED <<thread, taken>>
         \/ thread[r] # "runs" /\ taken < Slots /\ taken' = taken + 1 /\ thread' = [thread EXCEPT ![r] = "runs"]
         \/ thread[r] = "runs" /\ taken' = taken - 1 /\ thread' = [thread EXCEPT ![r] = "returned"]
  PROVE  SlotsCount' /\ thread' \in [Requests -> {"none", "runs", "returned"}] /\ taken' \in Nat
<1>1. /\ IsFiniteSet(Running) /\ taken = Cardinality(Running) /\ taken <= Slots /\ taken \in Nat
      /\ thread \in [Requests -> {"none", "runs", "returned"}] /\ Slots \in Nat
  BY HomeShape DEF HomeInv, HomeTables, SlotsCount
<1>2. CASE UNCHANGED <<thread, taken>>
  BY <1>1, <1>2 DEF SlotsCount, Running
<1>3. CASE thread[r] # "runs" /\ taken < Slots /\ taken' = taken + 1 /\ thread' = [thread EXCEPT ![r] = "runs"]
  <2>1. Running' = Running \cup {r} /\ r \notin Running  BY <1>1, <1>3 DEF Running
  <2>2. IsFiniteSet(Running') /\ Cardinality(Running') = taken + 1  BY <1>1, <2>1, FS_AddElement
  <2>3. taken' \in Nat /\ taken' <= Slots /\ taken' = Cardinality(Running')  BY <1>1, <1>3, <2>2
  <2>4. thread' \in [Requests -> {"none", "runs", "returned"}]  BY <1>1, <1>3
  <2> QED  BY <2>2, <2>3, <2>4 DEF SlotsCount
<1>4. CASE thread[r] = "runs" /\ taken' = taken - 1 /\ thread' = [thread EXCEPT ![r] = "returned"]
  <2>1. Running' = Running \ {r} /\ r \in Running  BY <1>1, <1>4 DEF Running
  <2>2. IsFiniteSet(Running') /\ Cardinality(Running') = taken - 1  BY <1>1, <2>1, FS_RemoveElement
  <2>3. taken' \in Nat  BY <1>4, <2>2, FS_CardinalityType
  <2>4. taken' <= Slots  BY <1>1, <1>4
  <2>5. thread' \in [Requests -> {"none", "runs", "returned"}]  BY <1>1, <1>4
  <2>6. taken' = Cardinality(Running')  BY <1>4, <2>2
  <2> QED  BY <2>2, <2>3, <2>4, <2>5, <2>6 DEF SlotsCount
<1> QED  BY <1>2, <1>3, <1>4

(* A step of one request: its thread, its stage, and nobody's age.             *)
LEMMA RequestKeeps ==
  ASSUME HomeInv, NEW r \in Requests, UNCHANGED <<age, off, lane, jammed>>, saying' \in [Requests -> Replies],
         NEW s \in HomeStages, Stage(r, s) \/ (s = stage[r] /\ stage' = stage),
         s = "silent" => jammed,
         off => s \notin {"starts", "handles", "queued"},
         s \in {"new", "starts"} => thread'[r] = "none",
         \/ UNCHANGED <<thread, taken>>
         \/ thread[r] # "runs" /\ taken < Slots /\ taken' = taken + 1 /\ thread' = [thread EXCEPT ![r] = "runs"]
         \/ thread[r] = "runs" /\ taken' = taken - 1 /\ thread' = [thread EXCEPT ![r] = "returned"]
  PROVE  HomeInv'
<1>1. stage' = [stage EXCEPT ![r] = s]  BY DEF Stage, HomeInv, HomeTables
<1>2. SlotsCount' /\ thread' \in [Requests -> {"none", "runs", "returned"}] /\ taken' \in Nat  BY ThreadsCounted
<1>3. stage' \in [Requests -> HomeStages] /\ \A q \in Requests : stage'[q] = IF q = r THEN s ELSE stage[q]
  BY <1>1 DEF HomeInv, HomeTables
<1>4. \A q \in Requests : q # r => thread'[q] = thread[q]  BY DEF HomeInv, HomeTables
<1>5. HomeTables'  BY <1>2, <1>3 DEF HomeInv, HomeTables
<1>6. NobodyGrowsOld'  BY <1>3 DEF HomeInv, NobodyGrowsOld
<1>7. OffIsQuiet'  BY <1>3 DEF HomeInv, OffIsQuiet
<1>8. StartsHasNone'  BY <1>3, <1>4 DEF HomeInv, StartsHasNone
<1> QED  BY <1>2, <1>5, <1>6, <1>7, <1>8 DEF HomeInv

LEMMA HomeKeeps ==
  ASSUME HomeInv, [HomeNext]_homeVars
  PROVE  HomeInv'
<1> USE DEF HomeInv, HomeStages, Replies
<1>1. ASSUME NEW r \in Requests, NEW what \in Replies, Says(r, what)
      PROVE  Stage(r, "queued") /\ saying' \in [Requests -> Replies]
  BY <1>1 DEF Says, HomeTables
<1>2. ASSUME NEW r \in Requests, Arrives(r) \/ BeginsWriting(r) \/ Written(r) \/ Withdrawn(r)
      PROVE  HomeInv'
  <2>1. UNCHANGED <<age, thread, taken, saying, off, lane, jammed>>
    BY <1>2 DEF Arrives, BeginsWriting, Written, Withdrawn
  <2>2. \/ Stage(r, "starts") /\ ~off /\ thread[r] = "none"
        \/ Stage(r, "writes") \/ Stage(r, "sent")
        \/ Stage(r, "silent") /\ age[r] >= Bound
    BY <1>2 DEF Arrives, BeginsWriting, Written, Withdrawn, Withdraws, StartsHasNone
  <2>3. Stage(r, "silent") /\ age[r] >= Bound => jammed
    BY HomeShape DEF NobodyGrowsOld, HomeTables
  <2> QED  BY <2>1, <2>2, <2>3, RequestKeeps DEF HomeTables
<1>3. ASSUME NEW r \in Requests, Starts(r)
      PROVE  HomeInv'
  <2>1. UNCHANGED <<age, off, lane, jammed>> /\ stage[r] = "starts" /\ thread[r] = "none" /\ ~off
    BY <1>3 DEF Starts, StartsHasNone, OffIsQuiet
  <2>2. CASE Stage(r, "handles") /\ UNCHANGED <<thread, taken, saying>>
    BY <2>1, <2>2, RequestKeeps DEF HomeTables
  <2>3. CASE taken < Slots /\ taken' = taken + 1 /\ thread' = [thread EXCEPT ![r] = "runs"] /\ Stage(r, "handles")
             /\ UNCHANGED saying
    BY <2>1, <2>3, RequestKeeps DEF HomeTables
  <2>4. CASE Says(r, "timeout") /\ UNCHANGED <<thread, taken>>
    BY <1>1, <2>1, <2>4, RequestKeeps
  <2> QED  BY <1>3, <2>2, <2>3, <2>4 DEF Starts, Busy
<1>4. ASSUME NEW r \in Requests, ThreadReturns(r)
      PROVE  HomeInv'
  <2>1. /\ UNCHANGED <<stage, age, saying, off, lane, jammed>> /\ thread[r] = "runs" /\ taken' = taken - 1
        /\ thread' = [thread EXCEPT ![r] = "returned"]
    BY <1>4 DEF ThreadReturns
  <2>2. stage[r] \notin {"new", "starts"}  BY <2>1 DEF StartsHasNone
  <2>3. (stage[r] = "silent" => jammed) /\ (off => stage[r] \notin {"starts", "handles", "queued"})
    BY DEF NobodyGrowsOld, OffIsQuiet
  <2> QED  BY <2>1, <2>2, <2>3, RequestKeeps DEF HomeTables
<1>5. ASSUME NEW r \in Requests, Handled(r) \/ HandlerTimeout(r)
      PROVE  HomeInv'
  <2>1. UNCHANGED <<age, thread, taken, off, lane, jammed>> /\ ~off
    BY <1>5 DEF Handled, HandlerTimeout, GivesUp, OffIsQuiet
  <2>2. PICK what \in Replies : Says(r, what)  BY <1>5 DEF Handled, HandlerTimeout, GivesUp
  <2> QED  BY <1>1, <2>1, <2>2, RequestKeeps
<1>6. CASE Unsubscribe
  <2>1. UNCHANGED <<age, thread, taken, saying, lane, jammed>> /\ off' = TRUE  BY <1>6 DEF Unsubscribe
  <2>2. stage' = [r \in Requests |-> IF stage[r] \in {"starts", "handles", "queued"} THEN "cancelled" ELSE stage[r]]
    BY <1>6 DEF Unsubscribe, CancelsTasks
  <2>3. HomeTables'  BY <2>1, <2>2 DEF HomeTables
  <2>4. SlotsCount'  BY <2>1 DEF SlotsCount, Running
  <2>5. NobodyGrowsOld' /\ OffIsQuiet' /\ StartsHasNone'
    BY <2>1, <2>2 DEF NobodyGrowsOld, OffIsQuiet, StartsHasNone
  <2> QED  BY <2>3, <2>4, <2>5
<1>7. CASE Jam \/ Clear
  <2>1. UNCHANGED <<stage, age, thread, taken, saying, off>> /\ (jammed' \/ (jammed' = jammed /\ lane))
    BY <1>7 DEF Jam, Clear
  <2> QED  BY <2>1 DEF HomeTables, SlotsCount, Running, NobodyGrowsOld, OffIsQuiet, StartsHasNone
<1>8. CASE Tick
  <2>1. UNCHANGED <<stage, thread, taken, saying, off, lane, jammed>>
        /\ age' = [r \in Requests |-> IF r \in Waiting THEN age[r] + 1 ELSE age[r]]
    BY <1>8 DEF Tick
  <2>2. ASSUME ~jammed, NEW r \in Requests
        PROVE  age'[r] <= Timeout
    <3>1. age[r] \in Nat /\ age[r] <= Timeout /\ ~lane /\ Timeout \in Nat  BY <2>2, HomeShape DEF NobodyGrowsOld, HomeTables
    <3>2. CASE r \in Waiting
      <4>1. stage[r] = "handles" /\ ~(age[r] >= Timeout)
        BY <1>8, <3>1, <3>2 DEF Tick, Due, Waiting, HandlerTime
      <4> QED  BY <2>1, <3>1, <4>1
    <3>3. CASE r \notin Waiting  BY <2>1, <3>1, <3>3
    <3> QED  BY <3>2, <3>3
  <2>3. NobodyGrowsOld'  BY <2>1, <2>2 DEF NobodyGrowsOld
  <2>4. HomeTables'  BY <2>1 DEF HomeTables
  <2> QED  BY <2>1, <2>3, <2>4 DEF SlotsCount, Running, OffIsQuiet, StartsHasNone
<1>9. CASE UNCHANGED homeVars
  BY <1>9 DEF homeVars, HomeTables, SlotsCount, Running, NobodyGrowsOld, OffIsQuiet, StartsHasNone
<1> QED  BY <1>2, <1>3, <1>4, <1>5, <1>6, <1>7, <1>8, <1>9 DEF HomeNext, LoopStep

LEMMA HomeIsRight == HomeInv => StuckHandlersAreBounded
BY DEF HomeInv, SlotsCount, NobodyGrowsOld, StuckHandlersAreBounded, SlotsAreThreads, StuckHandlersSilenceNothing, Running

(* "timeout" is said of a handler that had its time or found the threads full. *)
LEMMA TimeoutSaidTruly ==
  ASSUME HomeInv, [HomeNext]_homeVars, NEW r \in Requests, saying[r] = "nothing", saying'[r] = "timeout"
  PROVE  age[r] >= Timeout \/ Cardinality({q \in Requests : thread[q] = "runs"}) >= Slots
<1>1. saying \in [Requests -> Replies] /\ taken = Cardinality(Running)  BY DEF HomeInv, HomeTables, SlotsCount
<1>2. ASSUME NEW q \in Requests, Starts(q)
      PROVE  taken = Slots
  BY <1>1, <1>2 DEF Starts, Busy
<1>3. ASSUME NEW q \in Requests, HandlerTimeout(q)
      PROVE  age[r] >= Timeout
  <2>1. saying' = [saying EXCEPT ![q] = "timeout"] /\ age[q] >= Timeout
    BY <1>3 DEF HandlerTimeout, GivesUp, Says, HandlerTime
  <2> QED  BY <1>1, <2>1
<1>4. ASSUME NEW q \in Requests, Handled(q)
      PROVE  FALSE
  BY <1>1, <1>4 DEF Handled, Says
<1>5. ASSUME UNCHANGED saying
      PROVE  FALSE
  BY <1>5
<1>6. taken = Slots => Cardinality(Running) >= Slots  BY <1>1, HomeShape
<1> QED
  BY <1>2, <1>3, <1>4, <1>5, <1>6 DEF HomeNext, LoopStep, Arrives, ThreadReturns, BeginsWriting, Written, Withdrawn,
     Unsubscribe, Jam, Clear, Tick, homeVars, Running

LEMMA QuietOnceOff ==
  ASSUME HomeInv, [HomeNext]_homeVars, off, NEW r \in Requests
  PROVE  (stage'[r] = "writes" => stage[r] = "writes") /\ (thread'[r] = "runs" => thread[r] = "runs")
<1>1. \A q \in Requests : stage[q] \notin {"starts", "handles", "queued"}  BY DEF HomeInv, OffIsQuiet
<1>2. HomeTables  BY DEF HomeInv
<1>3. ASSUME NEW q \in Requests, Arrives(q) \/ Handled(q) \/ Starts(q) \/ HandlerTimeout(q) \/ BeginsWriting(q)
      PROVE  FALSE
  BY <1>1, <1>3 DEF Arrives, Handled, Starts, HandlerTimeout, BeginsWriting
<1>4. ASSUME NEW q \in Requests, ThreadReturns(q) \/ Written(q) \/ Withdrawn(q)
      PROVE  /\ stage'[r] = "writes" => stage[r] = "writes"
             /\ thread'[r] = "runs" => thread[r] = "runs"
  BY <1>2, <1>4 DEF ThreadReturns, Written, Withdrawn, Withdraws, Stage, HomeTables
<1>5. CASE Unsubscribe \/ Jam \/ Clear \/ Tick \/ UNCHANGED homeVars
  BY <1>2, <1>5 DEF Unsubscribe, CancelsTasks, Jam, Clear, Tick, homeVars, HomeTables
<1> QED  BY <1>3, <1>4, <1>5 DEF HomeNext, LoopStep

-----------------------------------------------------------------------------
(* HubSession.  What is not closed is held or retired, never both; whoever     *)
(* works holds _busy, and whoever dials the lock too, over an empty session.   *)
SessionTables ==
  /\ held \in Ids \cup {NoClient} /\ retired \in Ids \cup {NoClient}
  /\ status \in [Ids -> {"unbuilt", "live", "dead", "closed"}] /\ wired \in [Ids -> SUBSET Events]
  /\ doing \in [Workers -> {"idle", "waits", "stale", "ensure", "dials", "calls", "over"}]
  /\ using \in [Workers -> Ids \cup {NoClient}] /\ subscribed \subseteq Events
HeldOrRetired ==
  /\ Standing \subseteq {held, retired}
  /\ held # NoClient => retired = NoClient /\ status[held] \in {"live", "dead"}
WorksAlone ==
  \A t \in Workers : /\ doing[t] \in {"stale", "ensure", "dials", "calls"} => busy = t
                     /\ doing[t] = "stale" => held # NoClient
DialsAlone ==
  \A t \in Workers : doing[t] = "dials" => lock = t /\ held = NoClient /\ retired = NoClient /\ ~shut
CallsTheHeld ==
  \A t \in Workers : /\ using[t] # NoClient => doing[t] = "calls"
                     /\ doing[t] = "calls" => using[t] = held /\ held # NoClient
ShutIsEmpty == (closer # "never" => shut) /\ (closer = "done" => held = NoClient /\ retired = NoClient)
WarmsOnce == warming \/ doing[Warm] = "idle"
SessionInv == /\ SessionTables /\ HeldOrRetired /\ WorksAlone /\ DialsAlone /\ CallsTheHeld /\ Carries /\ ShutIsEmpty
              /\ WarmsOnce

LEMMA SessionInitial == SessionInit => SessionInv
<1> SUFFICES ASSUME SessionInit PROVE SessionInv  OBVIOUS
<1> USE DEF SessionInit
<1>1. SessionTables  BY DEF SessionTables
<1>2. HeldOrRetired /\ Carries /\ ShutIsEmpty  BY DEF HeldOrRetired, Standing, Carries, ShutIsEmpty
<1>3. WorksAlone /\ DialsAlone /\ CallsTheHeld /\ WarmsOnce
  BY DEF WorksAlone, DialsAlone, CallsTheHeld, WarmsOnce, Workers
<1> QED  BY <1>1, <1>2, <1>3 DEF SessionInv

(* The client that is there is closed, or cannot be and is kept.               *)
LEMMA CleansTheOne ==
  ASSUME SessionInv, NEW c, c = (IF held = NoClient THEN retired ELSE held), Closes(c) \/ CloseRaises(c), held' = NoClient
  PROVE  /\ retired' \in Ids \cup {NoClient} /\ status' \in [Ids -> {"unbuilt", "live", "dead", "closed"}]
         /\ HeldOrRetired' /\ (Closes(c) => retired' = NoClient)
<1>1. SessionTables /\ HeldOrRetired /\ NoClient \notin Ids  BY DEF SessionInv, Ids, NoClient
<1>2. Standing \subseteq {c}  BY <1>1 DEF HeldOrRetired, Standing
<1>3. CASE Closes(c)
  <2>1. retired' = NoClient /\ status' \in [Ids -> {"unbuilt", "live", "dead", "closed"}]
    BY <1>1, <1>3 DEF Closes, SessionTables
  <2>2. Standing' = {}  BY <1>1, <1>2, <1>3 DEF Closes, SessionTables, Standing
  <2> QED  BY <2>1, <2>2 DEF HeldOrRetired
<1>4. CASE CloseRaises(c)
  <2>1. retired' = c /\ status' = status /\ Standing' = Standing  BY <1>4 DEF CloseRaises, Standing
  <2> QED  BY <1>1, <1>2, <1>4, <2>1 DEF CloseRaises, HeldOrRetired, SessionTables, Closes
<1> QED  BY <1>3, <1>4

(* Where the workers are, after one of them moves and keeps or leaves _busy.   *)
LEMMA WorkerMoves ==
  ASSUME SessionInv, NEW t \in Workers, busy = t,
         NEW s \in {"idle", "ensure", "dials", "calls", "over"}, doing' = [doing EXCEPT ![t] = s],
         NEW u \in Ids \cup {NoClient}, using' = [using EXCEPT ![t] = u],
         s \in {"ensure", "dials", "calls"} => busy' = t,
         u # NoClient <=> s = "calls", s = "calls" => u = held',
         s = "dials" => lock' = t /\ held' = NoClient /\ retired' = NoClient /\ ~shut'
  PROVE  /\ WorksAlone' /\ DialsAlone' /\ CallsTheHeld'
         /\ doing' \in [Workers -> {"idle", "waits", "stale", "ensure", "dials", "calls", "over"}]
         /\ using' \in [Workers -> Ids \cup {NoClient}]
<1>1. SessionTables  BY DEF SessionInv
<1>2. \A w \in Workers : w # t => /\ doing'[w] = doing[w] /\ using'[w] = using[w]
                                  /\ doing[w] \notin {"stale", "ensure", "dials", "calls"} /\ using[w] = NoClient
  BY <1>1 DEF SessionInv, SessionTables, WorksAlone, CallsTheHeld
<1>3. doing'[t] = s /\ using'[t] = u  BY <1>1 DEF SessionTables
<1>4. WorksAlone'  BY <1>2, <1>3 DEF WorksAlone
<1>5. DialsAlone'  BY <1>2, <1>3 DEF DialsAlone
<1>6. CallsTheHeld'  BY <1>2, <1>3 DEF CallsTheHeld
<1> QED  BY <1>1, <1>4, <1>5, <1>6 DEF SessionTables

(* Nobody works: whatever happens to the held client disturbs no worker.       *)
LEMMA NobodyWorks ==
  ASSUME SessionInv, busy = Free, UNCHANGED <<doing, using>>
  PROVE  WorksAlone' /\ DialsAlone' /\ CallsTheHeld'
<1>1. \A w \in Workers : doing[w] \notin {"stale", "ensure", "dials", "calls"} /\ using[w] = NoClient
  BY SessionShape DEF SessionInv, WorksAlone, CallsTheHeld
<1> QED  BY <1>1 DEF WorksAlone, DialsAlone, CallsTheHeld

(* The worker that has finished or raised.                                     *)
LEMMA LeavingKeeps ==
  ASSUME SessionInv, NEW t \in Workers, busy = t, Leaves(t)
  PROVE  /\ WorksAlone' /\ DialsAlone' /\ CallsTheHeld' /\ WarmsOnce'
         /\ doing' \in [Workers -> {"idle", "waits", "stale", "ensure", "dials", "calls", "over"}]
         /\ using' \in [Workers -> Ids \cup {NoClient}]
<1>1. doing' = [doing EXCEPT ![t] = IF t = Warm THEN "idle" ELSE "over"] /\ using' = [using EXCEPT ![t] = NoClient]
  BY DEF Leaves, Do
<1>2. WarmsOnce'
  BY <1>1 DEF Leaves, SessionInv, WarmsOnce, SessionTables, Workers
<1> QED  BY <1>1, <1>2, WorkerMoves

(* One that goes on, when it is not warm() that comes back.                    *)
LEMMA GoingOnKeepsWarm ==
  ASSUME SessionInv, NEW t \in Workers, doing[t] # "idle", NEW s, Do(t, s), UNCHANGED warming
  PROVE  WarmsOnce'
BY DEF SessionInv, WarmsOnce, SessionTables, Do, Workers

LEMMA WaitingKeeps ==
  ASSUME SessionInv, NEW t \in Workers, BeginCall(t) \/ (t = Warm /\ StartWarm) \/ Admit(t)
  PROVE  SessionInv'
<1>1. UNCHANGED <<held, retired, shut, cooling, subscribed, status, wired, lock, using, closer, closeFailures>>
  BY DEF BeginCall, StartWarm, Admit
<1>2. SessionTables /\ HeldOrRetired /\ WorksAlone /\ DialsAlone /\ CallsTheHeld /\ Carries /\ ShutIsEmpty /\ WarmsOnce
  BY DEF SessionInv
<1>3. HeldOrRetired' /\ Carries' /\ ShutIsEmpty'
  BY <1>1, <1>2 DEF HeldOrRetired, Standing, Carries, ShutIsEmpty
<1>4. CASE BeginCall(t) \/ (t = Warm /\ StartWarm)
  <2>1. doing[t] = "idle" /\ doing' = [doing EXCEPT ![t] = "waits"] /\ busy' = busy /\ (warming' = warming \/ warming')
        /\ (warming' \/ t # Warm)
    BY <1>2, <1>4, SessionShape DEF BeginCall, StartWarm, Do, WarmsOnce
  <2>2. SessionTables'  BY <1>1, <1>2, <2>1 DEF SessionTables
  <2>3. WorksAlone' /\ DialsAlone' /\ CallsTheHeld' /\ WarmsOnce'
    BY <1>1, <1>2, <2>1 DEF SessionTables, WorksAlone, DialsAlone, CallsTheHeld, WarmsOnce, Workers
  <2> QED  BY <1>3, <2>2, <2>3 DEF SessionInv
<1>5. CASE Admit(t)
  <2>1. /\ doing[t] = "waits" /\ busy = Free /\ busy' = t /\ warming' = warming
        /\ \E s \in {"stale", "ensure"} : doing' = [doing EXCEPT ![t] = s] /\ (s = "stale" => held # NoClient)
    BY <1>5 DEF Admit, Do
  <2>2. SessionTables'  BY <1>1, <1>2, <2>1 DEF SessionTables
  <2>3. \A w \in Workers : doing[w] \notin {"stale", "ensure", "dials", "calls"}
    BY <1>2, <2>1, SessionShape DEF WorksAlone
  <2>4. WorksAlone' /\ DialsAlone' /\ CallsTheHeld' /\ WarmsOnce'
    BY <1>1, <1>2, <2>1, <2>3 DEF SessionTables, WorksAlone, DialsAlone, CallsTheHeld, WarmsOnce, Workers
  <2> QED  BY <1>3, <2>2, <2>4 DEF SessionInv
<1> QED  BY <1>4, <1>5

(* close() of the client that is there, by a worker or by nobody.              *)
LEMMA ClearingKeeps ==
  ASSUME SessionInv, NEW c, c = (IF held = NoClient THEN retired ELSE held), Closes(c) \/ CloseRaises(c), held' = NoClient,
         UNCHANGED <<shut, subscribed, wired>>, closer' = closer \/ (shut /\ closer' \in {"done", "failed"}),
         closer' = "done" /\ closer # "done" => Closes(c),
         WorksAlone', DialsAlone', CallsTheHeld', WarmsOnce',
         doing' \in [Workers -> {"idle", "waits", "stale", "ensure", "dials", "calls", "over"}],
         using' \in [Workers -> Ids \cup {NoClient}]
  PROVE  SessionInv'
<1>1. /\ retired' \in Ids \cup {NoClient} /\ status' \in [Ids -> {"unbuilt", "live", "dead", "closed"}]
      /\ HeldOrRetired' /\ (Closes(c) => retired' = NoClient)
  BY CleansTheOne
<1>2. SessionTables'  BY <1>1 DEF SessionInv, SessionTables
<1>3. Carries'  BY DEF Carries
<1>4. ShutIsEmpty'
  <2>1. closer = "done" => held = NoClient /\ retired = NoClient  BY DEF SessionInv, ShutIsEmpty
  <2>2. closer = "done" => retired' = NoClient  BY <2>1 DEF Closes, CloseRaises
  <2>3. closer' = "done" => retired' = NoClient  BY <1>1, <2>2
  <2> QED  BY <2>3 DEF SessionInv, ShutIsEmpty
<1> QED  BY <1>1, <1>2, <1>3, <1>4 DEF SessionInv

LEMMA DroppingKeeps ==
  ASSUME SessionInv, NEW t \in Workers, DropStale(t) \/ CallFails(t)
  PROVE  SessionInv'
<1>1. busy = t /\ t # Free /\ doing[t] \in {"stale", "calls"} /\ held # NoClient
  BY SessionShape DEF DropStale, CallFails, SessionInv, WorksAlone, CallsTheHeld
<1>2. CASE Leaves(t) /\ (Closes(held) \/ CloseRaises(held)) /\ held' = NoClient
           /\ UNCHANGED <<shut, subscribed, wired, closer>>
  BY <1>1, <1>2, LeavingKeeps, ClearingKeeps
<1>3. CASE Closes(held) /\ Do(t, "ensure") /\ held' = NoClient
           /\ UNCHANGED <<busy, using, warming, shut, subscribed, wired, closer>> /\ doing[t] = "stale"
  <2>1. using[t] = NoClient /\ using' = [using EXCEPT ![t] = NoClient]
    BY <1>3 DEF SessionInv, CallsTheHeld, SessionTables
  <2>2. /\ WorksAlone' /\ DialsAlone' /\ CallsTheHeld'
        /\ doing' \in [Workers -> {"idle", "waits", "stale", "ensure", "dials", "calls", "over"}]
        /\ using' \in [Workers -> Ids \cup {NoClient}]
    BY <1>1, <1>3, <2>1, WorkerMoves DEF Do
  <2>3. WarmsOnce'  BY <1>1, <1>3, GoingOnKeepsWarm
  <2> QED  BY <1>1, <1>3, <2>2, <2>3, ClearingKeeps
<1>4. CallFails(t) => held = using[t]  BY DEF CallFails, SessionInv, CallsTheHeld
<1> QED  BY <1>2, <1>3, <1>4 DEF DropStale, CallFails

LEMMA EnsureKeeps ==
  ASSUME SessionInv, NEW t \in Workers, Ensure(t)
  PROVE  SessionInv'
<1>1. busy = t /\ doing[t] = "ensure" /\ using[t] = NoClient /\ UNCHANGED <<held, shut, subscribed, wired, closer>>
  BY DEF Ensure, SessionInv, WorksAlone, CallsTheHeld
<1>2. SessionTables /\ HeldOrRetired /\ Carries /\ ShutIsEmpty  BY DEF SessionInv
<1>3. ASSUME UNCHANGED <<retired, status>>, WorksAlone', DialsAlone', CallsTheHeld', WarmsOnce',
             doing' \in [Workers -> {"idle", "waits", "stale", "ensure", "dials", "calls", "over"}],
             using' \in [Workers -> Ids \cup {NoClient}]
      PROVE  SessionInv'
  <2>1. HeldOrRetired' /\ Carries' /\ ShutIsEmpty'
    BY <1>1, <1>2, <1>3 DEF HeldOrRetired, Standing, Carries, ShutIsEmpty
  <2>2. SessionTables'  BY <1>1, <1>2, <1>3 DEF SessionTables
  <2> QED  BY <1>3, <2>1, <2>2 DEF SessionInv
<1>4. CASE Leaves(t) /\ UNCHANGED <<retired, status>>
  BY <1>1, <1>3, <1>4, LeavingKeeps
<1>5. CASE held # NoClient /\ Do(t, "calls") /\ using' = [using EXCEPT ![t] = held]
           /\ UNCHANGED <<busy, warming, retired, status>>
  <2>1. held \in Ids /\ held' = held  BY <1>1, <1>2, <1>5 DEF SessionTables
  <2>2. /\ WorksAlone' /\ DialsAlone' /\ CallsTheHeld'
        /\ doing' \in [Workers -> {"idle", "waits", "stale", "ensure", "dials", "calls", "over"}]
        /\ using' \in [Workers -> Ids \cup {NoClient}]
    BY <1>1, <1>5, <2>1, WorkerMoves DEF Do
  <2>3. WarmsOnce'  BY <1>1, <1>5, GoingOnKeepsWarm
  <2> QED  BY <1>3, <1>5, <2>2, <2>3
<1>6. CASE held = NoClient /\ ~shut /\ Closes(retired) /\ Do(t, "dials") /\ lock' = t /\ UNCHANGED <<busy, using, warming>>
  <2>1. retired' = NoClient /\ held' = NoClient /\ ~shut' /\ using' = [using EXCEPT ![t] = NoClient]
    BY <1>1, <1>2, <1>6 DEF Closes, SessionTables
  <2>2. /\ WorksAlone' /\ DialsAlone' /\ CallsTheHeld'
        /\ doing' \in [Workers -> {"idle", "waits", "stale", "ensure", "dials", "calls", "over"}]
        /\ using' \in [Workers -> Ids \cup {NoClient}]
    BY <1>1, <1>6, <2>1, WorkerMoves DEF Do
  <2>3. WarmsOnce'  BY <1>1, <1>6, GoingOnKeepsWarm
  <2> QED  BY <1>1, <1>6, <2>1, <2>2, <2>3, ClearingKeeps
<1>7. CASE held = NoClient /\ CloseRaises(retired) /\ Leaves(t)
  BY <1>1, <1>7, LeavingKeeps, ClearingKeeps
<1> QED  BY <1>4, <1>5, <1>6, <1>7 DEF Ensure, Refuses, CleansUpFirst

LEMMA DialEndKeeps ==
  ASSUME SessionInv, NEW t \in Workers, Connected(t) \/ BuildFails(t) \/ WiringFails(t)
  PROVE  SessionInv'
<1>1. /\ busy = t /\ doing[t] = "dials" /\ held = NoClient /\ retired = NoClient /\ ~shut /\ closer # "done"
      /\ UNCHANGED <<shut, subscribed, closer>>
  BY DEF Connected, BuildFails, WiringFails, SessionInv, WorksAlone, DialsAlone, ShutIsEmpty
<1>2. SessionTables /\ Standing = {} /\ NoClient \notin Ids
  BY <1>1 DEF SessionInv, HeldOrRetired, Standing, Ids, NoClient
<1>3. ShutIsEmpty'  BY <1>1 DEF SessionInv, ShutIsEmpty
<1>4. CASE Connected(t)
  <2>1. PICK c \in Ids :
          /\ Fresh(c) /\ held' = c /\ status' = [status EXCEPT ![c] = "live"]
          /\ wired' = [wired EXCEPT ![c] = subscribed]
          /\ IF t = Warm THEN Leaves(t)
             ELSE Do(t, "calls") /\ using' = [using EXCEPT ![t] = c] /\ UNCHANGED <<busy, warming>>
    BY <1>4 DEF Connected
  <2>2. retired' = NoClient  BY <1>1, <1>4 DEF Connected
  <2>3. status' \in [Ids -> {"unbuilt", "live", "dead", "closed"}] /\ wired' \in [Ids -> SUBSET Events]
    BY <1>2, <2>1 DEF SessionTables
  <2>4. HeldOrRetired'  BY <1>2, <2>1, <2>2 DEF SessionTables, HeldOrRetired, Standing
  <2>5. Carries'  BY <1>1, <1>2, <2>1 DEF Carries, SessionTables
  <2>6. /\ WorksAlone' /\ DialsAlone' /\ CallsTheHeld' /\ WarmsOnce'
        /\ doing' \in [Workers -> {"idle", "waits", "stale", "ensure", "dials", "calls", "over"}]
        /\ using' \in [Workers -> Ids \cup {NoClient}]
    <3>1. CASE Leaves(t)  BY <1>1, <3>1, LeavingKeeps
    <3>2. CASE Do(t, "calls") /\ using' = [using EXCEPT ![t] = c] /\ UNCHANGED <<busy, warming>>
      <4>1. WarmsOnce'  BY <1>1, <3>2, GoingOnKeepsWarm
      <4> QED  BY <1>1, <1>2, <2>1, <3>2, <4>1, WorkerMoves DEF Do
    <3> QED  BY <2>1, <3>1, <3>2
  <2>7. SessionTables'  BY <1>1, <1>2, <2>1, <2>2, <2>3, <2>6 DEF SessionTables
  <2> QED  BY <1>3, <2>4, <2>5, <2>6, <2>7 DEF SessionInv
<1>5. CASE BuildFails(t) \/ WiringFails(t)
  <2>1. Leaves(t) /\ held' = NoClient /\ wired' = wired  BY <1>1, <1>5 DEF BuildFails, WiringFails
  <2>2. /\ WorksAlone' /\ DialsAlone' /\ CallsTheHeld' /\ WarmsOnce'
        /\ doing' \in [Workers -> {"idle", "waits", "stale", "ensure", "dials", "calls", "over"}]
        /\ using' \in [Workers -> Ids \cup {NoClient}]
    BY <1>1, <2>1, LeavingKeeps
  <2>3. /\ retired' \in Ids \cup {NoClient} /\ status' \in [Ids -> {"unbuilt", "live", "dead", "closed"}]
        /\ Standing' \subseteq {retired'}
    <3>1. CASE BuildFails(t)  BY <1>1, <1>2, <3>1 DEF BuildFails, SessionTables, Standing
    <3>2. CASE WiringFails(t)
      <4>1. PICK c \in Ids : \/ status' = [status EXCEPT ![c] = "closed"] /\ retired' = retired
                             \/ status' = [status EXCEPT ![c] = "live"] /\ retired' = c
        BY <3>2 DEF WiringFails
      <4>2. CASE status' = [status EXCEPT ![c] = "closed"] /\ retired' = retired
        BY <1>1, <1>2, <4>2 DEF SessionTables, Standing
      <4>3. CASE status' = [status EXCEPT ![c] = "live"] /\ retired' = c
        BY <1>1, <1>2, <4>3 DEF SessionTables, Standing
      <4> QED  BY <4>1, <4>2, <4>3
    <3> QED  BY <1>5, <3>1, <3>2
  <2>4. SessionTables'  BY <1>1, <1>2, <2>1, <2>2, <2>3 DEF SessionTables
  <2>5. HeldOrRetired' /\ Carries'  BY <2>1, <2>3 DEF HeldOrRetired, Carries
  <2> QED  BY <1>3, <2>2, <2>4, <2>5 DEF SessionInv
<1> QED  BY <1>4, <1>5

LEMMA AnsweredKeeps ==
  ASSUME SessionInv, NEW t \in Workers, CallAnswered(t)
  PROVE  SessionInv'
<1>1. busy = t /\ Leaves(t) /\ UNCHANGED <<held, retired, shut, subscribed, status, wired, closer>>
  BY DEF CallAnswered, SessionInv, WorksAlone
<1>2. /\ WorksAlone' /\ DialsAlone' /\ CallsTheHeld' /\ WarmsOnce'
      /\ doing' \in [Workers -> {"idle", "waits", "stale", "ensure", "dials", "calls", "over"}]
      /\ using' \in [Workers -> Ids \cup {NoClient}]
  BY <1>1, LeavingKeeps
<1>3. HeldOrRetired' /\ Carries' /\ ShutIsEmpty'
  BY <1>1 DEF SessionInv, HeldOrRetired, Standing, Carries, ShutIsEmpty
<1>4. SessionTables'  BY <1>1, <1>2 DEF SessionInv, SessionTables
<1> QED  BY <1>2, <1>3, <1>4 DEF SessionInv

LEMMA IdleMovesKeep ==
  ASSUME SessionInv, Probe \/ CloseSession
  PROVE  SessionInv'
<1>1. busy = Free /\ held' = NoClient /\ UNCHANGED <<shut, subscribed, wired, warming, doing, using>>
  BY DEF Probe, NothingInFlight, CloseSession
<1>2. WorksAlone' /\ DialsAlone' /\ CallsTheHeld' /\ WarmsOnce'
  BY <1>1, NobodyWorks DEF SessionInv, WarmsOnce
<1>3. PICK c : c = (IF held = NoClient THEN retired ELSE held) /\ (Closes(c) \/ CloseRaises(c))
               /\ (closer' = closer \/ (shut /\ (closer' = "failed" \/ (closer' = "done" /\ Closes(c)))))
  BY DEF Probe, CloseSession, SessionInv, ShutIsEmpty
<1> QED  BY <1>1, <1>2, <1>3, ClearingKeeps DEF SessionInv, SessionTables

LEMMA ApplicationKeeps ==
  ASSUME SessionInv, StartClose \/ WindowOpens \/ (\E e \in Events : Subscribe(e)) \/ UNCHANGED sessionVars
  PROVE  SessionInv'
<1>1. UNCHANGED <<held, retired, status, busy, lock, warming, doing, using>>
  BY DEF StartClose, WindowOpens, Subscribe, sessionVars
<1>2. HeldOrRetired' /\ WorksAlone' /\ CallsTheHeld' /\ WarmsOnce'
  BY <1>1 DEF SessionInv, HeldOrRetired, Standing, WorksAlone, CallsTheHeld, WarmsOnce
<1>3. CASE StartClose
  <2>1. lock = Free /\ shut' = TRUE /\ closer' = "waits" /\ UNCHANGED <<subscribed, wired>>  BY <1>3 DEF StartClose
  <2>2. \A t \in Workers : doing[t] # "dials"  BY <2>1, SessionShape DEF SessionInv, DialsAlone
  <2> QED  BY <1>1, <1>2, <2>1, <2>2 DEF SessionInv, SessionTables, DialsAlone, Carries, ShutIsEmpty
<1>4. CASE WindowOpens \/ UNCHANGED sessionVars
  <2>1. UNCHANGED <<shut, closer, subscribed, wired>>  BY <1>4 DEF WindowOpens, sessionVars
  <2> QED  BY <1>1, <1>2, <2>1 DEF SessionInv, SessionTables, DialsAlone, Carries, ShutIsEmpty
<1>5. ASSUME NEW e \in Events, Subscribe(e)
      PROVE  SessionInv'
  <2>1. subscribed' = subscribed \cup {e} /\ wired' = OnHeld(e) /\ UNCHANGED <<shut, closer>>  BY <1>5 DEF Subscribe
  <2>2. SessionTables'  BY <1>1, <2>1 DEF SessionInv, SessionTables, OnHeld
  <2>3. Carries'  BY <1>1, <2>1 DEF SessionInv, SessionTables, Carries, OnHeld
  <2> QED  BY <1>1, <1>2, <2>1, <2>2, <2>3 DEF SessionInv, DialsAlone, ShutIsEmpty
<1> QED  BY <1>3, <1>4, <1>5

LEMMA DeathKeeps ==
  ASSUME SessionInv, NEW c \in Ids, ClientDies(c)
  PROVE  SessionInv'
<1>1. /\ status[c] = "live" /\ status' = [status EXCEPT ![c] = "dead"]
      /\ UNCHANGED <<held, retired, shut, subscribed, wired, busy, lock, warming, doing, using, closer>>
  BY DEF ClientDies
<1>2. Standing' = Standing  BY <1>1 DEF SessionInv, SessionTables, Standing
<1>3. SessionTables' /\ HeldOrRetired'  BY <1>1, <1>2 DEF SessionInv, SessionTables, HeldOrRetired
<1> QED  BY <1>1, <1>3 DEF SessionInv, WorksAlone, DialsAlone, CallsTheHeld, WarmsOnce, Carries, ShutIsEmpty

LEMMA SessionKeeps == SessionInv /\ [SessionNext]_sessionVars => SessionInv'
<1>1. Warm \in Workers  BY DEF Workers
<1> QED  BY <1>1, WaitingKeeps, DroppingKeeps, EnsureKeeps, DialEndKeeps, AnsweredKeeps, IdleMovesKeep, ApplicationKeeps,
            DeathKeeps DEF SessionNext, Step

LEMMA AtMostOne == ASSUME NEW S, NEW c, S \subseteq {c} PROVE Cardinality(S) <= 1
<1>1. IsFiniteSet({c}) /\ Cardinality({c}) = 1  BY FS_Singleton
<1>2. IsFiniteSet(S) /\ Cardinality(S) <= Cardinality({c})  BY <1>1, FS_Subset
<1> QED  BY <1>1, <1>2

(* One client at most stands, and what is called is not closed.                *)
LEMMA SessionIsRight == SessionInv => OneSession /\ CallsAreLeftAlone /\ ClosedForGood /\ Carries
<1> SUFFICES ASSUME SessionInv PROVE OneSession /\ CallsAreLeftAlone /\ ClosedForGood /\ Carries  OBVIOUS
<1>1. SessionTables /\ HeldOrRetired /\ CallsTheHeld /\ ShutIsEmpty /\ Carries /\ NoClient \notin Ids
  BY DEF SessionInv, NoClient, Ids
<1>2. PICK c : Standing \subseteq {c}  BY <1>1 DEF HeldOrRetired, Standing
<1>3. Cardinality(Standing) <= 1  BY <1>2, AtMostOne
<1>4. OneSession  BY <1>1, <1>3 DEF OneSession, HeldOrRetired
<1>5. CallsAreLeftAlone  BY <1>1 DEF CallsAreLeftAlone, CallsTheHeld, HeldOrRetired
<1>6. ClosedForGood  BY <1>1 DEF ClosedForGood, ShutIsEmpty, HeldOrRetired, Standing
<1> QED  BY <1>1, <1>4, <1>5, <1>6

-----------------------------------------------------------------------------
(* AsyncSession: at most one task has a client in its hands or dials one, the    *)
(* one that holds the lock, and then nothing is current; a client that is open   *)
(* is that task's or the current one, and carries what is wanted but what came   *)
(* while it settled.                                                             *)
Working(t) == at[t] \in {"dials", "settles", "retires"}

AsyncTables ==
  /\ at \in [Tasks -> Places] /\ mine \in [Tasks -> Links \cup {NoLink}]
  /\ next \in [Tasks -> {"none", "dial", "failed", "refused", "end"}]
  /\ queue \in Seq(Tasks) /\ current \in Links \cup {NoLink}
  /\ link \in [Links -> {"unbuilt", "live", "dead", "closed", "left"}]
  /\ bound \in [Links -> SUBSET Handlers] /\ wanted \subseteq Handlers /\ ended \in BOOLEAN
WorkersHold == \A t \in Tasks : Working(t) => Holds(t) /\ current = NoLink
OpenIsHeld ==
  /\ (\A t \in Tasks : ~Working(t)) => Open \subseteq {current}
  /\ \A t \in Tasks : at[t] = "dials" => Open = {}
  /\ \A t \in Tasks : at[t] \in {"settles", "retires"} => mine[t] \in Links /\ Open \subseteq {mine[t]}
Purposes == \A t \in Tasks : at[t] = "retires" => next[t] # "none"
ShutterOnlyShuts ==
  /\ at[Shutter] \in {"idle", "drops", "retires", "over"} /\ next[Shutter] \in {"none", "end"}
  /\ at[Shutter] # "idle" => ended
  /\ at[Shutter] = "over" => current = NoLink /\ \A t \in Tasks : ~Working(t)
LateIsWanted == late \subseteq wanted
Wired ==
  /\ CarriesWhatIsWanted /\ LateIsWanted
  /\ \A t \in Tasks : at[t] = "settles" => bound[mine[t]] = wanted \ late
Patient ==
  /\ rung \in Nat /\ refusedFor \in Nat /\ patience \in Nat /\ patience <= Grace /\ mood \in Moods
  /\ refusedFor # Never => refusedFor <= patience
AsyncInv ==
  /\ AsyncTables /\ WorkersHold /\ OpenIsHeld /\ Purposes /\ ShutterOnlyShuts /\ Wired /\ Patient

LEMMA AsyncInitial == AsyncInit => AsyncInv
<1> SUFFICES ASSUME AsyncInit PROVE AsyncInv  OBVIOUS
<1>1. AsyncTables
  <2>1. queue \in Seq(Tasks) /\ next \in [Tasks -> {"none", "dial", "failed", "refused", "end"}]  BY DEF AsyncInit
  <2>2. at \in [Tasks -> Places]  BY DEF AsyncInit, Places
  <2>3. mine \in [Tasks -> Links \cup {NoLink}] /\ current \in Links \cup {NoLink} /\ ended \in BOOLEAN
    BY DEF AsyncInit
  <2>4. link \in [Links -> {"unbuilt", "live", "dead", "closed", "left"}]  BY DEF AsyncInit
  <2>5. bound \in [Links -> SUBSET Handlers] /\ wanted \subseteq Handlers  BY DEF AsyncInit
  <2> QED  BY <2>1, <2>2, <2>3, <2>4, <2>5 DEF AsyncTables
<1>2. at[Run] = "top" /\ at[Shutter] = "idle" /\ Open = {} /\ \A t \in Tasks : at[t] \in {"top", "idle"}
  BY AsyncShape DEF AsyncInit, Open, Tasks
<1>3. Wired  BY <1>2 DEF AsyncInit, Wired, CarriesWhatIsWanted, LateIsWanted
<1>4. Patient  BY AsyncShape DEF AsyncInit, Patient, Never
<1>5. next[Shutter] = "none"  BY DEF AsyncInit, Tasks
<1> QED  BY <1>1, <1>2, <1>3, <1>4, <1>5
         DEF AsyncInv, WorkersHold, OpenIsHeld, Purposes, ShutterOnlyShuts, Working

(* Who holds the lock is one: when the holder stops working, nobody works.       *)
LEMMA OneHolder ==
  ASSUME AsyncInv, NEW t \in Tasks, Holds(t)
  PROVE  \A u \in Tasks : u # t => ~Working(u)
BY DEF AsyncInv, WorkersHold, Holds

(* Under the lock nothing is bound but on the current client and the holder's.   *)
LEMMA BoundWhere ==
  ASSUME AsyncInv, NEW t \in Tasks, Holds(t), NEW c \in Links, bound[c] # {}
  PROVE  c = current \/ (at[t] = "settles" /\ mine[t] = c)
<1>1. c = current \/ \E u \in Tasks : mine[u] = c /\ at[u] = "settles"  BY DEF AsyncInv, Wired, CarriesWhatIsWanted, LateIsWanted
<1> QED  BY <1>1, OneHolder DEF Working

(* A task that goes on, out of the lock or to it, without a client changing hands. *)
LEMMA NobodyStarts ==
  ASSUME AsyncInv, NEW t \in Tasks, NEW p \in Places \ {"dials", "settles", "retires"},
         at' = [at EXCEPT ![t] = p]
  PROVE  /\ at' \in [Tasks -> Places] /\ ~Working(t)'
         /\ \A u \in Tasks : u # t => at'[u] = at[u] /\ (Working(u)' <=> Working(u))
         /\ \A u \in Tasks : Working(u)' => Working(u)
         /\ t # Shutter => at'[Shutter] = at[Shutter]
BY AsyncShape DEF AsyncInv, AsyncTables, Working, Tasks

(* Appending to the queue leaves its holder.                                     *)
LEMMA JoinsTheQueue ==
  ASSUME queue \in Seq(Tasks), NEW t \in Tasks, queue' = Append(queue, t)
  PROVE  /\ queue' \in Seq(Tasks) /\ \A u \in Tasks : Holds(u) => Holds(u)'
<1>1. queue' \in Seq(Tasks) /\ Len(queue') = Len(queue) + 1 /\ \A i \in 1..Len(queue) : queue'[i] = queue[i]
  BY AppendProperties
<1>2. ASSUME NEW u \in Tasks, Holds(u)  PROVE Holds(u)'
  <2>1. Len(queue) \in Nat /\ Len(queue) >= 1 /\ Head(queue) = queue[1]  BY <1>2 DEF Holds
  <2>2. Head(queue') = queue'[1] /\ queue'[1] = queue[1] /\ queue' # <<>>  BY <1>1, <2>1
  <2> QED  BY <1>2, <2>1, <2>2 DEF Holds
<1> QED  BY <1>1, <1>2

(* A wait of whoever does not work, the queue growing or as it was: nothing of   *)
(* the client changes hands.                                                     *)
LEMMA WaitingTurns ==
  ASSUME AsyncInv, NEW t \in Tasks, NEW p \in Places \ {"dials", "settles", "retires"},
         at' = [at EXCEPT ![t] = p], ~Working(t), t # Shutter,
         queue' = Append(queue, t) \/ queue' = queue,
         mine' \in [Tasks -> Links \cup {NoLink}], \A u \in Tasks : u # t => mine'[u] = mine[u],
         UNCHANGED <<next, current, link, bound, wanted, late, ended>>, Patient'
  PROVE  AsyncInv'
<1> USE DEF AsyncInv
<1>1. queue' \in Seq(Tasks) /\ \A u \in Tasks : Holds(u) => Holds(u)'
  BY JoinsTheQueue DEF AsyncTables, Holds
<1>2. at' \in [Tasks -> Places] /\ at'[Shutter] = at[Shutter] /\ at'[t] = p /\ \A u \in Tasks : u # t => at'[u] = at[u]
  BY NobodyStarts DEF AsyncTables
<1>3. \A u \in Tasks : (Working(u)' <=> Working(u)) /\ (Working(u) => u # t)  BY NobodyStarts
<1>4. AsyncTables'  BY <1>1, <1>2 DEF AsyncTables
<1>5. WorkersHold'  BY <1>1, <1>3 DEF WorkersHold
<1>6. Open' = Open  BY DEF Open
<1>7. OpenIsHeld'  BY <1>2, <1>3, <1>6 DEF OpenIsHeld, Working
<1>8. Purposes'  BY <1>2 DEF Purposes
<1>9. ShutterOnlyShuts'  BY <1>2, <1>3 DEF ShutterOnlyShuts
<1>10. Wired'
  <2>1. \A u \in Tasks : at[u] = "settles" <=> at'[u] = "settles"  BY <1>2 DEF Working
  <2>2. \A u \in Tasks : at[u] = "settles" => mine'[u] = mine[u]  BY DEF Working
  <2>3. ASSUME NEW c \in Links, bound'[c] # {}  PROVE c = current' \/ \E u \in Tasks : mine'[u] = c /\ at'[u] = "settles"
    <3>1. c = current \/ \E u \in Tasks : mine[u] = c /\ at[u] = "settles"  BY <2>3 DEF Wired, CarriesWhatIsWanted, LateIsWanted
    <3> QED  BY <2>1, <2>2, <3>1
  <2>4. CarriesWhatIsWanted'  BY <2>3 DEF Wired, CarriesWhatIsWanted, LateIsWanted
  <2> QED  BY <2>1, <2>2, <2>4 DEF Wired, LateIsWanted
<1> QED  BY <1>4, <1>5, <1>7, <1>8, <1>9, <1>10

(* LinkSupervisor.after(): the refusals counted never outlast the patience.      *)
LEMMA Ladder ==
  ASSUME AsyncInv, NEW t \in Tasks \ {Shutter}, NEW o \in {"failed", "refused", "rekeyed"}, Raises(t, o),
         UNCHANGED mood
  PROVE  /\ Patient'
         /\ \E p \in {"over", "sleeps", "gaveUp"} :
               at' = [at EXCEPT ![t] = p] /\ (p = "gaveUp" => t = Run /\ (o = "rekeyed" \/ patience = Grace))
<1> USE DEF AsyncInv, Patient
<1>1. Ceiling \in Nat /\ Grace \in Nat /\ Grace >= 1  BY AsyncShape
<1>2. CASE t # Run  BY <1>2 DEF Raises, Go, supervisor
<1>3. CASE t = Run /\ o = "refused"
  <2>1. refusedFor' = FirstRefusal /\ patience' = patience /\ mood' = mood /\ rung' \in Nat
    BY <1>1, <1>3 DEF Raises, Refused, NextRung, Sooner
  <2>2. FirstRefusal \in Nat /\ FirstRefusal <= patience  BY <1>1 DEF FirstRefusal
  <2>3. Patient'  BY <1>1, <2>1, <2>2 DEF Never
  <2>4. CASE FirstRefusal >= Grace
    <3>1. patience = Grace  BY <1>1, <2>2, <2>4
    <3>2. at' = [at EXCEPT ![t] = "gaveUp"]  BY <1>3, <2>4 DEF Raises, Refused, Go
    <3> QED  BY <1>3, <2>3, <3>1, <3>2
  <2>5. CASE ~(FirstRefusal >= Grace)
    <3>1. at' = [at EXCEPT ![t] = "sleeps"]  BY <1>3, <2>5 DEF Raises, Refused, Go
    <3> QED  BY <2>3, <3>1
  <2> QED  BY <2>4, <2>5
<1>4. CASE t = Run /\ o = "failed"
  <2>1. refusedFor' = Never /\ patience' = 0 /\ rung' \in Nat /\ at' = [at EXCEPT ![t] = "sleeps"]
    BY <1>1, <1>4 DEF Raises, Failed, NextRung, Sooner, Go
  <2> QED  BY <1>1, <2>1 DEF Never
<1>5. CASE t = Run /\ o = "rekeyed"
  <2>1. at' = [at EXCEPT ![t] = "gaveUp"] /\ UNCHANGED <<rung, refusedFor, patience>>
    BY <1>5 DEF Raises, Go, supervisor
  <2> QED  BY <1>5, <2>1
<1> QED  BY <1>2, <1>3, <1>4, <1>5

(* A task lets the lock go: then nobody works, and what is open is current.      *)
LEMMA LetsGo ==
  ASSUME AsyncInv, NEW t \in Tasks, NEW p \in Places \ {"dials", "settles", "retires"},
         at' = [at EXCEPT ![t] = p], Holds(t), Release,
         mine' \in [Tasks -> Links \cup {NoLink}], next' \in [Tasks -> {"none", "dial", "failed", "refused", "end"}],
         \A u \in Tasks : u # t => next'[u] = next[u], next'[Shutter] \in {"none", "end"},
         current' \in Links \cup {NoLink}, link' \in [Links -> {"unbuilt", "live", "dead", "closed", "left"}],
         bound' \in [Links -> SUBSET Handlers], wanted' = wanted, ended' = ended, Open' \subseteq {current'},
         at[Shutter] = "over" => current' = NoLink,
         t = Shutter => p = "over" /\ ended /\ current' = NoLink,
         CarriesWhatIsWanted', LateIsWanted', Patient'
  PROVE  AsyncInv'
<1> USE DEF AsyncInv
<1>1. queue' \in Seq(Tasks)  BY DEF AsyncTables, Holds, Release
<1>2. at' \in [Tasks -> Places] /\ at'[t] = p /\ \A u \in Tasks : u # t => at'[u] = at[u]
  BY NobodyStarts DEF AsyncTables
<1>3. \A u \in Tasks : ~Working(u)'  BY NobodyStarts, OneHolder
<1>4. AsyncTables'  BY <1>1, <1>2 DEF AsyncTables
<1>5. WorkersHold' /\ OpenIsHeld'  BY <1>3 DEF WorkersHold, OpenIsHeld, Working
<1>6. Purposes' /\ Wired'  BY <1>3 DEF Purposes, Wired, Working, LateIsWanted
<1>7. ShutterOnlyShuts'
  <2>1. Shutter \in Tasks  BY DEF Tasks
  <2>2. CASE t = Shutter  BY <1>2, <1>3, <2>2 DEF ShutterOnlyShuts
  <2>3. CASE t # Shutter  BY <1>2, <1>3, <2>1, <2>3 DEF ShutterOnlyShuts
  <2> QED  BY <2>2, <2>3
<1> QED  BY <1>4, <1>5, <1>6, <1>7

(* A task goes on under the lock, with a client in its hands or none open.       *)
LEMMA WorksOn ==
  ASSUME AsyncInv, NEW t \in Tasks, NEW p \in {"dials", "settles", "retires"}, at' = [at EXCEPT ![t] = p],
         Holds(t), queue' = queue, current' = NoLink,
         mine' \in [Tasks -> Links \cup {NoLink}], next' \in [Tasks -> {"none", "dial", "failed", "refused", "end"}],
         \A u \in Tasks : u # t => next'[u] = next[u], next'[Shutter] \in {"none", "end"},
         link' \in [Links -> {"unbuilt", "live", "dead", "closed", "left"}],
         bound' \in [Links -> SUBSET Handlers], wanted' = wanted, ended' = ended,
         p = "dials" => Open' = {}, p # "dials" => mine'[t] \in Links /\ Open' \subseteq {mine'[t]},
         p = "retires" => next'[t] # "none", p = "settles" => bound'[mine'[t]] = (wanted \ late)',
         \A c \in Links : bound'[c] # {} => p = "settles" /\ mine'[t] = c,
         t = Shutter => p = "retires" /\ ended, at[Shutter] # "over",
         \A c \in Links : bound'[c] \subseteq wanted', LateIsWanted', Patient'
  PROVE  AsyncInv'
<1> USE DEF AsyncInv
<1>1. at' \in [Tasks -> Places] /\ at'[t] = p /\ \A u \in Tasks : u # t => at'[u] = at[u]
  BY DEF AsyncTables, Places
<1>2. \A u \in Tasks : Working(u)' <=> u = t  BY <1>1, OneHolder DEF Working
<1>3. AsyncTables'  BY <1>1 DEF AsyncTables
<1>4. WorkersHold'  BY <1>2 DEF WorkersHold, Holds
<1>5. OpenIsHeld'  BY <1>1, <1>2 DEF OpenIsHeld, Working
<1>6. Purposes'
  <2>1. ASSUME NEW u \in Tasks, at'[u] = "retires"  PROVE next'[u] # "none"
    <3>1. u = t  BY <1>2, <2>1 DEF Working
    <3> QED  BY <1>1, <2>1, <3>1
  <2> QED  BY <2>1 DEF Purposes
<1>7. Wired'
  <2>1. CarriesWhatIsWanted'  BY <1>1 DEF CarriesWhatIsWanted
  <2>2. ASSUME NEW u \in Tasks, at'[u] = "settles"  PROVE bound'[mine'[u]] = (wanted \ late)'
    <3>1. u = t  BY <1>2, <2>2 DEF Working
    <3> QED  BY <1>1, <2>2, <3>1
  <2> QED  BY <2>1, <2>2 DEF Wired, LateIsWanted
<1>8. ShutterOnlyShuts'
  <2>1. Shutter \in Tasks  BY DEF Tasks
  <2>2. CASE t = Shutter  BY <1>1, <2>2 DEF ShutterOnlyShuts
  <2>3. CASE t # Shutter  BY <1>1, <2>1, <2>3 DEF ShutterOnlyShuts
  <2> QED  BY <2>2, <2>3
<1> QED  BY <1>3, <1>4, <1>5, <1>6, <1>7, <1>8

LEMMA NothingElseOpen ==
  ASSUME AsyncInv, NEW t \in Tasks, Holds(t), ~Working(t)
  PROVE  Open \subseteq {current} /\ (current = NoLink => Open = {})
<1>1. \A u \in Tasks : ~Working(u)  BY OneHolder
<1>2. Open \subseteq {current} /\ NoLink \notin Open  BY <1>1 DEF AsyncInv, OpenIsHeld, Open, Links, NoLink
<1> QED  BY <1>2

LEMMA EnterKeeps ==
  ASSUME AsyncInv, NEW t \in Tasks, Enter(t)
  PROVE  AsyncInv'
<1> USE DEF AsyncInv
<1>1. /\ at[t] = "enters" /\ Holds(t) /\ ~Working(t) /\ t # Shutter
      /\ UNCHANGED <<link, wanted, late, ended, mood>>
  BY DEF Enter, subscriptions, hub, Working, ShutterOnlyShuts
<1>2. Open \subseteq {current} /\ (current = NoLink => Open = {}) /\ Open' = Open
  BY <1>1, NothingElseOpen DEF Open
<1>3. /\ mine \in [Tasks -> Links \cup {NoLink}] /\ next \in [Tasks -> {"none", "dial", "failed", "refused", "end"}]
      /\ current \in Links \cup {NoLink} /\ link \in [Links -> {"unbuilt", "live", "dead", "closed", "left"}]
      /\ bound \in [Links -> SUBSET Handlers] /\ next[Shutter] \in {"none", "end"}
      /\ (at[Shutter] = "over" => current = NoLink) /\ (at[Shutter] = "over" => ended)
  BY DEF AsyncTables, ShutterOnlyShuts
<1>4. /\ (current # NoLink => bound[current] = wanted \ late) /\ \A c \in Links : bound[c] \subseteq wanted
      /\ \A c \in Links : bound[c] # {} => c = current
  BY <1>1, BoundWhere DEF Wired, CarriesWhatIsWanted, Working, LateIsWanted
<1>9. LateIsWanted'  BY <1>1 DEF Wired, LateIsWanted
<1>5. CASE Shut /\ Raises(t, "failed") /\ Release /\ UNCHANGED <<mine, next, current, bound>>
  <2>1. Patient' /\ \E p \in {"over", "sleeps", "gaveUp"} : at' = [at EXCEPT ![t] = p]  BY <1>1, <1>5, Ladder
  <2>2. CarriesWhatIsWanted'  BY <1>1, <1>4, <1>5 DEF CarriesWhatIsWanted
  <2>3. PICK p \in {"over", "sleeps", "gaveUp"} : at' = [at EXCEPT ![t] = p]  BY <2>1
  <2>4. p \in Places \ {"dials", "settles", "retires"}  BY DEF Places
  <2> QED  BY <1>1, <1>2, <1>3, <1>5, <2>1, <2>2, <2>3, <2>4, <1>9, LetsGo
<1>6. ASSUME ~Shut, Alive, Release, UNCHANGED <<next, current, bound, supervisor>>,
             IF t = Run THEN Go(t, "top") /\ UNCHANGED mine ELSE Go(t, "calls") /\ Take(t, current)
      PROVE  AsyncInv'
  <2>1. Patient' /\ CarriesWhatIsWanted'  BY <1>1, <1>4, <1>6 DEF CarriesWhatIsWanted, Patient, supervisor
  <2>2. mine' \in [Tasks -> Links \cup {NoLink}]  BY <1>3, <1>6 DEF Take
  <2>3. PICK p \in Places \ {"dials", "settles", "retires"} : at' = [at EXCEPT ![t] = p]
    BY <1>6 DEF Go, Places
  <2> QED  BY <1>1, <1>2, <1>3, <1>6, <2>1, <2>2, <2>3, <1>9, LetsGo
<1>7. ASSUME ~Shut, ~Alive, current # NoLink, Go(t, "retires"), Take(t, current), Then(t, "dial"),
             current' = NoLink, Unbinds(current), UNCHANGED <<queue, supervisor>>
      PROVE  AsyncInv'
  <2>1. Patient' /\ at[Shutter] # "over"  BY <1>1, <1>3, <1>7 DEF Patient, supervisor, Shut
  <2>6. bound' \in [Links -> SUBSET Handlers] /\ \A c \in Links : bound'[c] = {}
    BY <1>3, <1>4, <1>7 DEF Unbinds
  <2>2. mine' = [mine EXCEPT ![t] = current] /\ next' = [next EXCEPT ![t] = "dial"] /\ at' = [at EXCEPT ![t] = "retires"]
    BY <1>7 DEF Take, Then, Go
  <2>3. mine' \in [Tasks -> Links \cup {NoLink}] /\ mine'[t] \in Links /\ Open' \subseteq {mine'[t]}
    BY <1>2, <1>3, <1>7, <2>2
  <2>4. /\ next' \in [Tasks -> {"none", "dial", "failed", "refused", "end"}] /\ next'[t] = "dial"
        /\ \A u \in Tasks : u # t => next'[u] = next[u]
    BY <1>3, <2>2
  <2>5. next'[Shutter] \in {"none", "end"}  BY <1>1, <1>3, <2>4 DEF Tasks
  <2> QED  BY <1>1, <1>3, <1>7, <2>1, <2>2, <2>3, <2>4, <2>5, <2>6, <1>9, WorksOn
<1>8. ASSUME ~Shut, current = NoLink, Go(t, "dials"), UNCHANGED <<mine, next, queue, current, bound, supervisor>>
      PROVE  AsyncInv'
  <2>1. /\ Patient' /\ at[Shutter] # "over" /\ bound' = bound
        /\ \A c \in Links : bound'[c] = {}
    BY <1>1, <1>3, <1>4, <1>8 DEF Patient, supervisor, Shut, Links, NoLink
  <2>2. at' = [at EXCEPT ![t] = "dials"] /\ Open' = {}  BY <1>2, <1>8 DEF Go
  <2> QED  BY <1>1, <1>3, <1>8, <2>1, <2>2, <1>9, WorksOn
<1> QED  BY <1>5, <1>6, <1>7, <1>8 DEF Enter

LEMMA DialledKeeps ==
  ASSUME AsyncInv, NEW t \in Tasks, Dialled(t)
  PROVE  AsyncInv'
<1> USE DEF AsyncInv
<1>1. /\ at[t] = "dials" /\ at' = [at EXCEPT ![t] = "settles"] /\ UNCHANGED <<next, queue, current, wanted, ended, mood>>
      /\ UNCHANGED <<rung, refusedFor, patience>> /\ late' = {}
  BY DEF Dialled, Go, subscriptions, supervisor, hub
<1>2. PICK c \in Links : /\ mine' = [mine EXCEPT ![t] = c] /\ link' = [link EXCEPT ![c] = "live"]
                         /\ bound' = [bound EXCEPT ![c] = wanted]
  BY DEF Dialled, Take
<1>3. /\ Holds(t) /\ current = NoLink /\ Open = {} /\ t # Shutter /\ at[Shutter] # "over"
      /\ \A d \in Links : bound[d] = {}
  BY <1>1, BoundWhere DEF Working, WorkersHold, OpenIsHeld, ShutterOnlyShuts, Links, NoLink
<1>5. mine \in [Tasks -> Links \cup {NoLink}] /\ link \in [Links -> {"unbuilt", "live", "dead", "closed", "left"}]
      /\ bound \in [Links -> SUBSET Handlers] /\ next \in [Tasks -> {"none", "dial", "failed", "refused", "end"}]
      /\ next[Shutter] \in {"none", "end"}
  BY DEF AsyncTables, ShutterOnlyShuts
<1>6. Open' \subseteq {c}  BY <1>2, <1>3, <1>5 DEF Open
<1>7. mine' \in [Tasks -> Links \cup {NoLink}] /\ mine'[t] = c /\ link' \in [Links -> {"unbuilt", "live", "dead", "closed", "left"}]
  BY <1>2, <1>5
<1>8. /\ bound' \in [Links -> SUBSET Handlers] /\ bound'[c] = wanted
      /\ \A d \in Links : bound'[d] \subseteq wanted /\ (bound'[d] # {} => c = d)
  BY <1>2, <1>3, <1>5 DEF AsyncTables
<1>9. Patient' /\ LateIsWanted'  BY <1>1 DEF Patient, LateIsWanted
<1>10. bound'[mine'[t]] = (wanted \ late)'  BY <1>1, <1>7, <1>8
<1> QED  BY <1>1, <1>3, <1>5, <1>6, <1>7, <1>8, <1>9, <1>10, WorksOn

LEMMA DialFailsKeeps ==
  ASSUME AsyncInv, NEW t \in Tasks, DialFails(t)
  PROVE  AsyncInv'
<1> USE DEF AsyncInv
<1>1. /\ at[t] = "dials" /\ Release /\ UNCHANGED <<mine, next, current, link, bound, wanted, late, ended, mood>>
  BY DEF DialFails, subscriptions, hub
<1>2. Holds(t) /\ t # Shutter /\ Open = {} /\ Open' = {}
  BY <1>1 DEF Working, WorkersHold, OpenIsHeld, ShutterOnlyShuts, Open
<1>3. PICK o \in {"failed", "refused", "rekeyed"} : Raises(t, o)  BY DEF DialFails, Patient, Moods
<1>4. Patient' /\ \E p \in {"over", "sleeps", "gaveUp"} : at' = [at EXCEPT ![t] = p]  BY <1>1, <1>2, <1>3, Ladder
<1>5. PICK p \in Places \ {"dials", "settles", "retires"} : at' = [at EXCEPT ![t] = p]  BY <1>4 DEF Places
<1>6. /\ mine \in [Tasks -> Links \cup {NoLink}] /\ next \in [Tasks -> {"none", "dial", "failed", "refused", "end"}]
      /\ current \in Links \cup {NoLink} /\ link \in [Links -> {"unbuilt", "live", "dead", "closed", "left"}]
      /\ bound \in [Links -> SUBSET Handlers] /\ next[Shutter] \in {"none", "end"}
      /\ (at[Shutter] = "over" => current = NoLink)
  BY DEF AsyncTables, ShutterOnlyShuts
<1>8. current = NoLink /\ \A d \in Links : bound[d] = {}
  BY <1>1, <1>2, BoundWhere DEF Working, WorkersHold, Links, NoLink
<1>7. CarriesWhatIsWanted' /\ LateIsWanted'  BY <1>1, <1>8 DEF CarriesWhatIsWanted, Wired, LateIsWanted
<1> QED  BY <1>1, <1>2, <1>4, <1>5, <1>6, <1>7, LetsGo

LEMMA SettledKeeps ==
  ASSUME AsyncInv, NEW t \in Tasks, Settled(t)
  PROVE  AsyncInv'
<1> USE DEF AsyncInv
<1>1. /\ at[t] = "settles" /\ current' = mine[t] /\ Release /\ UNCHANGED <<next, link, bound, wanted, late, ended, mood>>
      /\ rung' = 1 /\ refusedFor' = Never /\ patience' = 0
  BY DEF Settled, Up, subscriptions, hub
<1>2. /\ Holds(t) /\ t # Shutter /\ mine[t] \in Links /\ Open \subseteq {mine[t]} /\ Open' = Open
      /\ at[Shutter] # "over" /\ bound[mine[t]] = wanted \ late /\ current = NoLink
  BY <1>1 DEF Working, WorkersHold, OpenIsHeld, ShutterOnlyShuts, Wired, Open, LateIsWanted
<1>3. PICK p \in Places \ {"dials", "settles", "retires"} : at' = [at EXCEPT ![t] = p]
  BY DEF Settled, Go, Places
<1>4. /\ mine \in [Tasks -> Links \cup {NoLink}] /\ next \in [Tasks -> {"none", "dial", "failed", "refused", "end"}]
      /\ link \in [Links -> {"unbuilt", "live", "dead", "closed", "left"}]
      /\ bound \in [Links -> SUBSET Handlers] /\ next[Shutter] \in {"none", "end"}
  BY DEF AsyncTables, ShutterOnlyShuts
<1>5. mine' \in [Tasks -> Links \cup {NoLink}]  BY <1>4 DEF Settled, Take, NoLink
<1>6. CarriesWhatIsWanted'
  <2>1. \A c \in Links : bound[c] # {} => c = mine[t]  BY <1>2, BoundWhere DEF Links, NoLink
  <2> QED  BY <1>1, <1>2, <2>1 DEF Wired, CarriesWhatIsWanted, LateIsWanted
<1>7. Patient' /\ LateIsWanted'  BY <1>1, AsyncShape DEF Patient, Never, Wired, LateIsWanted
<1> QED  BY <1>1, <1>2, <1>3, <1>4, <1>5, <1>6, <1>7, LetsGo

LEMMA SettleFailsKeeps ==
  ASSUME AsyncInv, NEW t \in Tasks, SettleFails(t)
  PROVE  AsyncInv'
<1> USE DEF AsyncInv
<1>1. /\ at[t] = "settles" /\ at' = [at EXCEPT ![t] = "retires"]
      /\ UNCHANGED <<mine, queue, current, link, wanted, late, ended, mood, rung, refusedFor, patience>>
      /\ bound' = [bound EXCEPT ![mine[t]] = {}]
  BY DEF SettleFails, Go, Unbinds, subscriptions, supervisor, hub
<1>2. PICK o \in {"refused", "failed"} : next' = [next EXCEPT ![t] = o]  BY DEF SettleFails, Then
<1>3. /\ Holds(t) /\ t # Shutter /\ mine[t] \in Links /\ Open \subseteq {mine[t]} /\ Open' = Open /\ current = NoLink
      /\ at[Shutter] # "over"
  BY <1>1 DEF Working, WorkersHold, OpenIsHeld, ShutterOnlyShuts, Open
<1>4. /\ mine \in [Tasks -> Links \cup {NoLink}] /\ next \in [Tasks -> {"none", "dial", "failed", "refused", "end"}]
      /\ link \in [Links -> {"unbuilt", "live", "dead", "closed", "left"}]
      /\ bound \in [Links -> SUBSET Handlers] /\ next[Shutter] \in {"none", "end"}
  BY DEF AsyncTables, ShutterOnlyShuts
<1>5. /\ next' \in [Tasks -> {"none", "dial", "failed", "refused", "end"}] /\ next'[t] # "none"
      /\ \A u \in Tasks : u # t => next'[u] = next[u]
  BY <1>2, <1>4
<1>6. next'[Shutter] \in {"none", "end"}  BY <1>3, <1>4, <1>5 DEF Tasks
<1>8. \A c \in Links : bound[c] # {} => c = mine[t]  BY <1>3, BoundWhere DEF Links, NoLink
<1>7. Patient' /\ bound' \in [Links -> SUBSET Handlers] /\ \A c \in Links : bound'[c] = {}
  BY <1>1, <1>3, <1>4, <1>8 DEF Patient
<1>9. LateIsWanted'  BY <1>1 DEF Wired, LateIsWanted
<1> QED  BY <1>1, <1>3, <1>4, <1>5, <1>6, <1>7, <1>9, WorksOn

LEMMA EndsWhere ==
  ASSUME NEW t \in Tasks, at' = [at EXCEPT ![t] = IF t = Run THEN "top" ELSE "over"]
  PROVE  \E p \in Places \ {"dials", "settles", "retires"} : at' = [at EXCEPT ![t] = p] /\ (t = Shutter => p = "over")
<1>1. "top" \in Places \ {"dials", "settles", "retires"} /\ "over" \in Places \ {"dials", "settles", "retires"}
  BY DEF Places
<1>2. CASE t = Run
  <2>1. at' = [at EXCEPT ![t] = "top"] /\ t # Shutter  BY <1>2, AsyncShape
  <2> QED  BY <1>1, <2>1
<1>3. CASE t # Run
  <2>1. at' = [at EXCEPT ![t] = "over"]  BY <1>3
  <2> QED  BY <1>1, <2>1
<1> QED  BY <1>2, <1>3

LEMMA RetiredKeeps ==
  ASSUME AsyncInv, NEW t \in Tasks, Retired(t)
  PROVE  AsyncInv'
<1> USE DEF AsyncInv
<1>1. /\ at[t] = "retires" /\ \E how \in {"closed", "left"} : link' = [link EXCEPT ![mine[t]] = how]
      /\ mine' = [mine EXCEPT ![t] = NoLink] /\ next' = [next EXCEPT ![t] = "none"]
      /\ UNCHANGED <<current, bound, wanted, late, ended, mood>>
  BY DEF Retired, Retires, Take, Then, subscriptions, hub
<1>2. /\ Holds(t) /\ mine[t] \in Links /\ Open \subseteq {mine[t]} /\ current = NoLink
      /\ at[Shutter] # "over" /\ next[t] # "none"
  BY <1>1 DEF Working, WorkersHold, OpenIsHeld, ShutterOnlyShuts, Purposes
<1>3. /\ mine \in [Tasks -> Links \cup {NoLink}] /\ next \in [Tasks -> {"none", "dial", "failed", "refused", "end"}]
      /\ link \in [Links -> {"unbuilt", "live", "dead", "closed", "left"}]
      /\ bound \in [Links -> SUBSET Handlers] /\ next[Shutter] \in {"none", "end"}
  BY DEF AsyncTables, ShutterOnlyShuts
<1>4. link' \in [Links -> {"unbuilt", "live", "dead", "closed", "left"}] /\ Open' = {}  BY <1>1, <1>2, <1>3 DEF Open
<1>5. mine' \in [Tasks -> Links \cup {NoLink}]  BY <1>1, <1>3
<1>6. /\ next' \in [Tasks -> {"none", "dial", "failed", "refused", "end"}] /\ next'[t] = "none"
      /\ \A u \in Tasks : u # t => next'[u] = next[u]
  BY <1>1, <1>3
<1>7. next'[Shutter] \in {"none", "end"} /\ (t = Shutter => next[t] = "end" /\ ended)
  BY <1>1, <1>2, <1>3, <1>6 DEF Tasks, ShutterOnlyShuts
<1>8. bound' \in [Links -> SUBSET Handlers] /\ \A c \in Links : bound'[c] = {}
  BY <1>1, <1>2, <1>3, BoundWhere DEF Links, NoLink
<1>9. CarriesWhatIsWanted' /\ LateIsWanted'
  BY <1>1, <1>2, <1>8 DEF CarriesWhatIsWanted, Wired, LateIsWanted
<1>10. CASE next[t] = "dial"
  <2>1. at' = [at EXCEPT ![t] = "dials"] /\ UNCHANGED <<queue, supervisor>>  BY <1>10 DEF Retired, Go
  <2>2. Patient'  BY <1>1, <2>1 DEF Patient, supervisor
  <2> QED  BY <1>1, <1>2, <1>4, <1>5, <1>6, <1>7, <1>8, <1>9, <1>10, <2>1, <2>2, WorksOn
<1>11. CASE next[t] = "end"
  <2>1. Release /\ UNCHANGED supervisor /\ at' = [at EXCEPT ![t] = IF t = Run THEN "top" ELSE "over"]
    BY <1>11 DEF Retired, Go
  <2>2. Patient'  BY <1>1, <2>1 DEF Patient, supervisor
  <2>3. PICK p \in Places \ {"dials", "settles", "retires"} : at' = [at EXCEPT ![t] = p] /\ (t = Shutter => p = "over")
    BY <2>1, EndsWhere
  <2> QED  BY <1>1, <1>2, <1>4, <1>5, <1>6, <1>7, <1>8, <1>9, <2>1, <2>2, <2>3, LetsGo
<1>12. CASE next[t] \in {"failed", "refused"}
  <2>1. Release /\ Raises(t, next[t]) /\ t # Shutter  BY <1>7, <1>12 DEF Retired
  <2>2. Patient' /\ \E p \in {"over", "sleeps", "gaveUp"} : at' = [at EXCEPT ![t] = p]  BY <1>1, <1>12, <2>1, Ladder
  <2>3. PICK p \in Places \ {"dials", "settles", "retires"} : at' = [at EXCEPT ![t] = p]  BY <2>2 DEF Places
  <2> QED  BY <1>1, <1>2, <1>4, <1>5, <1>6, <1>7, <1>8, <1>9, <2>1, <2>2, <2>3, LetsGo
<1> QED  BY <1>2, <1>3, <1>10, <1>11, <1>12

LEMMA DropKeeps ==
  ASSUME AsyncInv, NEW t \in Tasks, Drop(t)
  PROVE  AsyncInv'
<1> USE DEF AsyncInv
<1>1. /\ at[t] = "drops" /\ Holds(t) /\ ~Working(t) /\ mine' = [mine EXCEPT ![t] = Dropped(t)]
      /\ UNCHANGED <<link, wanted, late, ended, mood, rung, refusedFor, patience>>
  BY DEF Drop, Take, subscriptions, supervisor, hub, Working
<1>2. Open \subseteq {current} /\ (current = NoLink => Open = {}) /\ Open' = Open
  BY <1>1, NothingElseOpen DEF Open
<1>3. /\ mine \in [Tasks -> Links \cup {NoLink}] /\ next \in [Tasks -> {"none", "dial", "failed", "refused", "end"}]
      /\ current \in Links \cup {NoLink} /\ link \in [Links -> {"unbuilt", "live", "dead", "closed", "left"}]
      /\ bound \in [Links -> SUBSET Handlers] /\ next[Shutter] \in {"none", "end"}
      /\ (at[Shutter] = "over" => current = NoLink) /\ (t = Shutter => ended)
  BY <1>1 DEF AsyncTables, ShutterOnlyShuts
<1>4. /\ Dropped(t) \in {NoLink, current} /\ mine' \in [Tasks -> Links \cup {NoLink}] /\ mine'[t] = Dropped(t)
      /\ (t = Shutter => Dropped(t) = current)
  BY <1>1, <1>3, AsyncShape DEF Dropped, NoLink
<1>5. /\ Patient' /\ (current # NoLink => bound[current] = wanted \ late) /\ \A c \in Links : bound[c] \subseteq wanted
      /\ \A c \in Links : bound[c] # {} => c = current
  BY <1>1, BoundWhere DEF Patient, Wired, CarriesWhatIsWanted, Working, LateIsWanted
<1>8. LateIsWanted'  BY <1>1 DEF Wired, LateIsWanted
<1>6. CASE Dropped(t) = NoLink
  <2>1. Release /\ UNCHANGED <<next, current, bound>> /\ at' = [at EXCEPT ![t] = IF t = Run THEN "top" ELSE "over"]
    BY <1>6 DEF Drop, Go
  <2>2. PICK p \in Places \ {"dials", "settles", "retires"} : at' = [at EXCEPT ![t] = p] /\ (t = Shutter => p = "over")
    BY <2>1, EndsWhere
  <2>3. CarriesWhatIsWanted'  BY <1>1, <1>5, <2>1 DEF CarriesWhatIsWanted
  <2> QED  BY <1>1, <1>2, <1>3, <1>4, <1>5, <1>6, <2>1, <2>2, <2>3, <1>8, LetsGo
<1>7. CASE Dropped(t) # NoLink
  <2>1. queue' = queue /\ current' = NoLink /\ at' = [at EXCEPT ![t] = "retires"] /\ next' = [next EXCEPT ![t] = "end"]
        /\ bound' = [bound EXCEPT ![current] = {}]
    BY <1>7 DEF Drop, Go, Then, Unbinds
  <2>2. /\ next' \in [Tasks -> {"none", "dial", "failed", "refused", "end"}] /\ next'[t] = "end"
        /\ \A u \in Tasks : u # t => next'[u] = next[u]
    BY <1>3, <2>1
  <2>3. next'[Shutter] \in {"none", "end"}  BY <1>3, <2>2 DEF Tasks
  <2>4. mine'[t] = current /\ current \in Links /\ at[Shutter] # "over"  BY <1>3, <1>4, <1>7
  <2>5. bound' \in [Links -> SUBSET Handlers] /\ \A c \in Links : bound'[c] = {}
    BY <1>3, <1>5, <2>1
  <2> QED  BY <1>1, <1>2, <1>3, <1>4, <1>5, <2>1, <2>2, <2>3, <2>4, <2>5, <1>8, WorksOn
<1> QED  BY <1>6, <1>7

LEMMA WaitsKeep ==
  ASSUME AsyncInv, NEW t \in Tasks, Call(t) \/ CallEnds(t) \/ (t = Run /\ RunTurn)
  PROVE  AsyncInv'
<1> USE DEF AsyncInv
<1>1. mine \in [Tasks -> Links \cup {NoLink}] /\ current \in Links \cup {NoLink}  BY DEF AsyncTables
<1>2. CASE Call(t)
  <2>1. /\ t # Shutter /\ ~Working(t) /\ UNCHANGED <<next, current, link, bound, wanted, late, ended>>
        /\ UNCHANGED <<rung, refusedFor, patience, mood>>
    BY <1>2, AsyncShape DEF Call, Working, subscriptions, supervisor, hub
  <2>2. (queue' = Append(queue, t) \/ queue' = queue) /\ mine' \in [Tasks -> Links \cup {NoLink}]
        /\ \A u \in Tasks : u # t => mine'[u] = mine[u]
    BY <1>1, <1>2 DEF Call, Take
  <2>3. PICK p \in Places \ {"dials", "settles", "retires"} : at' = [at EXCEPT ![t] = p]
    BY <1>2 DEF Call, Go, Places
  <2>4. Patient'  BY <2>1 DEF Patient
  <2> QED  BY <2>1, <2>2, <2>3, <2>4, WaitingTurns
<1>3. CASE CallEnds(t)
  <2>1. /\ t # Shutter /\ ~Working(t) /\ UNCHANGED <<mine, next, current, link, bound, wanted, late, ended>>
        /\ UNCHANGED <<rung, refusedFor, patience, mood>>
    BY <1>3 DEF CallEnds, Working, subscriptions, supervisor, hub, ShutterOnlyShuts
  <2>2. queue' = Append(queue, t) \/ queue' = queue  BY <1>3 DEF CallEnds
  <2>3. PICK p \in Places \ {"dials", "settles", "retires"} : at' = [at EXCEPT ![t] = p]
    BY <1>3 DEF CallEnds, Go, Places
  <2>4. Patient'  BY <2>1 DEF Patient
  <2> QED  BY <1>1, <2>1, <2>2, <2>3, <2>4, WaitingTurns
<1>4. CASE t = Run /\ (RunTop \/ HoldEnds)
  <2>1. /\ t # Shutter /\ ~Working(t) /\ UNCHANGED <<mine, next, current, link, bound, wanted, late, ended>>
        /\ UNCHANGED <<rung, refusedFor, patience, mood>>
    BY <1>4, AsyncShape DEF RunTop, HoldEnds, Working, subscriptions, supervisor, hub
  <2>2. queue' = Append(queue, t) \/ queue' = queue  BY <1>4 DEF RunTop, HoldEnds
  <2>3. PICK p \in Places \ {"dials", "settles", "retires"} : at' = [at EXCEPT ![t] = p]
    BY <1>4 DEF RunTop, HoldEnds, Go, Places
  <2>4. Patient'  BY <2>1 DEF Patient
  <2> QED  BY <1>1, <2>1, <2>2, <2>3, <2>4, WaitingTurns
<1>5. CASE t = Run /\ Sleep
  <2>1. /\ t # Shutter /\ ~Working(t) /\ UNCHANGED <<mine, next, queue, current, link, bound, wanted, late, ended, mood, rung>>
        /\ at' = [at EXCEPT ![t] = "top"] /\ "top" \in Places \ {"dials", "settles", "retires"}
    BY <1>5, AsyncShape DEF Sleep, Go, Places, Working, subscriptions, hub
  <2>2. refusedFor' = (IF refusedFor = Never THEN Never ELSE Sooner(refusedFor + rung, Grace))
        /\ patience' = Sooner(patience + rung, Grace)
    BY <1>5 DEF Sleep
  <2>3. Patient'  BY <2>1, <2>2, AsyncShape DEF Patient, Sooner, Never
  <2> QED  BY <1>1, <2>1, <2>3, WaitingTurns
<1> QED  BY <1>2, <1>3, <1>4, <1>5 DEF RunTurn

LEMMA CloseKeeps ==
  ASSUME AsyncInv, Close
  PROVE  AsyncInv'
<1> USE DEF AsyncInv
<1>1. /\ at[Shutter] = "idle" /\ ended' = TRUE /\ at' = [at EXCEPT ![Shutter] = "drops"]
      /\ queue' = Append(queue, Shutter)
      /\ UNCHANGED <<mine, next, current, link, bound, wanted, late, rung, refusedFor, patience, mood>>
  BY DEF Close, Go, subscriptions, supervisor, hub
<1>2. Shutter \in Tasks /\ "drops" \in Places \ {"dials", "settles", "retires"} /\ ~Working(Shutter)
  BY <1>1 DEF Tasks, Places, Working
<1>3. queue' \in Seq(Tasks) /\ \A u \in Tasks : Holds(u) => Holds(u)'
  BY <1>1, <1>2, JoinsTheQueue DEF AsyncTables
<1>4. /\ at' \in [Tasks -> Places] /\ at'[Shutter] = "drops" /\ \A u \in Tasks : u # Shutter => at'[u] = at[u]
  BY <1>1, <1>2 DEF AsyncTables
<1>5. \A u \in Tasks : (Working(u)' <=> Working(u)) /\ (Working(u) => u # Shutter)
  BY <1>1, <1>2, <1>4 DEF Working
<1>6. AsyncTables' /\ Purposes'  BY <1>1, <1>3, <1>4 DEF AsyncTables, Purposes
<1>7. WorkersHold' /\ Open' = Open  BY <1>1, <1>3, <1>5 DEF WorkersHold, Open
<1>8. OpenIsHeld'  BY <1>1, <1>4, <1>5, <1>7 DEF OpenIsHeld, Working
<1>9. ShutterOnlyShuts' /\ Patient'  BY <1>1, <1>4 DEF ShutterOnlyShuts, Patient
<1>10. Wired'
  <2>1. \A u \in Tasks : at[u] = "settles" <=> at'[u] = "settles"  BY <1>1, <1>4
  <2>2. CarriesWhatIsWanted'  BY <1>1, <2>1 DEF Wired, CarriesWhatIsWanted, LateIsWanted
  <2> QED  BY <1>1, <2>1, <2>2 DEF Wired, LateIsWanted
<1> QED  BY <1>6, <1>7, <1>8, <1>9, <1>10

(* What the application subscribes and unsubscribes, the end of a link, the hub. *)
LEMMA SurroundingsKeep ==
  ASSUME AsyncInv, (\E h \in Handlers : On(h) \/ Off(h)) \/ (\E c \in Links : LinkDies(c)) \/ HubChanges
                   \/ UNCHANGED aVars
  PROVE  AsyncInv'
<1> USE DEF AsyncInv
<1>1. UNCHANGED <<at, mine, next, queue, current, ended, rung, refusedFor, patience>>
  BY DEF On, Off, LinkDies, HubChanges, subscriptions, supervisor, aVars
<1>2. \A u \in Tasks : (Working(u)' <=> Working(u)) /\ (Holds(u)' <=> Holds(u))  BY <1>1 DEF Working, Holds
<1>3. mood' \in Moods /\ link' \in [Links -> {"unbuilt", "live", "dead", "closed", "left"}] /\ Open' = Open
  <2>1. mood \in Moods /\ link \in [Links -> {"unbuilt", "live", "dead", "closed", "left"}]  BY DEF Patient, AsyncTables
  <2>2. CASE \E c \in Links : LinkDies(c)  BY <2>1, <2>2 DEF LinkDies, Open, hub
  <2>3. CASE (\E h \in Handlers : On(h) \/ Off(h)) \/ UNCHANGED aVars  BY <2>1, <2>3 DEF On, Off, hub, aVars, Open
  <2>4. CASE HubChanges  BY <2>1, <2>4 DEF HubChanges, Open
  <2> QED  BY <2>2, <2>3, <2>4
<1>4. bound' \in [Links -> SUBSET Handlers] /\ wanted' \subseteq Handlers /\ Wired'
  <2>1. bound \in [Links -> SUBSET Handlers] /\ wanted \subseteq Handlers /\ current \in Links \cup {NoLink}
    BY DEF AsyncTables
  <2>2. ASSUME NEW h \in Handlers, On(h)
        PROVE  bound' \in [Links -> SUBSET Handlers] /\ wanted' \subseteq Handlers /\ Wired'
    <3>1. /\ wanted' = wanted \cup {h} /\ bound' = IF current = NoLink THEN bound ELSE [bound EXCEPT ![current] = @ \cup {h}]
          /\ late' = IF \E t \in Tasks : at[t] = "settles" THEN late \cup {h} ELSE late
      BY <2>2 DEF On
    <3>2. /\ bound' \in [Links -> SUBSET Handlers] /\ (current # NoLink => bound'[current] = bound[current] \cup {h})
          /\ \A c \in Links : c # current => bound'[c] = bound[c]
      BY <2>1, <3>1
    <3>3. ASSUME NEW t \in Tasks, at[t] = "settles"  PROVE bound'[mine[t]] = wanted' \ late'
      <4>1. mine[t] \in Links /\ bound[mine[t]] = wanted \ late /\ current = NoLink
        BY <3>3 DEF OpenIsHeld, Wired, WorkersHold, Working, LateIsWanted
      <4>2. late' = late \cup {h} /\ h \notin wanted  BY <2>2, <3>1, <3>3 DEF On
      <4> QED  BY <3>1, <4>1, <4>2
    <3>4. current # NoLink => bound'[current] = wanted' \ late'
      <4>1. SUFFICES ASSUME current # NoLink PROVE bound'[current] = wanted' \ late'  OBVIOUS
      <4>2. ~\E t \in Tasks : at[t] = "settles"  BY <4>1 DEF WorkersHold, Working
      <4>3. late' = late /\ h \notin late  BY <2>2, <3>1, <4>2 DEF On, Wired, LateIsWanted
      <4>4. bound[current] = wanted \ late  BY <4>1 DEF Wired, CarriesWhatIsWanted, LateIsWanted
      <4> QED  BY <3>1, <3>2, <4>1, <4>3, <4>4
    <3>5. late' \subseteq wanted'  BY <3>1 DEF Wired, LateIsWanted
    <3>6. ASSUME NEW c \in Links
          PROVE  /\ bound'[c] # {} => c = current \/ \E t \in Tasks : mine[t] = c /\ at[t] = "settles"
                 /\ bound'[c] \subseteq wanted'
      BY <3>1, <3>2 DEF Wired, CarriesWhatIsWanted, LateIsWanted
    <3>7. CarriesWhatIsWanted'  BY <1>1, <3>4, <3>6 DEF CarriesWhatIsWanted
    <3> QED  BY <1>1, <2>1, <3>1, <3>2, <3>3, <3>5, <3>7 DEF Wired, LateIsWanted
  <2>3. ASSUME NEW h \in Handlers, Off(h)
        PROVE  bound' \in [Links -> SUBSET Handlers] /\ wanted' \subseteq Handlers /\ Wired'
    <3>1. wanted' = wanted \ {h} /\ bound' = [c \in Links |-> bound[c] \ {h}] /\ late' = late \ {h}
      BY <2>3 DEF Off, Unbound
    <3>2. CarriesWhatIsWanted'
      <4>1. current' = current  BY <1>1
      <4>2. current # NoLink => bound[current] = wanted \ late /\ current \in Links
        BY <2>1 DEF Wired, CarriesWhatIsWanted, LateIsWanted
      <4>3. current # NoLink => bound'[current] = wanted' \ late'  BY <3>1, <4>2
      <4>4. ASSUME NEW c \in Links
            PROVE  /\ bound'[c] # {} => c = current \/ \E t \in Tasks : mine[t] = c /\ at[t] = "settles"
                   /\ bound'[c] \subseteq wanted'
        BY <3>1 DEF Wired, CarriesWhatIsWanted, LateIsWanted
      <4> QED  BY <1>1, <4>1, <4>3, <4>4 DEF CarriesWhatIsWanted
    <3>3. ASSUME NEW t \in Tasks, at[t] = "settles"  PROVE bound'[mine[t]] = wanted' \ late'
      <4>1. mine[t] \in Links /\ bound[mine[t]] = wanted \ late  BY <3>3 DEF OpenIsHeld, Wired, LateIsWanted
      <4> QED  BY <3>1, <4>1
    <3>4. late' \subseteq wanted'  BY <3>1 DEF Wired, LateIsWanted
    <3> QED  BY <1>1, <2>1, <3>1, <3>2, <3>3, <3>4 DEF Wired, LateIsWanted
  <2>4. CASE (\E c \in Links : LinkDies(c)) \/ HubChanges \/ UNCHANGED aVars
    <3>1. UNCHANGED <<wanted, late, bound>>  BY <2>4 DEF LinkDies, HubChanges, subscriptions, aVars
    <3> QED  BY <1>1, <2>1, <3>1 DEF Wired, CarriesWhatIsWanted, LateIsWanted
  <2> QED  BY <2>2, <2>3, <2>4
<1>5. AsyncTables'  BY <1>1, <1>3, <1>4 DEF AsyncTables
<1>6. WorkersHold' /\ OpenIsHeld'  BY <1>1, <1>2, <1>3 DEF WorkersHold, OpenIsHeld
<1>7. Purposes' /\ ShutterOnlyShuts'  BY <1>1, <1>2 DEF Purposes, ShutterOnlyShuts
<1>8. Patient'  BY <1>1, <1>3 DEF Patient
<1> QED  BY <1>4, <1>5, <1>6, <1>7, <1>8

LEMMA AsyncKeeps == AsyncInv /\ [AsyncNext]_aVars => AsyncInv'
<1> SUFFICES ASSUME AsyncInv, [AsyncNext]_aVars PROVE AsyncInv'  OBVIOUS
<1>1. ASSUME NEW t \in Tasks, Turn(t)  PROVE AsyncInv'
  <2>1. CASE Enter(t)  BY <2>1, EnterKeeps
  <2>2. CASE Dialled(t) \/ DialFails(t)  BY <2>2, DialledKeeps, DialFailsKeeps
  <2>3. CASE Settled(t) \/ SettleFails(t)  BY <2>3, SettledKeeps, SettleFailsKeeps
  <2>4. CASE Retired(t) \/ Drop(t)  BY <2>4, RetiredKeeps, DropKeeps
  <2>5. CASE CallEnds(t)
    <3>1. Call(t) \/ CallEnds(t) \/ (t = Run /\ RunTurn)  BY <2>5
    <3> QED  BY <3>1, WaitsKeep
  <2> QED  BY <1>1, <2>1, <2>2, <2>3, <2>4, <2>5 DEF Turn
<1>2. ASSUME NEW t \in Tasks, Call(t)  PROVE AsyncInv'
  <2>1. Call(t) \/ CallEnds(t) \/ (t = Run /\ RunTurn)  BY <1>2
  <2> QED  BY <2>1, WaitsKeep
<1>3. CASE RunTurn
  <2>1. Run \in Tasks  BY DEF Tasks
  <2> QED  BY <1>3, <2>1, WaitsKeep
<1>4. CASE Close  BY <1>4, CloseKeeps
<1>5. CASE (\E h \in Handlers : On(h) \/ Off(h)) \/ (\E c \in Links : LinkDies(c)) \/ HubChanges \/ UNCHANGED aVars
  BY <1>5, SurroundingsKeep
<1> QED  BY <1>1, <1>2, <1>3, <1>4, <1>5 DEF AsyncNext

LEMMA AsyncIsRight == AsyncInv => OneLink /\ ClosedStaysClosed /\ CarriesWhatIsWanted
<1> SUFFICES ASSUME AsyncInv PROVE OneLink /\ ClosedStaysClosed /\ CarriesWhatIsWanted  OBVIOUS
<1>1. WorkersHold /\ OpenIsHeld /\ ShutterOnlyShuts /\ CarriesWhatIsWanted  BY DEF AsyncInv, Wired, LateIsWanted
<1>2. \A c \in Open : c = current \/ \E t \in Tasks : mine[t] = c /\ Holds(t)
  BY <1>1 DEF WorkersHold, OpenIsHeld, Working
<1>3. \E c : Open \subseteq {c}  BY <1>1 DEF OpenIsHeld, Working
<1>4. Cardinality(Open) <= 1  BY <1>3, AtMostOne
<1>5. ClosedStaysClosed
  <2>1. NoLink \notin Open  BY DEF Open, Links, NoLink
  <2> QED  BY <1>1, <2>1 DEF ClosedStaysClosed, ShutterOnlyShuts, OpenIsHeld
<1> QED  BY <1>1, <1>2, <1>4, <1>5 DEF OneLink

(* run() gives up where the ladder says so: a whole grace of refusals, or a hub  *)
(* with another key.                                                             *)
LEMMA GivesUpInTime ==
  ASSUME AsyncInv, [AsyncNext]_aVars, at[Run] # "gaveUp", at'[Run] = "gaveUp", ~(at[Run] = "dials" /\ mood = "rekeyed")
  PROVE  patience = Grace
<1>1. Run \in Tasks /\ Run # Shutter /\ at \in [Tasks -> Places]  BY AsyncShape DEF Tasks, AsyncInv, AsyncTables
<1>2. UNCHANGED at \/ (\E t \in Tasks : Call(t) \/ Turn(t)) \/ RunTurn \/ Close
  BY DEF AsyncNext, aVars, On, Off, LinkDies, HubChanges
<1>3. ~Close /\ ~RunTurn /\ at' # at
  BY <1>1 DEF Close, RunTurn, RunTop, HoldEnds, Sleep, Go
<1>4. PICK t \in Tasks : Call(t) \/ Turn(t)  BY <1>2, <1>3
<1>5. t = Run
  <2>1. t # Run => at'[Run] = at[Run]
    <3> SUFFICES ASSUME t # Run PROVE at'[Run] = at[Run]  OBVIOUS
    <3>1. CASE Call(t) \/ CallEnds(t)  BY <1>1, <3>1 DEF Call, CallEnds, Go
    <3>2. CASE Drop(t) \/ Retired(t)  BY <1>1, <3>2 DEF Drop, Retired, Raises, Go
    <3>3. CASE Settled(t) \/ SettleFails(t) \/ Dialled(t)  BY <1>1, <3>3 DEF Settled, SettleFails, Dialled, Go
    <3>4. CASE DialFails(t) \/ Enter(t)  BY <1>1, <3>4 DEF DialFails, Enter, Raises, Go
    <3> QED  BY <1>4, <3>1, <3>2, <3>3, <3>4 DEF Turn
  <2> QED  BY <2>1
<1>6. ASSUME NEW o \in {"failed", "refused"}, Raises(Run, o), UNCHANGED mood
      PROVE  patience = Grace
  <2>1. PICK p \in {"over", "sleeps", "gaveUp"} : at' = [at EXCEPT ![Run] = p] /\ (p = "gaveUp" => o = "rekeyed" \/ patience = Grace)
    BY <1>1, <1>6, Ladder
  <2> QED  BY <1>1, <2>1
<1>7. CASE Call(Run) \/ CallEnds(Run) \/ Drop(Run) \/ Settled(Run) \/ SettleFails(Run) \/ Dialled(Run)
  BY <1>1, <1>7 DEF Call, CallEnds, Drop, Settled, SettleFails, Dialled, Go
<1>8. CASE Enter(Run)
  <2>1. mood' = mood  BY <1>8 DEF Enter, hub
  <2>2. CASE Raises(Run, "failed")  BY <1>6, <2>1, <2>2
  <2>3. CASE ~Raises(Run, "failed")
    <3>1. PICK p \in {"top", "calls", "retires", "dials"} : at' = [at EXCEPT ![Run] = p]  BY <1>8, <2>3 DEF Enter, Go
    <3> QED  BY <1>1, <3>1
  <2> QED  BY <2>2, <2>3
<1>9. CASE DialFails(Run)
  <2>1. mood' = mood /\ mood \in Moods /\ mood # "rekeyed"  BY <1>9 DEF DialFails, hub, AsyncInv, Patient
  <2>2. \E o \in {"failed", "refused"} : Raises(Run, o)  BY <1>9, <2>1 DEF DialFails, Moods
  <2> QED  BY <1>6, <2>1, <2>2
<1>10. CASE Retired(Run)
  <2>1. mood' = mood /\ next[Run] \in {"dial", "failed", "refused", "end"}
    BY <1>1, <1>10 DEF Retired, hub, AsyncInv, AsyncTables, Purposes
  <2>2. CASE next[Run] \in {"dial", "end"}  BY <1>1, <1>10, <2>2 DEF Retired, Go
  <2>3. CASE next[Run] \in {"failed", "refused"}  BY <1>6, <1>10, <2>1, <2>3 DEF Retired
  <2> QED  BY <2>1, <2>2, <2>3
<1> QED  BY <1>4, <1>5, <1>7, <1>8, <1>9, <1>10 DEF Turn

-----------------------------------------------------------------------------
(* The four parts together: a step is one part's, and the others stand still.    *)
SessionsInv == SessionInv /\ AsyncInv /\ HomeInv /\ OriginInv

LEMMA SessionsStart == Init => SessionsInv
BY SessionInitial, AsyncInitial, HomeInitial, OriginInitial DEF Init, SessionsInv

LEMMA EachPartSteps ==
  ASSUME [Next]_vars
  PROVE  [SessionNext]_sessionVars /\ [AsyncNext]_aVars /\ [HomeNext]_homeVars /\ [OriginNext]_originVars
BY DEF Next, vars

LEMMA SessionsKeep == SessionsInv /\ [Next]_vars => SessionsInv'
BY EachPartSteps, SessionKeeps, AsyncKeeps, HomeKeeps, OriginKeeps DEF SessionsInv

LEMMA SessionsAreRight ==
  SessionsInv => OneOfEach /\ HandlersAreCarried /\ StuckHandlersAreBounded
BY SessionIsRight, AsyncIsRight, HomeIsRight, OriginIsRight
   DEF SessionsInv, OneOfEach, HandlersAreCarried

(* One link of every session: at most one client is still to be closed, held,    *)
(* retired or in the hands of the lock's holder, none once close() has returned  *)
(* and none closed under a call.  The threads' session keeps a client whose      *)
(* close() raised among those; asyncio's does not.  A preference dials one origin*)
(* at a time and puts the resolver back (session.py 186-425, 584-696, 787-893).  *)
THEOREM OneLinkOfEach == Spec => []OneOfEach
<1>1. Init => SessionsInv  BY SessionsStart
<1>2. SessionsInv /\ [Next]_vars => SessionsInv'  BY SessionsKeep
<1>3. SessionsInv => OneOfEach  BY SessionsAreRight
<1> QED  BY <1>1, <1>2, <1>3, PTL DEF Spec

(* The client that is current carries exactly what is subscribed, apart, in      *)
(* asyncio's session, from what came while that very client settled; nothing is  *)
(* bound on a client given up, nothing unsubscribed on any (session.py 236-276,  *)
(* 550-610, 685).                                                                *)
THEOREM CurrentCarriesTheHandlers == Spec => []HandlersAreCarried
<1>1. Init => SessionsInv  BY SessionsStart
<1>2. SessionsInv /\ [Next]_vars => SessionsInv'  BY SessionsKeep
<1>3. SessionsInv => HandlersAreCarried  BY SessionsAreRight
<1> QED  BY <1>1, <1>2, <1>3, PTL DEF Spec

(* However many requests time out with their handler still running, no more      *)
(* threads run than there are slots (home.py 346-425).                           *)
THEOREM StuckHandlersStayBounded == Spec => []StuckHandlersAreBounded
<1>1. Init => SessionsInv  BY SessionsStart
<1>2. SessionsInv /\ [Next]_vars => SessionsInv'  BY SessionsKeep
<1>3. SessionsInv => StuckHandlersAreBounded  BY SessionsAreRight
<1> QED  BY <1>1, <1>2, <1>3, PTL DEF Spec

LEMMA OnlyItsOwnLink ==
  ASSUME NEW t \in Asking, Drop(t), current # NoLink, current' = NoLink
  PROVE  mine[t] = current
BY DEF Drop, Dropped

(* Nothing acts on what is no longer so: run() gives up on refusals only after a *)
(* whole grace of them, a failed call drops its own client alone, "timeout" is   *)
(* said only of a handler that had its time or found every thread taken, and     *)
(* nothing starts once unsubscribe() has returned (session.py 135-156, 719-724;  *)
(* home.py 346-425).                                                             *)
THEOREM NothingActsTooLate == Spec => NothingActsLate
<1> DEFINE Hasty == at[Run] # "gaveUp" /\ at'[Run] = "gaveUp" /\ ~(at[Run] = "dials" /\ mood = "rekeyed")
                      => patience = Grace
           Own == \A t \in Asking : Drop(t) /\ current # NoLink /\ current' = NoLink => mine[t] = current
           True == \A r \in Requests : saying[r] = "nothing" /\ saying'[r] = "timeout"
                     => age[r] >= Timeout \/ Cardinality({q \in Requests : thread[q] = "runs"}) >= Slots
           Quiet == off => \A r \in Requests : /\ stage'[r] = "writes" => stage[r] = "writes"
                                               /\ thread'[r] = "runs" => thread[r] = "runs"
<1>1. Init => SessionsInv  BY SessionsStart
<1>2. SessionsInv /\ [Next]_vars => SessionsInv'  BY SessionsKeep
<1>3. SessionsInv /\ [Next]_vars => Hasty /\ Own /\ True /\ Quiet
  <2> SUFFICES ASSUME SessionsInv, [Next]_vars PROVE Hasty /\ Own /\ True /\ Quiet  OBVIOUS
  <2>1. AsyncInv /\ HomeInv /\ [AsyncNext]_aVars /\ [HomeNext]_homeVars  BY EachPartSteps DEF SessionsInv
  <2>2. Hasty  BY <2>1, GivesUpInTime
  <2>3. Own  BY OnlyItsOwnLink
  <2>4. True  BY <2>1, TimeoutSaidTruly
  <2>5. Quiet  BY <2>1, QuietOnceOff
  <2> QED  BY <2>2, <2>3, <2>4, <2>5
<1>4. Spec => [][Hasty]_aVars /\ [][Own]_aVars /\ [][True]_homeVars /\ [][Quiet]_homeVars
  <2> HIDE DEF Hasty, Own, True, Quiet
  <2> QED  BY <1>1, <1>2, <1>3, PTL DEF Spec
<1> QED  BY <1>4 DEF NothingActsLate, NeverHasty, OwnLinkOnly, TimeoutIsTrue, QuietAfterUnsubscribe

==============================================================================
