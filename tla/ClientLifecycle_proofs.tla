----------------------- MODULE ClientLifecycle_proofs -----------------------
(***************************************************************************)
(* ClientLifecycle, for every set of callers and closers and every kind of *)
(* link: its types, the one owner of the connection, and what it means for *)
(* the client to count as closed.                                          *)
(***************************************************************************)
EXTENDS ClientLifecycle, FiniteSetTheorems, TLAPS

\* A call that waits, or asks the link, has no attempt yet.
CallersApart ==
    \A c \in Calls :
        caller[c] \in {"probing", "waiting", "reprobing"} => task[c] = "none"

\* An attempt that runs is pending or cancelled, one that cleans up is
\* cancelled, and a cleanup task belongs to a cancelled attempt that runs.
AttemptsFit ==
    \A c \in Calls :
        /\ outcome[c] = "pending" => task[c] # "none"
        /\ task[c] # "none" => outcome[c] \in {"pending", "cancelled"}
        /\ task[c] \in {"settling", "again"} => outcome[c] = "cancelled"
        /\ c \in retiring => task[c] # "none" /\ outcome[c] = "cancelled"
        /\ task[c] = "again" => c \notin retiring

\* The two counters count what they stand for.
Cancelled == {c \in Calls : task[c] # "none" /\ outcome[c] = "cancelled"}
Open == {k \in Closers : closer[k] \in {"starting", "waiting", "disconnecting"}}
CountersFit ==
    /\ cleanups = IF Cancelled = {} THEN 0 ELSE 1
    /\ closing = Cardinality(Open)

\* The client counts as closed only while both counters are zero.
ClosedFits == closedState => closing = 0 /\ cleanups = 0

\* What the inductive invariant says beyond the types.
Core == OneOwner /\ CallersApart /\ AttemptsFit /\ CountersFit /\ ClosedFits

\* The inductive invariant.
IInv == TypeOK /\ Core

-----------------------------------------------------------------------------
(* What Core does not depend on, and the few ways in which it is disturbed. *)

\* An attempt owns the connection alone.
LEMMA SoleOwner ==
    ASSUME IInv, NEW c \in Calls, task[c] # "none" \/ caller[c] = "reprobing"
    PROVE  /\ Owners = {c} /\ held
           /\ \A d \in Calls \ {c} : task[d] = "none" /\ caller[d] # "reprobing"
           /\ Cancelled \subseteq {c}
<1>1. Owners = {c}
  BY ConstantsAssumption DEF IInv, Core, OneOwner, Owners
<1>2. held
  BY <1>1 DEF IInv, Core, OneOwner
<1>3. \A d \in Calls \ {c} : task[d] = "none" /\ caller[d] # "reprobing"
  BY <1>1, ConstantsAssumption DEF Owners
<1> QED BY <1>1, <1>2, <1>3 DEF Cancelled

\* A call that moves between states in which it owns nothing.
LEMMA CallerMoves ==
    ASSUME IInv,
           UNCHANGED <<held, cleanups, closing, closedState, closer, task, outcome, retiring>>,
           \A d \in Calls :
              \/ caller'[d] = caller[d]
              \/ /\ "reprobing" \notin {caller[d], caller'[d]}
                 /\ caller'[d] \in {"probing", "waiting"} => task[d] = "none"
    PROVE  Core'
<1> USE DEF IInv, Core
<1>1. Owners' = Owners
  BY DEF Owners
<1>2. OneOwner'
  BY <1>1 DEF OneOwner
<1>3. CallersApart' /\ AttemptsFit'
  BY DEF CallersApart, AttemptsFit
<1>4. CountersFit' /\ ClosedFits'
  BY DEF CountersFit, ClosedFits, Cancelled, Open
<1> QED BY <1>2, <1>3, <1>4

\* A call that takes the free token for its second probe.
LEMMA CallerTakes ==
    ASSUME IInv, ~held, NEW c \in Calls, task[c] = "none",
           held' = TRUE, caller' = [caller EXCEPT ![c] = "reprobing"],
           UNCHANGED <<cleanups, closing, closedState, closer, task, outcome, retiring>>
    PROVE  Core'
<1> USE DEF IInv, Core
<1>1. Owners' = {c}
  <2>1. Owners = {}
    BY DEF OneOwner
  <2> QED BY <2>1 DEF Owners, TypeOK
<1>2. OneOwner'
  BY <1>1 DEF OneOwner
<1>3. CallersApart' /\ AttemptsFit'
  BY DEF CallersApart, AttemptsFit, TypeOK
<1>4. CountersFit' /\ ClosedFits'
  BY DEF CountersFit, ClosedFits, Cancelled, Open
<1> QED BY <1>2, <1>3, <1>4

\* A call that gives the token back after its second probe.
LEMMA CallerGivesBack ==
    ASSUME IInv, NEW c \in Calls, caller[c] = "reprobing",
           NEW state \in Idle, caller' = [caller EXCEPT ![c] = state], held' = FALSE,
           UNCHANGED <<cleanups, closing, closedState, closer, task, outcome, retiring>>
    PROVE  Core'
<1> USE DEF IInv, Core, Idle
<1>1. task[c] = "none"
  BY DEF CallersApart
<1>2. Owners' = {}
  BY <1>1, SoleOwner, ConstantsAssumption DEF Owners, TypeOK
<1>3. OneOwner'
  BY <1>2 DEF OneOwner
<1>4. CallersApart' /\ AttemptsFit'
  BY DEF CallersApart, AttemptsFit, TypeOK
<1>5. CountersFit' /\ ClosedFits'
  BY DEF CountersFit, ClosedFits, Cancelled, Open
<1> QED BY <1>3, <1>4, <1>5

\* An attempt is launched by the owner of the token, or by one who takes it.
LEMMA Launched ==
    ASSUME IInv, NEW c \in Calls, task[c] = "none", ~held \/ caller[c] = "reprobing",
           held' = TRUE, caller' = [caller EXCEPT ![c] = "watching"],
           task' = [task EXCEPT ![c] = "starting"],
           outcome' = [outcome EXCEPT ![c] = "pending"],
           UNCHANGED <<cleanups, closing, closedState, closer, retiring>>
    PROVE  Core'
<1> USE DEF IInv, Core
<1>1. Owners' = {c}
  <2>1. Owners \subseteq {c}
    BY SoleOwner DEF OneOwner
  <2> QED BY <2>1, ConstantsAssumption DEF Owners, TypeOK
<1>2. OneOwner'
  BY <1>1 DEF OneOwner
<1>3. CallersApart' /\ AttemptsFit'
  BY DEF CallersApart, AttemptsFit, TypeOK
<1>4. Cancelled' = Cancelled
  BY DEF Cancelled, TypeOK
<1>5. CountersFit' /\ ClosedFits'
  BY <1>4 DEF CountersFit, ClosedFits, Open
<1> QED BY <1>2, <1>3, <1>5

\* An attempt that goes from one piece of its work to another.
LEMMA AttemptMoves ==
    ASSUME IInv, NEW c \in Calls, task[c] # "none", NEW state, state # "none",
           state \in {"settling", "again"} => outcome[c] = "cancelled",
           state = "again" => c \notin retiring,
           task' = [task EXCEPT ![c] = state],
           UNCHANGED <<held, caller, cleanups, closing, closedState, closer, outcome, retiring>>
    PROVE  Core'
<1> USE DEF IInv, Core
<1>1. Owners' = Owners /\ Cancelled' = Cancelled
  BY DEF Owners, Cancelled, TypeOK
<1>2. OneOwner'
  BY <1>1 DEF OneOwner
<1>3. CallersApart' /\ AttemptsFit'
  BY DEF CallersApart, AttemptsFit, TypeOK
<1>4. CountersFit' /\ ClosedFits'
  BY <1>1 DEF CountersFit, ClosedFits, Open
<1> QED BY <1>2, <1>3, <1>4

\* A cancelled attempt ends: its cleanup no longer counts.
LEMMA Finish_IInv ==
    ASSUME IInv, NEW c \in Calls, task[c] \in {"settling", "again"}, c \notin retiring,
           Finish(c), closeErrors' \in BOOLEAN, linkUp' \in BOOLEAN
    PROVE  IInv'
<1> USE DEF IInv, Core
<1>0. cleanups = 1
  BY DEF Cancelled, CountersFit, AttemptsFit, TypeOK
<1>1. TypeOK'
  <2>1. cleanups' \in Nat /\ closing' \in Nat
    BY <1>0 DEF TypeOK, Finish
  <2>2. closedState' \in BOOLEAN
    BY DEF TypeOK, Finish
  <2>3. task' \in [Calls -> TaskStates]
    BY DEF TypeOK, Finish, TaskStates
  <2>4. slot' \in Calls \cup {None} /\ parked' = {} /\ held' = FALSE
    BY DEF TypeOK, Finish, Release
  <2> QED BY <2>1, <2>2, <2>3, <2>4 DEF TypeOK, Finish, askVars
<1>2. OneOwner'
  <2>1. Owners = {c}
    BY ConstantsAssumption DEF TypeOK, OneOwner, Owners
  <2>2. Owners' = {}
    BY <2>1, ConstantsAssumption DEF TypeOK, Finish, Owners, CallersApart
  <2> QED BY <2>2 DEF OneOwner, Finish, Release
<1>3. CallersApart' /\ AttemptsFit'
  BY DEF TypeOK, Finish, CallersApart, AttemptsFit, askVars
<1>4. CountersFit'
  <2>1. Cancelled' = {}
    BY DEF TypeOK, Finish, Cancelled, OneOwner, Owners
  <2>2. Open' = Open
    BY DEF Finish, Open
  <2> QED BY <1>0, <2>1, <2>2 DEF CountersFit, Finish
<1>5. ClosedFits'
  <2>1. closing' = closing /\ cleanups' = 0
    BY <1>0 DEF Finish
  <2>2. ~closedState
    BY <1>0 DEF ClosedFits
  <2>3. closedState' => closing = 0
    BY <2>2 DEF Finish
  <2> QED BY <2>1, <2>3 DEF ClosedFits
<1> QED BY <1>1, <1>2, <1>3, <1>4, <1>5

\* A pending attempt is cancelled: its cleanup counts from now on.
LEMMA Cancelling ==
    ASSUME IInv, NEW c \in Calls, outcome[c] = "pending", Cancel(c),
           closedState' = FALSE, held' = held,
           task' = task \/ task' = [task EXCEPT ![c] = "settling"],
           \A d \in Calls :
              \/ caller'[d] = caller[d]
              \/ {caller[d], caller'[d]} \cap {"probing", "waiting", "reprobing"} = {},
           \A k \in Closers : closer'[k] = "disconnecting" <=> closer[k] = "disconnecting",
           closing' = Cardinality(Open')
    PROVE  Core'
<1> USE DEF IInv, Core
<1>1. task[c] # "none" /\ Cancelled = {} /\ cleanups = 0
  <2>1. task[c] # "none"
    BY DEF AttemptsFit
  <2>2. Cancelled = {}
    BY <2>1, SoleOwner DEF Cancelled
  <2> QED BY <2>1, <2>2 DEF CountersFit
<1>2. Owners' = Owners
  BY <1>1 DEF Owners, TypeOK
<1>3. OneOwner'
  BY <1>2 DEF OneOwner
<1>4. CallersApart'
  BY <1>1 DEF CallersApart, TypeOK
<1>5. AttemptsFit'
  BY <1>1 DEF AttemptsFit, Cancel, TypeOK
<1>6. c \in Cancelled'
  BY <1>1 DEF Cancelled, Cancel, TypeOK
<1>7. cleanups' = 1
  BY <1>1 DEF Cancel
<1>8. CountersFit' /\ ClosedFits'
  BY <1>6, <1>7 DEF CountersFit, ClosedFits
<1> QED BY <1>3, <1>4, <1>5, <1>8

\* A pending attempt is done: the token is free.
LEMMA Completing ==
    ASSUME IInv, NEW c \in Calls, outcome[c] = "pending", Complete(c), caller' = caller
    PROVE  Core'
<1> USE DEF IInv, Core
<1>1. task[c] # "none"
  BY DEF AttemptsFit
<1>2. Owners' = {}
  BY <1>1, SoleOwner, ConstantsAssumption
     DEF Owners, Complete, closeVars, CallersApart, TypeOK
<1>3. OneOwner'
  BY <1>2 DEF OneOwner, Complete, Release
<1>4. CallersApart' /\ AttemptsFit'
  BY <1>1 DEF CallersApart, AttemptsFit, Complete, TypeOK
<1>5. Cancelled' = Cancelled
  BY DEF Cancelled, Complete, TypeOK
<1>6. CountersFit' /\ ClosedFits'
  BY <1>5 DEF CountersFit, ClosedFits, Open, Complete, closeVars
<1> QED BY <1>3, <1>4, <1>6

-----------------------------------------------------------------------------
(* Core, one operation at a time.                                          *)

\* What GiveUp and TakeOwnership do for a call that has no attempt.
LEMMA GiveUp_Core ==
    ASSUME IInv, NEW c \in Calls, caller[c] # "reprobing", GiveUp(c),
           UNCHANGED <<cleanups, closing, closedState, closer>>
    PROVE  Core'
<1>1. \A d \in Calls :
         caller'[d] = caller[d] \/ {caller[d], caller'[d]} \cap {"probing", "waiting", "reprobing"} = {}
                               \/ (d = c /\ caller'[d] = "failed")
  BY DEF GiveUp, Return, IInv, TypeOK
<1> QED BY <1>1, CallerMoves DEF GiveUp, tryVars

LEMMA Decide_Core ==
    ASSUME IInv, NEW c \in Calls, task[c] = "none", ~held \/ caller[c] = "reprobing",
           NEW query \in BOOLEAN, NEW reuse \in BOOLEAN, Decide(c, query, reuse),
           UNCHANGED <<cleanups, closing, closedState, closer>>
    PROVE  Core'
<1>1. CASE Launch(c, reuse)
  BY <1>1, Launched DEF Launch, Suspend
<1>2. CASE /\ Release /\ Return(c, "ready")
           /\ UNCHANGED tryVars
  <2>1. CASE caller[c] = "reprobing"
    BY <1>2, <2>1, CallerGivesBack DEF Release, Return, tryVars, Idle
  <2>2. CASE caller[c] # "reprobing" /\ ~held
    <3>1. held' = held
      BY <1>2, <2>2 DEF Release, IInv, TypeOK
    <3>2. caller' = [caller EXCEPT ![c] = "ready"]
      BY <1>2 DEF Return
    <3> QED BY <1>2, <2>2, <3>1, <3>2, CallerMoves DEF tryVars, IInv, TypeOK
  <2> QED BY <2>1, <2>2
<1> QED BY <1>1, <1>2 DEF Decide

LEMMA TakeOwnership_Core ==
    ASSUME IInv, NEW c \in Calls, task[c] = "none", caller[c] # "reprobing",
           NEW query \in BOOLEAN, NEW current, TakeOwnership(c, query, current),
           UNCHANGED <<cleanups, closing, closedState, closer>>
    PROVE  Core'
<1>1. CASE held /\ Suspend(c, "waiting") /\ UNCHANGED <<held, tryVars>>
  BY <1>1, CallerMoves DEF Suspend, tryVars, IInv, TypeOK
<1>2. CASE ~held /\ Release /\ Return(c, "failed") /\ UNCHANGED tryVars
  <2>1. held' = held
    BY <1>2 DEF Release, IInv, TypeOK
  <2> QED BY <1>2, <2>1, CallerMoves DEF Return, tryVars, IInv, TypeOK
<1>3. CASE ~held /\ held' = TRUE /\ Suspend(c, "reprobing") /\ UNCHANGED tryVars
  BY <1>3, CallerTakes DEF Suspend, tryVars
<1>4. CASE ~held /\ Decide(c, query, connected /\ linkUp)
  <2>1. (connected /\ linkUp) \in BOOLEAN
    OBVIOUS
  <2> QED BY <1>4, <2>1, Decide_Core
<1> QED BY <1>1, <1>2, <1>3, <1>4 DEF TakeOwnership

LEMMA Connect_Core ==
    ASSUME IInv, NEW c \in Calls, NEW query \in BOOLEAN, Connect(c, query)
    PROVE  Core'
<1>1. /\ task[c] = "none" /\ caller[c] \in Idle /\ caller[c] # "reprobing"
      /\ UNCHANGED <<cleanups, closing, closedState, closer>>
  BY DEF Connect, closeVars, Idle
<1>2. CASE GiveUp(c)
  BY <1>1, <1>2, GiveUp_Core
<1>3. CASE TakeOwnership(c, query, TRUE)
  BY <1>1, <1>3, TakeOwnership_Core
<1>4. CASE /\ Return(c, "ready") \/ Suspend(c, "probing")
           /\ UNCHANGED <<lockVars, tryVars>>
  BY <1>1, <1>4, CallerMoves DEF Return, Suspend, lockVars, tryVars, IInv, TypeOK
<1> QED BY <1>2, <1>3, <1>4 DEF Connect

LEMMA CallerStep_Core ==
    ASSUME IInv, NEW c \in Calls, CallerStep(c)
    PROVE  Core'
<1> USE DEF IInv, Core
<1>1. CASE Probed(c)
  <2>1. /\ task[c] = "none" /\ caller[c] # "reprobing"
        /\ UNCHANGED <<cleanups, closing, closedState, closer>>
    BY <1>1 DEF Probed, closeVars, CallersApart
  <2>2. CASE GiveUp(c)
    BY <2>1, <2>2, GiveUp_Core
  <2>3. CASE TakeOwnership(c, FALSE, c \in snapshot)
    BY <2>1, <2>3, TakeOwnership_Core
  <2>4. CASE Return(c, "ready") /\ UNCHANGED <<lockVars, tryVars>>
    BY <2>1, <2>4, CallerMoves DEF Return, lockVars, tryVars, TypeOK
  <2> QED BY <1>1, <2>2, <2>3, <2>4 DEF Probed
<1>2. CASE Woken(c)
  <2>1. /\ task[c] = "none" /\ caller[c] # "reprobing"
        /\ UNCHANGED <<cleanups, closing, closedState, closer>>
    BY <1>2 DEF Woken, closeVars, CallersApart
  <2>2. CASE GiveUp(c)
    BY <2>1, <2>2, GiveUp_Core
  <2>3. CASE TakeOwnership(c, c \in queries, c \in snapshot)
    <3>1. (c \in queries) \in BOOLEAN
      OBVIOUS
    <3> QED BY <2>1, <2>3, <3>1, TakeOwnership_Core
  <2> QED BY <1>2, <2>2, <2>3 DEF Woken
<1>3. CASE Reprobed(c)
  <2>1. /\ task[c] = "none" /\ caller[c] = "reprobing"
        /\ UNCHANGED <<cleanups, closing, closedState, closer>>
    BY <1>3 DEF Reprobed, closeVars, CallersApart
  <2>2. CASE Release /\ Return(c, "failed") /\ UNCHANGED tryVars
    BY <2>1, <2>2, CallerGivesBack DEF Release, Return, tryVars, Idle
  <2>3. CASE Decide(c, c \in queries, answer[c] = "yes")
    <3>1. (c \in queries) \in BOOLEAN /\ (answer[c] = "yes") \in BOOLEAN
      OBVIOUS
    <3> QED BY <2>1, <2>3, <3>1, Decide_Core
  <2> QED BY <1>3, <2>2, <2>3 DEF Reprobed
<1>4. CASE Watched(c)
  <2>1. caller[c] = "watching" /\ held' = held
    BY <1>4 DEF Watched, lockVars
  <2>2. PICK state \in Idle : caller' = [caller EXCEPT ![c] = state]
    BY <1>4 DEF Watched, Return, Idle
  <2>3. CASE UNCHANGED <<closeVars, tryVars>>
    BY <2>1, <2>2, <2>3, CallerMoves DEF closeVars, tryVars, Idle, TypeOK
  <2>4. CASE outcome[c] = "pending" /\ CancelAlone(c) /\ task' = task
    <3>1. closing' = Cardinality(Open') /\ closer' = closer /\ closedState' = FALSE
      BY <2>4 DEF CancelAlone, CountersFit, Open
    <3> QED BY <2>1, <2>2, <2>4, <3>1, Cancelling DEF CancelAlone, Idle, TypeOK
  <2> QED BY <1>4, <2>3, <2>4 DEF Watched
<1> QED BY <1>1, <1>2, <1>3, <1>4 DEF CallerStep

\* What the attempts have in common.
LEMMA Settle_Core ==
    ASSUME IInv, NEW c \in Calls, task[c] # "none", Settle(c), caller' = caller
    PROVE  Core'
<1> USE DEF IInv, Core
<1>1. CASE outcome[c] = "cancelled" /\ UNCHANGED <<closeVars, outcome, retiring>>
  BY <1>1, AttemptMoves DEF Settle, closeVars, lockVars
<1>2. CASE outcome[c] = "pending" /\ CancelAlone(c)
  <2>1. closing' = Cardinality(Open') /\ closer' = closer /\ closedState' = FALSE
    BY <1>2 DEF CancelAlone, CountersFit, Open
  <2> QED BY <1>2, <2>1, Cancelling DEF Settle, CancelAlone, lockVars
<1> QED BY <1>1, <1>2 DEF Settle

LEMMA Established_Core ==
    ASSUME IInv, NEW c \in Calls, task[c] # "none", outcome[c] = "pending",
           Established(c), caller' = caller
    PROVE  Core'
<1>1. CASE Complete(c)
  BY <1>1, Completing
<1>2. CASE /\ task' = [task EXCEPT ![c] = "operating"]
           /\ UNCHANGED <<lockVars, closeVars, outcome, retiring>>
  BY <1>2, AttemptMoves DEF lockVars, closeVars
<1> QED BY <1>1, <1>2 DEF Established

LEMMA TaskStep_Core ==
    ASSUME IInv, NEW c \in Calls, TaskStep(c)
    PROVE  Core'
<1> USE DEF IInv, Core
<1>1. CASE Dial(c)
  BY <1>1, AttemptMoves DEF Dial, lockVars, closeVars
<1>2. CASE Poll(c)
  <2>1. task[c] # "none" /\ caller' = caller
    BY <1>2 DEF Poll
  <2>2. CASE Settle(c)
    BY <2>1, <2>2, Settle_Core
  <2>3. CASE outcome[c] = "pending" /\ Established(c)
    BY <2>1, <2>3, Established_Core
  <2>4. CASE AskLink(c)
    BY <2>1, <2>4, AttemptMoves DEF AskLink, lockVars, closeVars
  <2> QED BY <1>2, <2>2, <2>3, <2>4 DEF Poll
<1>3. CASE Asked(c)
  <2>1. task[c] # "none" /\ caller' = caller
    BY <1>3 DEF Asked
  <2>2. CASE Settle(c)
    BY <2>1, <2>2, Settle_Core
  <2>3. CASE outcome[c] = "pending" /\ Established(c)
    BY <2>1, <2>3, Established_Core
  <2>4. CASE /\ task' = [task EXCEPT ![c] = "polling"]
             /\ UNCHANGED <<lockVars, closeVars, outcome, retiring>>
    BY <2>1, <2>4, AttemptMoves DEF lockVars, closeVars
  <2> QED BY <1>3, <2>2, <2>3, <2>4 DEF Asked
<1>4. CASE Operated(c)
  <2>1. task[c] # "none" /\ caller' = caller
    BY <1>4 DEF Operated
  <2>2. CASE Settle(c)
    BY <2>1, <2>2, Settle_Core
  <2>3. CASE outcome[c] = "pending" /\ Complete(c)
    BY <2>1, <2>3, Completing
  <2> QED BY <1>4, <2>2, <2>3 DEF Operated
<1>5. CASE Settled(c)
  <2>1. CASE Finish(c) /\ UNCHANGED <<closeErrors, linkUp>>
    BY <1>5, <2>1, Finish_IInv DEF Settled, TypeOK
  <2>2. CASE /\ task' = [task EXCEPT ![c] = "again"]
             /\ UNCHANGED <<lockVars, closeVars, caller, outcome, retiring>>
    BY <1>5, <2>2, AttemptMoves DEF Settled, AttemptsFit, lockVars, closeVars
  <2> QED BY <1>5, <2>1, <2>2 DEF Settled
<1>6. CASE RetiredAgain(c)
  BY <1>6, Finish_IInv DEF RetiredAgain, Retire, AttemptsFit, TypeOK
<1> QED BY <1>1, <1>2, <1>3, <1>4, <1>5, <1>6 DEF TaskStep

LEMMA LinkStep_Core ==
    ASSUME IInv, NEW c \in Calls, LinkStep(c)
    PROVE  Core'
<1> USE DEF IInv, Core
<1>1. CASE Dialed(c)
  BY <1>1, AttemptMoves DEF Dialed, lockVars, closeVars
<1>2. CASE Failed(c)
  BY <1>2, Settle_Core DEF Failed
<1>3. CASE Retired(c)
  <2>1. /\ UNCHANGED <<held, cleanups, closing, closedState, closer, task, outcome, caller>>
        /\ retiring' = retiring \ {c}
    BY <1>3 DEF Retired, lockVars
  <2>2. Owners' = Owners /\ Cancelled' = Cancelled
    BY <2>1 DEF Owners, Cancelled
  <2>3. OneOwner'
    BY <2>1, <2>2 DEF OneOwner
  <2>4. CallersApart' /\ AttemptsFit'
    BY <2>1 DEF CallersApart, AttemptsFit
  <2>5. CountersFit' /\ ClosedFits'
    BY <2>1, <2>2 DEF CountersFit, ClosedFits, Open
  <2> QED BY <2>3, <2>4, <2>5
<1>4. CASE ProbeAnswers(c)
  BY <1>4, CallerMoves DEF ProbeAnswers, lockVars, closeVars, tryVars
<1> QED BY <1>1, <1>2, <1>3, <1>4 DEF LinkStep

LEMMA Close_Core ==
    ASSUME IInv, NEW k \in Closers, Close(k)
    PROVE  Core'
<1> USE DEF IInv, Core
<1>1. /\ closing' = closing + 1 /\ closedState' = FALSE
      /\ UNCHANGED <<held, caller, task>>
      /\ closer[k] = "new" /\ closer' = [closer EXCEPT ![k] = "starting"]
  BY DEF Close, lockVars
<1>2. closing' = Cardinality(Open')
  <2>1. Open' = Open \cup {k} /\ k \notin Open
    BY <1>1 DEF Open, TypeOK
  <2>2. IsFiniteSet(Open)
    BY ConstantsAssumption, FS_Subset DEF Open
  <2> QED BY <1>1, <2>1, <2>2, FS_AddElement DEF CountersFit
<1>3. \A j \in Closers : closer'[j] = "disconnecting" <=> closer[j] = "disconnecting"
  BY <1>1 DEF TypeOK
<1>4. CASE slot \in Pending /\ Cancel(slot)
  BY <1>1, <1>2, <1>3, <1>4, Cancelling DEF Pending
<1>5. CASE UNCHANGED <<outcome, cleanups, retiring>>
  <2>1. Owners' = Owners /\ Cancelled' = Cancelled
    BY <1>1, <1>3, <1>5 DEF Owners, Cancelled
  <2>2. OneOwner'
    BY <1>1, <2>1 DEF OneOwner
  <2>3. CallersApart' /\ AttemptsFit'
    BY <1>1, <1>5 DEF CallersApart, AttemptsFit
  <2>4. CountersFit' /\ ClosedFits'
    BY <1>1, <1>2, <1>5, <2>1 DEF CountersFit, ClosedFits
  <2> QED BY <2>2, <2>3, <2>4
<1> QED BY <1>4, <1>5 DEF Close, CancelOwner

LEMMA CloserStep_Core ==
    ASSUME IInv, NEW k \in Closers, CloserStep(k)
    PROVE  Core'
<1> USE DEF IInv, Core
<1>0. IsFiniteSet(Open)
  BY ConstantsAssumption, FS_Subset DEF Open
<1>1. CASE CloserTakes(k)
  <2>1. /\ UNCHANGED <<cleanups, closing, closedState, caller, task, outcome, retiring>>
        /\ closer[k] \in {"starting", "waiting"}
    BY <1>1 DEF CloserTakes, tryVars
  <2>2. PICK state \in {"waiting", "disconnecting"} : closer' = [closer EXCEPT ![k] = state]
    BY <1>1 DEF CloserTakes
  <2>3. Open' = Open /\ Cancelled' = Cancelled
    BY <2>1, <2>2 DEF Open, Cancelled, TypeOK
  <2>4. OneOwner'
    <3>1. CASE held /\ held' = held /\ closer' = [closer EXCEPT ![k] = "waiting"]
      <4>1. Owners' = Owners
        BY <2>1, <3>1 DEF Owners, TypeOK
      <4> QED BY <3>1, <4>1 DEF OneOwner
    <3>2. CASE ~held /\ held' = TRUE /\ closer' = [closer EXCEPT ![k] = "disconnecting"]
      <4>1. Owners = {}
        BY <3>2 DEF OneOwner
      <4>2. Owners' = {k}
        BY <2>1, <3>2, <4>1 DEF Owners, TypeOK
      <4> QED BY <3>2, <4>2 DEF OneOwner
    <3> QED BY <1>1, <3>1, <3>2 DEF CloserTakes
  <2>5. CallersApart' /\ AttemptsFit' /\ CountersFit' /\ ClosedFits'
    BY <2>1, <2>3 DEF CallersApart, AttemptsFit, CountersFit, ClosedFits
  <2> QED BY <2>4, <2>5
<1>2. CASE Disconnected(k)
  <2>1. /\ UNCHANGED <<cleanups, caller, task, outcome, retiring>>
        /\ closer[k] = "disconnecting" /\ closer' = [closer EXCEPT ![k] = "ended"]
        /\ held' = FALSE /\ closing' = closing - 1
        /\ closedState' = IF closing = 1 /\ cleanups = 0 THEN TRUE ELSE closedState
    BY <1>2 DEF Disconnected, tryVars, Release
  <2>2. Owners = {k}
    BY <2>1, ConstantsAssumption DEF Owners, OneOwner
  <2>3. Owners' = {}
    BY <2>1, <2>2, ConstantsAssumption DEF Owners, TypeOK
  <2>4. Open' = Open \ {k} /\ k \in Open /\ Cancelled' = Cancelled
    BY <2>1 DEF Open, Cancelled, TypeOK
  <2>5. closing' = Cardinality(Open') /\ closing # 0
    BY <1>0, <2>1, <2>4, FS_RemoveElement, FS_EmptySet DEF CountersFit
  <2>6. OneOwner'
    BY <2>1, <2>3 DEF OneOwner
  <2>7. CallersApart' /\ AttemptsFit' /\ CountersFit'
    BY <2>1, <2>4, <2>5 DEF CallersApart, AttemptsFit, CountersFit
  <2>8. ClosedFits'
    <3>1. ~closedState
      BY <2>5 DEF ClosedFits
    <3>2. closedState' => closing = 1 /\ cleanups = 0
      BY <2>1, <3>1
    <3>3. closing = 1 => closing' = 0
      BY <2>1
    <3>4. cleanups' = cleanups
      BY <2>1
    <3> QED BY <3>2, <3>3, <3>4 DEF ClosedFits
  <2> QED BY <2>6, <2>7, <2>8
<1> QED BY <1>1, <1>2 DEF CloserStep

LEMMA SupervisorStep_Core ==
    ASSUME IInv, SupervisorStep
    PROVE  Core'
<1>1. CASE SeeDrop \/ WakeIdle
  BY <1>1, CallerMoves DEF SeeDrop, WakeIdle, LinkVarsKept, lockVars, closeVars, tryVars
<1>2. CASE WakeAndDial
  BY <1>2, Connect_Core DEF WakeAndDial, Calls
<1> QED BY <1>1, <1>2 DEF SupervisorStep

-----------------------------------------------------------------------------
(* Types, one operation at a time. The counters come from Core.            *)

\* The types of what a connect call or its attempt may change.
WorkTypes ==
    /\ held \in BOOLEAN /\ connected \in BOOLEAN
    /\ parked \subseteq Calls \cup Closers
    /\ slot \in Calls \cup {None}
    /\ caller \in [Calls -> CallerStates]
    /\ task \in [Calls -> TaskStates]
    /\ outcome \in [Calls -> {"none", "pending", "ready", "cancelled"}]
    /\ opened \subseteq Calls /\ retiring \subseteq Calls
    /\ sup \in {"none", "watching", "sleeping", "dialing"}

LEMMA Counters ==
    ASSUME Core'
    PROVE  closing' \in Nat /\ cleanups' \in Nat
<1>1. IsFiniteSet(Open')
  BY ConstantsAssumption, FS_Subset DEF Open
<1> QED BY <1>1, FS_CardinalityType DEF Core, CountersFit

LEMMA Decide_Types ==
    ASSUME TypeOK, NEW c \in Calls, NEW query \in BOOLEAN, NEW reuse \in BOOLEAN,
           Decide(c, query, reuse)
    PROVE  WorkTypes'
BY DEF WorkTypes, TypeOK, Decide, Launch, Release, Return, Suspend, tryVars, CallerStates,
       TaskStates

LEMMA TakeOwnership_Types ==
    ASSUME TypeOK, NEW c \in Calls, NEW query \in BOOLEAN, NEW current,
           TakeOwnership(c, query, current) \/ GiveUp(c)
    PROVE  WorkTypes'
<1>1. CASE Decide(c, query, connected /\ linkUp)
  <2>1. (connected /\ linkUp) \in BOOLEAN
    OBVIOUS
  <2> QED BY <1>1, <2>1, Decide_Types
<1>2. CASE TakeOwnership(c, query, current) /\ ~Decide(c, query, connected /\ linkUp)
  BY <1>2 DEF WorkTypes, TakeOwnership, TypeOK, Release, Return, Suspend, tryVars,
              CallerStates
<1>3. CASE GiveUp(c)
  BY <1>3 DEF WorkTypes, GiveUp, TypeOK, Return, tryVars, CallerStates
<1> QED BY <1>1, <1>2, <1>3

LEMMA Connect_Types ==
    ASSUME IInv, Core', NEW c \in Calls, NEW query \in BOOLEAN, Connect(c, query)
    PROVE  TypeOK'
<1> USE DEF IInv
<1>1. WorkTypes'
  <2>1. CASE TakeOwnership(c, query, TRUE) \/ GiveUp(c)
    BY <2>1, TakeOwnership_Types
  <2>2. CASE (Return(c, "ready") \/ Suspend(c, "probing")) /\ UNCHANGED <<lockVars, tryVars, connected>>
    BY <2>2 DEF WorkTypes, TypeOK, Return, Suspend, lockVars, tryVars, CallerStates
  <2> QED BY <2>1, <2>2 DEF Connect
<1>2. /\ queries' \subseteq Calls /\ late' \subseteq Calls /\ withdrawn' \subseteq Calls
      /\ answer' \in [Calls -> {"none", "yes", "no"}]
      /\ snapshot' \subseteq Calls \cup {Supervisor}
  BY DEF Connect, TypeOK
<1> QED BY <1>1, <1>2, Counters DEF Connect, WorkTypes, TypeOK, closeVars

LEMMA CallerStep_Types ==
    ASSUME IInv, Core', NEW c \in Calls, CallerStep(c)
    PROVE  TypeOK'
<1> USE DEF IInv
<1>1. CASE Probed(c)
  <2>1. WorkTypes'
    <3>1. CASE TakeOwnership(c, FALSE, c \in snapshot) \/ GiveUp(c)
      BY <3>1, TakeOwnership_Types
    <3>2. CASE Return(c, "ready") /\ UNCHANGED <<lockVars, tryVars, connected>>
      BY <3>2 DEF WorkTypes, TypeOK, Return, lockVars, tryVars, CallerStates
    <3> QED BY <1>1, <3>1, <3>2 DEF Probed
  <2>2. answer' \in [Calls -> {"none", "yes", "no"}]
    BY <1>1 DEF Probed, TypeOK
  <2> QED BY <1>1, <2>1, <2>2, Counters DEF Probed, WorkTypes, TypeOK, closeVars
<1>2. CASE Woken(c)
  <2>1. WorkTypes'
    <3>1. (c \in queries) \in BOOLEAN
      OBVIOUS
    <3> QED BY <1>2, <3>1, TakeOwnership_Types DEF Woken
  <2> QED BY <1>2, <2>1, Counters DEF Woken, WorkTypes, TypeOK, closeVars, askVars
<1>3. CASE Reprobed(c)
  <2>1. WorkTypes'
    <3>1. CASE Decide(c, c \in queries, answer[c] = "yes")
      <4>1. (c \in queries) \in BOOLEAN /\ (answer[c] = "yes") \in BOOLEAN
        OBVIOUS
      <4> QED BY <3>1, <4>1, Decide_Types
    <3>2. CASE Release /\ Return(c, "failed") /\ UNCHANGED <<tryVars, connected>>
      BY <3>2 DEF WorkTypes, TypeOK, Release, Return, tryVars, CallerStates
    <3> QED BY <1>3, <3>1, <3>2 DEF Reprobed
  <2>2. answer' \in [Calls -> {"none", "yes", "no"}]
    BY <1>3 DEF Reprobed, TypeOK
  <2> QED BY <1>3, <2>1, <2>2, Counters DEF Reprobed, WorkTypes, TypeOK, closeVars
<1>4. CASE Watched(c)
  <2>1. WorkTypes'
    BY <1>4 DEF Watched, WorkTypes, TypeOK, Return, CancelAlone, Cancel, lockVars, tryVars,
                CallerStates
  <2>2. closedState' \in BOOLEAN /\ closeErrors' = closeErrors /\ closer' = closer
    BY <1>4 DEF Watched, CancelAlone, closeVars, TypeOK
  <2> QED BY <1>4, <2>1, <2>2, Counters DEF Watched, WorkTypes, TypeOK, askVars
<1> QED BY <1>1, <1>2, <1>3, <1>4 DEF CallerStep

\* The types of what an attempt may change besides.
AttemptTypes ==
    /\ WorkTypes
    /\ closedState \in BOOLEAN
    /\ snapshot \subseteq Calls \cup {Supervisor}

LEMMA Settle_Types ==
    ASSUME TypeOK, NEW c \in Calls, Settle(c), caller' = caller, snapshot' = snapshot
    PROVE  AttemptTypes' /\ UNCHANGED <<closeErrors, closer>>
BY DEF AttemptTypes, WorkTypes, TypeOK, Settle, CancelAlone, Cancel, lockVars, closeVars, TaskStates

LEMMA Complete_Types ==
    ASSUME TypeOK, NEW c \in Calls, Complete(c), caller' = caller, connected' \in BOOLEAN
    PROVE  AttemptTypes' /\ UNCHANGED <<closeErrors, closer>>
BY DEF AttemptTypes, WorkTypes, TypeOK, Complete, Release, closeVars, TaskStates

LEMMA Established_Types ==
    ASSUME TypeOK, NEW c \in Calls, Established(c), caller' = caller
    PROVE  AttemptTypes' /\ UNCHANGED <<closeErrors, closer>>
<1>1. CASE Complete(c)
  BY <1>1, Complete_Types DEF Established
<1>2. CASE ~Complete(c)
  BY <1>2 DEF AttemptTypes, WorkTypes, TypeOK, Established, lockVars, closeVars, TaskStates
<1> QED BY <1>1, <1>2

LEMMA Finish_Types ==
    ASSUME TypeOK, NEW c \in Calls, Finish(c)
    PROVE  AttemptTypes' /\ UNCHANGED <<closer, askVars>>
BY DEF AttemptTypes, WorkTypes, TypeOK, Finish, Release, askVars, TaskStates

LEMMA TaskStep_Types ==
    ASSUME IInv, Core', NEW c \in Calls, TaskStep(c)
    PROVE  TypeOK'
<1> USE DEF IInv
<1>1. CASE Dial(c)
  <2>1. task' \in [Calls -> TaskStates]
    BY <1>1 DEF Dial, TypeOK, TaskStates
  <2> QED BY <1>1, <2>1 DEF Dial, TypeOK, lockVars, closeVars, askVars
<1>2. CASE Poll(c)
  <2>1. AttemptTypes' /\ UNCHANGED <<closeErrors, closer>>
    <3>1. CASE Settle(c) /\ UNCHANGED snapshot
      BY <1>2, <3>1, Settle_Types DEF Poll
    <3>2. CASE Established(c)
      BY <1>2, <3>2, Established_Types DEF Poll
    <3>3. CASE AskLink(c)
      BY <1>2, <3>3 DEF Poll, AskLink, AttemptTypes, WorkTypes, TypeOK, lockVars, closeVars, TaskStates
    <3> QED BY <1>2, <3>1, <3>2, <3>3 DEF Poll
  <2>2. answer' \in [Calls -> {"none", "yes", "no"}]
    BY <1>2 DEF Poll, AskLink, TypeOK
  <2> QED BY <1>2, <2>1, <2>2, Counters DEF Poll, AttemptTypes, WorkTypes, TypeOK
<1>3. CASE Asked(c)
  <2>1. AttemptTypes' /\ UNCHANGED <<closeErrors, closer>>
    <3>1. CASE Settle(c) /\ UNCHANGED snapshot
      BY <1>3, <3>1, Settle_Types DEF Asked
    <3>2. CASE Established(c)
      BY <1>3, <3>2, Established_Types DEF Asked
    <3>3. CASE /\ task' = [task EXCEPT ![c] = "polling"]
               /\ UNCHANGED <<lockVars, connected, closeVars, snapshot, outcome, opened,
                              retiring, slot, sup>>
      BY <1>3, <3>3 DEF Asked, AttemptTypes, WorkTypes, TypeOK, lockVars, closeVars, TaskStates
    <3> QED BY <1>3, <3>1, <3>2, <3>3 DEF Asked
  <2>2. answer' \in [Calls -> {"none", "yes", "no"}]
    BY <1>3 DEF Asked, TypeOK
  <2> QED BY <1>3, <2>1, <2>2, Counters DEF Asked, AttemptTypes, WorkTypes, TypeOK
<1>4. CASE Operated(c)
  <2>1. AttemptTypes' /\ UNCHANGED <<closeErrors, closer>>
    <3>1. CASE Settle(c) /\ UNCHANGED snapshot
      BY <1>4, <3>1, Settle_Types DEF Operated
    <3>2. CASE Complete(c) /\ UNCHANGED connected
      BY <1>4, <3>2, Complete_Types DEF Operated, TypeOK
    <3> QED BY <1>4, <3>1, <3>2 DEF Operated
  <2> QED BY <1>4, <2>1, Counters DEF Operated, AttemptTypes, WorkTypes, TypeOK, askVars
<1>5. CASE Settled(c)
  <2>1. CASE Finish(c) /\ UNCHANGED <<closeErrors, linkUp>>
    BY <2>1, Finish_Types, Counters DEF AttemptTypes, WorkTypes, TypeOK, askVars
  <2>2. CASE /\ task' = [task EXCEPT ![c] = "again"]
             /\ UNCHANGED <<lockVars, connected, closeVars, snapshot, caller, outcome,
                            opened, retiring, slot, askVars, sup, linkUp>>
    <3>1. task' \in [Calls -> TaskStates]
      BY <2>2 DEF TypeOK, TaskStates
    <3> QED BY <2>2, <3>1 DEF TypeOK, lockVars, closeVars, askVars
  <2> QED BY <1>5, <2>1, <2>2 DEF Settled
<1>6. CASE RetiredAgain(c)
  <2>1. linkUp' \in BOOLEAN /\ closeErrors' \in BOOLEAN
    BY <1>6 DEF RetiredAgain, Retire, TypeOK
  <2> QED BY <1>6, <2>1, Finish_Types, Counters
          DEF RetiredAgain, AttemptTypes, WorkTypes, TypeOK, askVars
<1> QED BY <1>1, <1>2, <1>3, <1>4, <1>5, <1>6 DEF TaskStep

LEMMA LinkStep_Types ==
    ASSUME IInv, Core', NEW c \in Calls, LinkStep(c)
    PROVE  TypeOK'
<1> USE DEF IInv
<1>1. CASE Dialed(c)
  <2>1. task' \in [Calls -> TaskStates] /\ opened' \subseteq Calls /\ linkUp' = TRUE
    BY <1>1 DEF Dialed, TypeOK, TaskStates
  <2> QED BY <1>1, <2>1 DEF Dialed, TypeOK, lockVars, closeVars, askVars
<1>2. CASE Failed(c)
  BY <1>2, Settle_Types, Counters DEF Failed, AttemptTypes, WorkTypes, TypeOK, askVars
<1>3. CASE Retired(c)
  <2>1. linkUp' \in BOOLEAN /\ closeErrors' \in BOOLEAN /\ retiring' \subseteq Calls
    BY <1>3 DEF Retired, Retire, TypeOK
  <2> QED BY <1>3, <2>1 DEF Retired, TypeOK, lockVars, askVars
<1>4. CASE ProbeAnswers(c)
  <2>1. answer' \in [Calls -> {"none", "yes", "no"}]
    BY <1>4 DEF ProbeAnswers, TypeOK
  <2> QED BY <1>4, <2>1 DEF ProbeAnswers, TypeOK, lockVars, closeVars, tryVars
<1> QED BY <1>1, <1>2, <1>3, <1>4 DEF LinkStep

LEMMA Closers_Types ==
    ASSUME IInv, Core', NEW k \in Closers, Close(k) \/ CloserStep(k)
    PROVE  TypeOK'
<1> USE DEF IInv
<1>1. CASE Close(k)
  <2>1. /\ withdrawn' \subseteq Calls
        /\ sup' \in {"none", "watching", "sleeping", "dialing"}
    BY <1>1 DEF Close, StopSupervisor, TypeOK, Calls
  <2>2. /\ outcome' \in [Calls -> {"none", "pending", "ready", "cancelled"}]
        /\ retiring' \subseteq Calls
    BY <1>1 DEF Close, CancelOwner, Cancel, Pending, TypeOK
  <2>3. /\ closer' \in [Closers -> {"new", "starting", "waiting", "disconnecting", "ended"}]
        /\ snapshot' = {} /\ closedState' = FALSE /\ connected' = FALSE
    BY <1>1 DEF Close, TypeOK
  <2> QED BY <1>1, <2>1, <2>2, <2>3, Counters DEF Close, TypeOK, lockVars
<1>2. CASE CloserTakes(k)
  <2>1. /\ closer' \in [Closers -> {"new", "starting", "waiting", "disconnecting", "ended"}]
        /\ held' \in BOOLEAN /\ parked' \subseteq Calls \cup Closers
    BY <1>2 DEF CloserTakes, TypeOK
  <2> QED BY <1>2, <2>1 DEF CloserTakes, TypeOK, tryVars, askVars
<1>3. CASE Disconnected(k)
  <2>1. /\ closer' \in [Closers -> {"new", "starting", "waiting", "disconnecting", "ended"}]
        /\ held' \in BOOLEAN /\ parked' \subseteq Calls \cup Closers
        /\ closedState' \in BOOLEAN
    BY <1>3 DEF Disconnected, Release, TypeOK
  <2>2. linkUp' \in BOOLEAN /\ closeErrors' \in BOOLEAN
    BY <1>3 DEF Disconnected, TypeOK
  <2> QED BY <1>3, <2>1, <2>2, Counters DEF Disconnected, TypeOK, tryVars, askVars
<1> QED BY <1>1, <1>2, <1>3 DEF CloserStep

-----------------------------------------------------------------------------
(* The theorems.                                                           *)

LEMMA Init_IInv == Init => IInv
<1> SUFFICES ASSUME Init PROVE IInv
  OBVIOUS
<1>1. TypeOK
  BY DEF Init, TypeOK, CallerStates, TaskStates
<1>2. OneOwner /\ CallersApart /\ AttemptsFit
  BY DEF Init, OneOwner, Owners, CallersApart, AttemptsFit
<1>3. Cancelled = {} /\ Open = {}
  BY DEF Init, Cancelled, Open
<1>4. CountersFit /\ ClosedFits
  BY <1>3, FS_EmptySet DEF Init, CountersFit, ClosedFits
<1> QED BY <1>1, <1>2, <1>4 DEF IInv, Core

LEMMA Next_IInv == IInv /\ [Next]_vars => IInv'
<1> SUFFICES ASSUME IInv, [Next]_vars PROVE IInv'
  OBVIOUS
<1>1. ASSUME NEW c \in Callers, CallConnect(c) PROVE IInv'
  <2>1. c \in Calls
    BY DEF Calls
  <2>2. PICK query \in BOOLEAN : Connect(c, query)
    BY <1>1 DEF CallConnect
  <2>3. Core'
    BY <2>1, <2>2, Connect_Core
  <2> QED BY <2>1, <2>2, <2>3, Connect_Types DEF IInv
<1>2. ASSUME NEW c \in Callers, Withdraw(c) PROVE IInv'
  <2>1. withdrawn' \subseteq Calls
    BY <1>2 DEF Withdraw, IInv, TypeOK, Calls
  <2>2. TypeOK'
    BY <1>2, <2>1 DEF Withdraw, IInv, TypeOK, lockVars, closeVars, tryVars
  <2> QED BY <1>2, <2>2, CallerMoves DEF Withdraw, IInv, lockVars, closeVars, tryVars
<1>3. ASSUME NEW c \in Calls, CallerStep(c) PROVE IInv'
  BY <1>3, CallerStep_Core, CallerStep_Types DEF IInv
<1>4. ASSUME NEW c \in Calls, TaskStep(c) PROVE IInv'
  BY <1>4, TaskStep_Core, TaskStep_Types DEF IInv
<1>5. ASSUME NEW c \in Calls, LinkStep(c) PROVE IInv'
  BY <1>5, LinkStep_Core, LinkStep_Types DEF IInv
<1>6. ASSUME NEW c \in Calls, DeadlinePasses(c) PROVE IInv'
  <2>1. TypeOK'
    BY <1>6 DEF DeadlinePasses, IInv, TypeOK, lockVars, closeVars, tryVars
  <2> QED BY <1>6, <2>1, CallerMoves DEF DeadlinePasses, IInv, lockVars, closeVars, tryVars
<1>7. ASSUME NEW k \in Closers, Close(k) \/ CloserStep(k) PROVE IInv'
  BY <1>7, Close_Core, CloserStep_Core, Closers_Types DEF IInv
<1>8. CASE SupervisorStep
  <2>1. Core'
    BY <1>8, SupervisorStep_Core
  <2>2. CASE SeeDrop \/ WakeIdle
    <3>1. TypeOK'
      BY <2>2 DEF SeeDrop, WakeIdle, LinkVarsKept, IInv, TypeOK, lockVars, closeVars,
                  tryVars, askVars
    <3> QED BY <2>1, <3>1 DEF IInv
  <2>3. CASE WakeAndDial
    BY <2>1, <2>3, Connect_Types DEF WakeAndDial, Calls, IInv
  <2> QED BY <1>8, <2>2, <2>3 DEF SupervisorStep
<1>9. CASE HubDrops
  <2>1. TypeOK'
    BY <1>9 DEF HubDrops, IInv, TypeOK, lockVars, closeVars, tryVars, askVars
  <2> QED BY <1>9, <2>1, CallerMoves DEF HubDrops, IInv, lockVars, closeVars, tryVars
<1>10. CASE UNCHANGED vars
  <2>1. TypeOK'
    BY <1>10 DEF vars, IInv, TypeOK, lockVars, closeVars, tryVars, askVars
  <2> QED BY <1>10, <2>1, CallerMoves DEF vars, IInv, lockVars, closeVars, tryVars
<1> QED BY <1>1, <1>2, <1>3, <1>4, <1>5, <1>6, <1>7, <1>8, <1>9, <1>10 DEF Next

THEOREM Invariance == Spec => []IInv
<1> QED BY Init_IInv, Next_IInv, PTL DEF Spec

\* Every variable keeps its type; for the two counters that the cleanups and
\* closes never take more than they gave (TypeOK).
THEOREM TypeCorrect == Spec => []TypeOK
<1>1. IInv => TypeOK
  BY DEF IInv
<1> QED BY <1>1, Invariance, PTL

\* However many callers, closes and cleanups there are, the ownership token has
\* one owner, and is held exactly while that owner works (_Ownership).
THEOREM OwnershipIsExclusive == Spec => []OneOwner
<1>1. IInv => OneOwner
  BY DEF IInv, Core
<1> QED BY <1>1, Invariance, PTL

\* wait_closed() returns over a quiet client only: no cleanup runs or is owed
\* and no close is under way (_set_closed).
THEOREM ClosedMeansQuiet == Spec => []ClosedIsQuiet
<1>1. IInv => ClosedIsQuiet
  <2> SUFFICES ASSUME IInv, closedState PROVE
          /\ retiring = {}
          /\ \A k \in Closers : closer[k] \in {"new", "ended"}
          /\ \A c \in Calls : task[c] \notin {"settling", "again"}
    BY DEF ClosedIsQuiet
  <2> USE DEF IInv, Core
  <2>1. Cancelled = {}
    BY DEF ClosedFits, CountersFit
  <2>2. Open = {}
    <3>1. IsFiniteSet(Open)
      BY ConstantsAssumption, FS_Subset DEF Open
    <3> QED BY <3>1, FS_EmptySet DEF ClosedFits, CountersFit
  <2>3. retiring = {}
    BY <2>1 DEF Cancelled, AttemptsFit, TypeOK
  <2>4. \A k \in Closers : closer[k] \in {"new", "ended"}
    BY <2>2 DEF Open, TypeOK
  <2>5. \A c \in Calls : task[c] \notin {"settling", "again"}
    BY <2>1 DEF Cancelled, AttemptsFit
  <2> QED BY <2>3, <2>4, <2>5
<1> QED BY <1>1, Invariance, PTL

\* The link only comes up for the attempt that owns the connection, and a
\* cleanup only ends while its own attempt waits for it, no other attempt
\* having begun: a late cleanup cannot reach a later session (connect).
THEOREM CleanupIsOwned == Spec => CleanupStaysWithOwner
<1>1. ASSUME IInv, Next, linkUp' # linkUp, linkUp' PROVE held
  <2>1. PICK c \in Calls : Dialed(c)
    <3>1. linkUp = FALSE /\ linkUp' = TRUE
      BY <1>1 DEF IInv, TypeOK
    <3> QED BY <1>1, <3>1, ZenonT(60)
        DEF Next, CallConnect, Connect, Withdraw, CallerStep, Probed, Woken, Reprobed, Watched,
            TaskStep, Dial, Poll, Asked, Operated, Settled, RetiredAgain, LinkStep, Failed,
            Retired, Retire, ProbeAnswers, DeadlinePasses, Close, CloserStep, CloserTakes,
            Disconnected, SupervisorStep, SeeDrop, WakeIdle, WakeAndDial, LinkVarsKept,
            HubDrops, Finish
  <2> QED BY <2>1, <1>1, SoleOwner DEF Dialed
<1>2. ASSUME IInv, NEW c \in Calls, c \in retiring
      PROVE  held /\ \A d \in Calls \ {c} : task[d] = "none"
  BY <1>2, SoleOwner DEF IInv, Core, AttemptsFit
<1>3. IInv /\ [Next]_vars =>
        [/\ linkUp' # linkUp /\ linkUp' => held
         /\ \A c \in Calls : retiring' = retiring \ {c} /\ c \in retiring
                => held /\ \A d \in Calls \ {c} : task[d] = "none"]_vars
  BY <1>1, <1>2
<1> QED BY <1>3, Invariance, PTL DEF Spec, CleanupStaysWithOwner

-----------------------------------------------------------------------------
(* close() and the native link, whose probe never suspends.                *)

\* No call is suspended in a probe, and an attempt that is not done yet is
\* the one close() would cancel and dates from after the last close.
Reachable ==
    /\ \A c \in Calls : caller[c] \notin {"probing", "reprobing"}
    /\ \A c \in Calls : outcome[c] = "pending" => slot = c /\ c \in snapshot

\* There is nothing pending while nobody, or somebody else, owns the token.
LEMMA NothingPending ==
    ASSUME IInv, NEW c \in Calls, outcome[c] = "pending"
    PROVE  /\ held /\ task[c] # "none"
           /\ \A d \in Calls \ {c} : outcome[d] # "pending" /\ task[d] = "none"
<1>1. task[c] # "none"
  BY DEF IInv, Core, AttemptsFit
<1> QED BY <1>1, SoleOwner DEF IInv, Core, AttemptsFit

LEMMA TakeOwnership_Reachable ==
    ASSUME Native, IInv, Reachable, NEW c \in Calls, NEW query, NEW current,
           TakeOwnership(c, query, current), current => c \in snapshot',
           snapshot \subseteq snapshot'
    PROVE  Reachable'
<1> USE DEF Reachable
<1>1. CASE held /\ Suspend(c, "waiting") /\ UNCHANGED tryVars
  BY <1>1 DEF Suspend, tryVars, IInv, TypeOK
<1>2. CASE Return(c, "failed") /\ UNCHANGED tryVars
  BY <1>2 DEF Return, tryVars, IInv, TypeOK
<1>3. CASE ~held /\ ~Refused(current) /\ Decide(c, query, connected /\ linkUp)
  <2>1. \A d \in Calls : outcome[d] # "pending"
    BY <1>3, NothingPending
  <2>2. c \in snapshot'
    BY <1>3 DEF Refused
  <2>3. CASE Return(c, "ready") /\ UNCHANGED tryVars
    BY <2>1, <2>3 DEF Return, tryVars, IInv, TypeOK
  <2>4. CASE Launch(c, connected /\ linkUp)
    BY <2>1, <2>2, <2>4 DEF Launch, Suspend, IInv, TypeOK
  <2> QED BY <1>3, <2>3, <2>4 DEF Decide
<1> QED BY <1>1, <1>2, <1>3 DEF TakeOwnership

LEMMA Connect_Reachable ==
    ASSUME Native, IInv, Reachable, NEW c \in Calls, NEW query \in BOOLEAN, Connect(c, query)
    PROVE  Reachable'
<1>1. CASE GiveUp(c) /\ UNCHANGED snapshot
  BY <1>1 DEF Reachable, GiveUp, Return, tryVars, IInv, TypeOK
<1>2. CASE TakeOwnership(c, query, TRUE) /\ snapshot' = snapshot \cup {c}
  BY <1>2, TakeOwnership_Reachable
<1>3. CASE /\ Return(c, "ready") /\ UNCHANGED tryVars
           /\ snapshot' = snapshot \cup {c}
  BY <1>3 DEF Reachable, Return, tryVars, IInv, TypeOK
<1> QED BY <1>1, <1>2, <1>3 DEF Connect

\* An attempt is cancelled or done, or nothing changes for it.
LEMMA Outcome_Reachable ==
    ASSUME Native, IInv, Reachable, NEW c \in Calls, task[c] # "none",
           UNCHANGED <<caller>>, snapshot \subseteq snapshot',
           \A d \in Calls : outcome'[d] = "pending" => outcome[d] = "pending",
           outcome'[c] = "pending" => slot' = slot
    PROVE  Reachable'
<1>1. ASSUME NEW d \in Calls, outcome'[d] = "pending" PROVE slot' = d /\ d \in snapshot'
  BY <1>1, NothingPending DEF Reachable
<1> QED BY <1>1 DEF Reachable

LEMMA Attempt_Reachable ==
    ASSUME Native, IInv, Reachable, NEW c \in Calls, TaskStep(c) \/ LinkStep(c)
    PROVE  Reachable'
<1> USE DEF IInv, TypeOK
<1>1. ASSUME task[c] # "none", Settle(c), caller' = caller, snapshot' = snapshot
      PROVE  Reachable'
  <2>1. \A d \in Calls : outcome'[d] = "pending" => outcome[d] = "pending"
    BY <1>1 DEF Settle, CancelAlone, Cancel
  <2> QED BY <1>1, <2>1, Outcome_Reachable DEF Settle
<1>2. ASSUME task[c] # "none", Complete(c), caller' = caller
      PROVE  Reachable'
  <2>1. \A d \in Calls : outcome'[d] = "pending" => outcome[d] = "pending"
    BY <1>2 DEF Complete
  <2>2. outcome'[c] = "ready" /\ snapshot \subseteq snapshot'
    BY <1>2 DEF Complete
  <2> QED BY <1>2, <2>1, <2>2, Outcome_Reachable
<1>3. ASSUME task[c] # "none", Finish(c), outcome[c] # "pending"
      PROVE  Reachable'
  BY <1>3, Outcome_Reachable DEF Finish
<1>4. ASSUME task[c] # "none", UNCHANGED <<caller, outcome, slot, snapshot>>
      PROVE  Reachable'
  BY <1>4, Outcome_Reachable
<1>5. ASSUME task[c] # "none", Established(c), caller' = caller
      PROVE  Reachable'
  BY <1>2, <1>4, <1>5 DEF Established
<1>6. CASE TaskStep(c)
  <2>1. CASE Dial(c)
    BY <1>4, <2>1 DEF Dial
  <2>2. CASE Poll(c)
    BY <1>1, <1>5, <2>2 DEF Poll
  <2>3. CASE Asked(c)
    BY <1>1, <1>4, <1>5, <2>3 DEF Asked
  <2>4. CASE Operated(c)
    BY <1>1, <1>2, <2>4 DEF Operated
  <2>5. CASE Settled(c)
    BY <1>3, <1>4, <2>5 DEF Settled, Core, AttemptsFit
  <2>6. CASE RetiredAgain(c)
    BY <1>3, <2>6 DEF RetiredAgain, Core, AttemptsFit
  <2> QED BY <1>6, <2>1, <2>2, <2>3, <2>4, <2>5, <2>6 DEF TaskStep
<1>7. CASE Dialed(c)
  BY <1>4, <1>7 DEF Dialed
<1>8. CASE Failed(c)
  BY <1>1, <1>8 DEF Failed
<1>9. CASE Retired(c) \/ ProbeAnswers(c)
  BY <1>9 DEF Retired, ProbeAnswers, tryVars, Reachable
<1> QED BY <1>6, <1>7, <1>8, <1>9 DEF LinkStep

LEMMA CallerStep_Reachable ==
    ASSUME Native, IInv, Reachable, NEW c \in Calls, CallerStep(c)
    PROVE  Reachable'
<1>1. ~Probed(c) /\ ~Reprobed(c)
  BY DEF Probed, Reprobed, Reachable
<1>2. CASE Woken(c)
  <2>1. CASE GiveUp(c)
    BY <1>2, <2>1 DEF Woken, Reachable, GiveUp, Return, tryVars, IInv, TypeOK
  <2>2. CASE TakeOwnership(c, c \in queries, c \in snapshot)
    <3>1. (c \in snapshot => c \in snapshot') /\ snapshot \subseteq snapshot'
      BY <1>2 DEF Woken
    <3> QED BY <2>2, <3>1, TakeOwnership_Reachable, Zenon
  <2> QED BY <1>2, <2>1, <2>2 DEF Woken
<1>3. CASE Watched(c)
  <2>1. \A d \in Calls : caller'[d] \notin {"probing", "reprobing"}
    BY <1>3 DEF Watched, Return, Reachable, IInv, TypeOK
  <2>2. /\ slot' = slot /\ snapshot' = snapshot
        /\ \A d \in Calls : outcome'[d] = "pending" => outcome[d] = "pending"
    BY <1>3 DEF Watched, CancelAlone, Cancel, tryVars, IInv, TypeOK
  <2> QED BY <2>1, <2>2 DEF Reachable
<1> QED BY <1>1, <1>2, <1>3 DEF CallerStep

LEMMA Close_Reachable ==
    ASSUME Native, IInv, Reachable, NEW k \in Closers, Close(k)
    PROVE  Reachable'
<1>1. caller' = caller /\ slot' = slot
  BY DEF Close
<1>2. \A d \in Calls : outcome'[d] # "pending"
  <2>1. CASE slot \in Pending /\ Cancel(slot)
    BY <2>1 DEF Pending, Cancel, Reachable, IInv, TypeOK
  <2>2. CASE slot \notin Pending /\ outcome' = outcome
    BY <2>2 DEF Pending, Reachable
  <2> QED BY <2>1, <2>2 DEF Close, CancelOwner
<1> QED BY <1>1, <1>2 DEF Reachable

LEMMA Next_Reachable == ASSUME Native PROVE IInv /\ Reachable /\ [Next]_vars => Reachable'
<1> SUFFICES ASSUME IInv, Reachable, [Next]_vars PROVE Reachable'
  OBVIOUS
<1>1. ASSUME NEW c \in Callers, CallConnect(c) PROVE Reachable'
  BY <1>1, Connect_Reachable DEF CallConnect, Calls
<1>2. ASSUME NEW c \in Calls, CallerStep(c) PROVE Reachable'
  BY <1>2, CallerStep_Reachable
<1>3. ASSUME NEW c \in Calls, TaskStep(c) \/ LinkStep(c) PROVE Reachable'
  BY <1>3, Attempt_Reachable
<1>4. ASSUME NEW k \in Closers, Close(k) PROVE Reachable'
  BY <1>4, Close_Reachable
<1>5. CASE WakeAndDial
  BY <1>5, Connect_Reachable DEF WakeAndDial, Calls
<1>6. CASE UNCHANGED <<caller, outcome, slot, snapshot>>
  BY <1>6 DEF Reachable
<1>7. ASSUME NEW c \in Calls, Withdraw(c) \/ DeadlinePasses(c) PROVE Reachable'
  BY <1>6, <1>7 DEF Withdraw, DeadlinePasses, tryVars
<1>8. ASSUME NEW k \in Closers, CloserStep(k) PROVE Reachable'
  BY <1>6, <1>8 DEF CloserStep, CloserTakes, Disconnected, tryVars
<1>9. CASE SeeDrop \/ WakeIdle \/ HubDrops
  BY <1>6, <1>9 DEF SeeDrop, WakeIdle, LinkVarsKept, HubDrops, tryVars
<1>10. CASE UNCHANGED vars
  BY <1>6, <1>10 DEF vars, tryVars
<1> QED BY <1>1, <1>2, <1>3, <1>4, <1>5, <1>7, <1>8, <1>9, <1>10
        DEF Next, SupervisorStep, Calls

LEMMA Reachability == ASSUME Native PROVE Spec => []Reachable
<1>1. Init => Reachable
  BY DEF Init, Reachable
<1>2. IInv /\ Reachable /\ [Next]_vars => Reachable'
  BY Next_Reachable
<1> QED BY <1>1, <1>2, Invariance, PTL DEF Spec

\* With the native link close() always reaches the attempt that owns the
\* connection (_cancel_connect).
THEOREM CloseCanCancel == ASSUME Native PROVE Spec => []CloseReachesOwner
<1>1. IInv /\ Reachable => CloseReachesOwner
  BY DEF IInv, Core, AttemptsFit, Reachable, CloseReachesOwner
<1> QED BY <1>1, Invariance, Reachability, PTL

\* With the native link no connect call that began before a close reports
\* readiness after it ("Hub connection was closed before it became ready.").
THEOREM CloseIsFinal == ASSUME Native PROVE Spec => NoReadyAfterClose
<1>1. IInv /\ Reachable /\ [Next]_vars =>
        [\A c \in Calls :
          /\ (outcome[c] = "pending" /\ outcome'[c] = "ready") => c \in snapshot
          /\ (caller[c] \in {"probing", "reprobing"} /\ caller'[c] = "ready")
                => c \in snapshot]_vars
  BY DEF Reachable
<1> QED BY <1>1, Invariance, Reachability, PTL DEF Spec, NoReadyAfterClose

-----------------------------------------------------------------------------
(* Nothing is dialled over a cleanup that failed.                          *)

\* A call that has taken the token and not dialled yet.
Undialled(c) == task[c] = "starting" \/ caller[c] = "reprobing"

\* It found no failed cleanup, and none can fail behind its back: whatever
\* may fail is an owner's work.
CleanStart == \A c \in Calls : Undialled(c) => ~closeErrors

LEMMA Undialled_Owner ==
    ASSUME IInv, NEW c \in Calls, Undialled(c)
    PROVE  /\ \A d \in Calls \ {c} : task[d] = "none" /\ caller[d] # "reprobing"
           /\ retiring \subseteq {c}
           /\ caller[c] = "reprobing" => retiring = {}
           /\ \A k \in Closers : closer[k] # "disconnecting"
<1>1. task[c] # "none" \/ caller[c] = "reprobing"
  BY DEF Undialled
<1>2. Owners = {c} /\ \A d \in Calls \ {c} : task[d] = "none" /\ caller[d] # "reprobing"
  BY <1>1, SoleOwner
<1>3. \A d \in retiring : d \in Calls /\ task[d] # "none"
  BY DEF IInv, TypeOK, Core, AttemptsFit
<1>4. caller[c] = "reprobing" => task[c] = "none"
  BY DEF IInv, Core, CallersApart
<1>5. ASSUME NEW k \in Closers, closer[k] = "disconnecting" PROVE FALSE
  <2>1. k \in Owners
    BY <1>5 DEF Owners
  <2> QED BY <1>2, <2>1, ConstantsAssumption
<1> QED BY <1>2, <1>3, <1>4, <1>5

\* Only a caller that takes the token, or had it, becomes undialled.
LEMMA TakeOwnership_Clean ==
    ASSUME IInv, CleanStart, NEW c \in Calls, NEW query \in BOOLEAN, NEW current,
           TakeOwnership(c, query, current), closeErrors' = closeErrors
    PROVE  CleanStart'
<1>1. /\ \A d \in Calls \ {c} : task'[d] = task[d] /\ caller'[d] = caller[d]
      /\ Undialled(c)' => Undialled(c) \/ ~closeErrors
  BY DEF TakeOwnership, Refused, Decide, Launch, Suspend, Return, Undialled, tryVars,
         IInv, TypeOK
<1> QED BY <1>1 DEF CleanStart, Undialled

LEMMA Caller_Clean ==
    ASSUME IInv, CleanStart, NEW c \in Calls,
           CallConnect(c) \/ CallerStep(c)
    PROVE  CleanStart'
<1> USE DEF IInv, TypeOK
<1>1. closeErrors' = closeErrors
  BY DEF CallConnect, Connect, CallerStep, Probed, Woken, Reprobed, Watched, CancelAlone,
         closeVars
<1>2. ASSUME UNCHANGED tryVars,
             \E state \in CallerStates \ {"reprobing"} : caller' = [caller EXCEPT ![c] = state]
      PROVE  CleanStart'
  BY <1>1, <1>2 DEF tryVars, CleanStart, Undialled
<1>3. ASSUME NEW result \in Idle, Return(c, result), UNCHANGED tryVars
      PROVE  CleanStart'
  BY <1>2, <1>3 DEF Return, Idle, CallerStates
<1>4. ASSUME GiveUp(c) PROVE CleanStart'
  BY <1>3, <1>4 DEF GiveUp, Idle
<1>5. ASSUME NEW query \in BOOLEAN, Connect(c, query) PROVE CleanStart'
  <2>1. CASE TakeOwnership(c, query, TRUE)
    BY <1>1, <2>1, TakeOwnership_Clean
  <2>2. CASE Suspend(c, "probing") /\ UNCHANGED tryVars
    BY <1>2, <2>2 DEF Suspend, CallerStates
  <2>3. CASE Return(c, "ready") /\ UNCHANGED tryVars
    BY <1>3, <2>3 DEF Idle
  <2> QED BY <1>4, <1>5, <2>1, <2>2, <2>3 DEF Connect
<1>6. CASE Probed(c)
  <2>1. CASE TakeOwnership(c, FALSE, c \in snapshot)
    BY <1>1, <2>1, TakeOwnership_Clean
  <2>2. CASE Return(c, "ready") /\ UNCHANGED tryVars
    BY <1>3, <2>2 DEF Idle
  <2> QED BY <1>4, <1>6, <2>1, <2>2 DEF Probed
<1>7. CASE Woken(c)
  <2>1. (c \in queries) \in BOOLEAN
    OBVIOUS
  <2>2. CASE TakeOwnership(c, c \in queries, c \in snapshot)
    BY <1>1, <2>1, <2>2, TakeOwnership_Clean
  <2> QED BY <1>4, <1>7, <2>2 DEF Woken
<1>8. CASE Reprobed(c)
  <2>1. ~closeErrors
    BY <1>8 DEF Reprobed, CleanStart, Undialled
  <2> QED BY <1>1, <2>1 DEF CleanStart
<1>9. CASE Watched(c)
  <2>1. task' = task /\ \E state \in Idle : caller' = [caller EXCEPT ![c] = state]
    BY <1>9 DEF Watched, Return, tryVars, Idle
  <2> QED BY <1>1, <2>1 DEF CleanStart, Undialled, Idle
<1> QED BY <1>5, <1>6, <1>7, <1>8, <1>9 DEF CallConnect, CallerStep

\* An attempt never goes back to where it has not dialled.
LEMMA Attempt_Clean ==
    ASSUME IInv, CleanStart, NEW c \in Calls, TaskStep(c) \/ LinkStep(c)
    PROVE  CleanStart'
<1> USE DEF IInv, TypeOK
<1>1. /\ caller' = caller
      /\ task' = task \/ \E state \in TaskStates \ {"starting"} : task' = [task EXCEPT ![c] = state]
  <2>1. CASE Dial(c) \/ Poll(c) \/ Asked(c) \/ Operated(c)
    BY <2>1 DEF Dial, Poll, Asked, Operated, Settle, Established, Complete, AskLink, TaskStates,
                askVars
  <2>2. CASE Settled(c) \/ RetiredAgain(c)
    BY <2>2 DEF Settled, RetiredAgain, Finish, TaskStates
  <2>3. CASE LinkStep(c)
    BY <2>3 DEF LinkStep, Dialed, Failed, Retired, ProbeAnswers, Settle, TaskStates, tryVars
  <2> QED BY <2>1, <2>2, <2>3 DEF TaskStep
<1>2. \A d \in Calls : Undialled(d)' => Undialled(d)
  BY <1>1 DEF Undialled
<1>3. CASE closeErrors' = closeErrors
  BY <1>2, <1>3 DEF CleanStart
<1>4. CASE Retired(c) \/ RetiredAgain(c)
  <2>1. ASSUME NEW d \in Calls, Undialled(d)' PROVE FALSE
    <3>1. Undialled(d)
      BY <1>2, <2>1
    <3>2. d = c /\ (caller[d] = "reprobing" => task[d] = "none" /\ retiring = {})
      <4>1. c \in retiring \/ task[c] # "none"
        BY <1>4 DEF Retired, RetiredAgain
      <4> QED BY <3>1, <4>1, Undialled_Owner DEF Core, CallersApart
    <3> QED BY <1>4, <3>1, <3>2 DEF Retired, RetiredAgain, Undialled
  <2> QED BY <2>1 DEF CleanStart
<1>5. Retired(c) \/ RetiredAgain(c) \/ closeErrors' = closeErrors
  BY DEF TaskStep, LinkStep, Dial, Poll, Asked, Operated, Settled, Dialed, Failed, ProbeAnswers,
         Settle, CancelAlone, Established, Complete, AskLink, closeVars
<1> QED BY <1>3, <1>4, <1>5

LEMMA Next_Clean == IInv /\ CleanStart /\ [Next]_vars => CleanStart'
<1> SUFFICES ASSUME IInv, CleanStart, [Next]_vars PROVE CleanStart'
  OBVIOUS
<1>1. CASE UNCHANGED <<task, caller, closeErrors>>
  BY <1>1 DEF CleanStart, Undialled
<1>2. ASSUME NEW c \in Callers, CallConnect(c) PROVE CleanStart'
  BY <1>2, Caller_Clean DEF Calls
<1>3. ASSUME NEW c \in Calls, CallerStep(c) PROVE CleanStart'
  BY <1>3, Caller_Clean
<1>4. ASSUME NEW c \in Calls, TaskStep(c) \/ LinkStep(c) PROVE CleanStart'
  BY <1>4, Attempt_Clean
<1>5. CASE WakeAndDial
  BY <1>5, Caller_Clean DEF WakeAndDial, Calls, CallConnect
<1>6. ASSUME NEW k \in Closers, Disconnected(k) PROVE CleanStart'
  <2>1. \A c \in Calls : ~Undialled(c)
    BY <1>6, Undialled_Owner DEF Disconnected
  <2> QED BY <1>6, <2>1 DEF Disconnected, CleanStart, Undialled, tryVars
<1>7. ASSUME NEW k \in Closers, Close(k) \/ CloserTakes(k) PROVE CleanStart'
  BY <1>1, <1>7 DEF Close, CloserTakes, tryVars
<1>8. ASSUME NEW c \in Calls, Withdraw(c) \/ DeadlinePasses(c) PROVE CleanStart'
  BY <1>1, <1>8 DEF Withdraw, DeadlinePasses, tryVars, closeVars
<1>9. CASE SeeDrop \/ WakeIdle \/ HubDrops
  BY <1>1, <1>9 DEF SeeDrop, WakeIdle, LinkVarsKept, HubDrops, tryVars, closeVars
<1>10. CASE UNCHANGED vars
  BY <1>1, <1>10 DEF vars, tryVars, closeVars
<1> QED BY <1>2, <1>3, <1>4, <1>5, <1>6, <1>7, <1>8, <1>9, <1>10
        DEF Next, SupervisorStep, CloserStep, Calls

\* Whatever the link, nothing is dialled while a cleanup is running that is
\* not the attempt's own, or after one that failed and no close() retried.
THEOREM NoDialOverCleanup == Spec => NoDialOverFailedCleanup
<1>1. Init => CleanStart
  BY DEF Init, CleanStart, Undialled
<1>2. IInv /\ CleanStart =>
        \A c \in Calls : task[c] = "starting" => ~closeErrors /\ retiring \ {c} = {}
  BY Undialled_Owner DEF CleanStart, Undialled
<1>3. IInv /\ CleanStart =>
        [\A c \in Calls : (task[c] = "starting" /\ task'[c] = "dialing")
                            => ~closeErrors /\ retiring \ {c} = {}]_vars
  BY <1>2
<1> QED BY <1>1, <1>3, Next_Clean, Invariance, PTL DEF Spec, NoDialOverFailedCleanup

==============================================================================
