--------------------------- MODULE ClientLifecycle ---------------------------
(***************************************************************************)
(* The connection life cycle of AsyncThalovantClient (thalovant/client.py):*)
(* connect, query sends that connect, close, the cleanup of attempts that  *)
(* timed out or were cancelled, and the redial of dropped links.           *)
(*                                                                         *)
(* One action is what one task does between two awaits on the event loop.  *)
(* A connect call is two tasks: its caller, which waits until a deadline,  *)
(* and its attempt (run_connect), which keeps the ownership token until its*)
(* work and its cleanup are over, long after the caller may have left.     *)
(*                                                                         *)
(* Time is abstract: a deadline is a flag that may be raised at any moment.*)
(* _connection_generation is only ever compared with an earlier reading of *)
(* it, so the set of readings that still equal it stands for the counter.  *)
(***************************************************************************)
EXTENDS Integers, FiniteSets

CONSTANTS
    Callers,        \* tasks of the application that call connect or send a query
    Closers,        \* close() calls, each made once
    Redial,         \* the supervisor's own connect call
    Supervisor,     \* the supervisor as a reader of the generation
    None,           \* no connect call
    Native,         \* the link is NativeLink: its probe never suspends
    AutoReconnect,  \* auto_reconnect
    RetireMayFail   \* whether releasing a hub admission can fail (HTTPS)

Calls == Callers \cup {Redial}

ASSUME ConstantsAssumption ==
    /\ None \notin Calls
    /\ Redial \notin Callers
    /\ Supervisor \notin Calls
    /\ Calls \cap Closers = {}
    /\ IsFiniteSet(Closers)
    /\ {Native, AutoReconnect, RetireMayFail} \subseteq BOOLEAN

VARIABLES
    held,         \* _Ownership._held
    parked,       \* who waits for the event the next release sets
    connected,    \* _connected
    closing,      \* _closing
    cleanups,     \* _automatic_cleanups
    closedState,  \* _closed_state: what wait_closed() waits for
    closeErrors,  \* _close_errors is not empty
    slot,         \* _cancel_connect: the call whose attempt close() can cancel
    snapshot,     \* readers of the generation whose reading is still current
    caller,       \* where each connect call is
    task,         \* where each call's attempt, run_connect, is
    outcome,      \* done, cancelled and errors of each attempt
    opened,       \* attempts whose transport_completed is true
    queries,      \* calls that carry an operation, the send of a query
    retiring,     \* attempts whose cleanup task has not ended
    late,         \* calls whose deadline has passed
    withdrawn,    \* calls cancelled by their caller: event set or task cancelled
    answer,       \* what a probe in a worker thread found
    closer,       \* where each close() call's run_close task is
    sup,          \* where the redial supervisor is
    linkUp        \* transport.is_connected(); its stopped event is the negation

lockVars  == <<held, parked>>
closeVars == <<closing, cleanups, closedState, closeErrors, closer>>
tryVars   == <<task, outcome, opened, retiring, slot>>
askVars   == <<queries, late, withdrawn, answer>>
vars == <<lockVars, connected, closeVars, snapshot, caller, tryVars, askVars, sup, linkUp>>

CallerStates ==
    {"ready", "failed", "probing", "waiting", "reprobing", "watching"}
TaskStates ==
    {"none", "starting", "dialing", "reapplying", "polling", "asking",
     "operating", "settling", "again"}
Idle == {"ready", "failed"}

TypeOK ==
    /\ held \in BOOLEAN /\ connected \in BOOLEAN /\ linkUp \in BOOLEAN
    /\ closedState \in BOOLEAN /\ closeErrors \in BOOLEAN
    /\ parked \subseteq Calls \cup Closers
    /\ closing \in Nat /\ cleanups \in Nat
    /\ slot \in Calls \cup {None}
    /\ snapshot \subseteq Calls \cup {Supervisor}
    /\ caller \in [Calls -> CallerStates]
    /\ task \in [Calls -> TaskStates]
    /\ outcome \in [Calls -> {"none", "pending", "ready", "cancelled"}]
    /\ opened \subseteq Calls /\ queries \subseteq Calls /\ retiring \subseteq Calls
    /\ late \subseteq Calls /\ withdrawn \subseteq Calls
    /\ answer \in [Calls -> {"none", "yes", "no"}]
    /\ closer \in [Closers -> {"new", "starting", "waiting", "disconnecting", "ended"}]
    /\ sup \in {"none", "watching", "sleeping", "dialing"}

Init ==
    /\ held = FALSE /\ parked = {} /\ connected = FALSE /\ linkUp = FALSE
    /\ closing = 0 /\ cleanups = 0 /\ closedState = TRUE /\ closeErrors = FALSE
    /\ slot = None /\ snapshot = {} /\ sup = "none"
    /\ caller = [c \in Calls |-> "failed"]
    /\ task = [c \in Calls |-> "none"]
    /\ outcome = [c \in Calls |-> "none"]
    /\ opened = {} /\ queries = {} /\ retiring = {} /\ late = {} /\ withdrawn = {}
    /\ answer = [c \in Calls |-> "none"]
    /\ closer = [k \in Closers |-> "new"]

-----------------------------------------------------------------------------
(* Pieces of the handlers.                                                 *)

\* Attempts that are not done yet.
Pending == {c \in Calls : outcome[c] = "pending"}

\* _Ownership.release: the token is free and everyone waiting on it wakes.
ReleaseQuietly == held' = FALSE /\ UNCHANGED parked        \* mutant: nobody is woken
Release == held' = FALSE /\ parked' = {}

\* The call returns to whoever made it. The supervisor goes on at once: it
\* sleeps again while the link is down and watches a link that is up.
ReturnOnce(c, result) ==                              \* mutant: one redial only
    /\ caller' = [caller EXCEPT ![c] = result]
    /\ sup' = IF c # Redial \/ c \in withdrawn THEN sup
              ELSE IF linkUp THEN "watching" ELSE "none"
Return(c, result) ==
    /\ caller' = [caller EXCEPT ![c] = result]
    /\ sup' = IF c # Redial \/ c \in withdrawn THEN sup
              ELSE IF linkUp THEN "watching" ELSE "sleeping"

\* The call suspends in the given state, and with it a supervisor that made it.
Suspend(c, state) ==
    /\ caller' = [caller EXCEPT ![c] = state]
    /\ sup' = IF c = Redial THEN "dialing" ELSE sup

Cancel(c) ==
    /\ outcome' = [outcome EXCEPT ![c] = "cancelled"]
    /\ cleanups' = cleanups + 1
    /\ retiring' = retiring \cup {c}

\* cancel() called by the attempt or its caller rather than by close().
CancelStillClosed(c) ==                               \* mutant: _set_closed(False) forgotten
    /\ Cancel(c)
    /\ connected' = FALSE
    /\ UNCHANGED <<closedState, closing, closeErrors, closer>>
CancelAlone(c) ==
    /\ Cancel(c)
    /\ connected' = FALSE
    /\ closedState' = FALSE
    /\ UNCHANGED <<closing, closeErrors, closer>>

Launch(c, reuse) ==
    /\ held' = TRUE
    /\ connected' = IF reuse THEN connected ELSE FALSE
    /\ slot' = c
    /\ task' = [task EXCEPT ![c] = "starting"]
    /\ outcome' = [outcome EXCEPT ![c] = "pending"]
    /\ opened' = IF reuse THEN opened \cup {c} ELSE opened \ {c}
    /\ Suspend(c, "watching")
    /\ UNCHANGED <<parked, retiring>>

Decide(c, query, reuse) ==
    \/ /\ reuse /\ ~query
       /\ Release /\ Return(c, "ready")
       /\ UNCHANGED <<tryVars, connected>>
    \/ (~reuse \/ query) /\ Launch(c, reuse)

RefusedIfClosed(current) == closing > 0 \/ ~current         \* mutant: cleanup errors ignored
Refused(current) == closing > 0 \/ ~current \/ closeErrors

\* One turn of the loop that takes ownership, up to the next await.
TakeOwnership(c, query, current) ==
    \/ /\ held
       /\ parked' = parked \cup {c}
       /\ Suspend(c, "waiting")
       /\ UNCHANGED <<held, tryVars, connected>>
    \/ /\ ~held
       /\ Refused(current)
       /\ Release /\ Return(c, "failed")
       /\ UNCHANGED <<tryVars, connected>>
    \/ /\ ~held
       /\ ~Refused(current)
       /\ connected /\ ~Native
       /\ held' = TRUE
       /\ Suspend(c, "reprobing")
       /\ UNCHANGED <<parked, tryVars, connected>>
    \/ /\ ~held
       /\ ~Refused(current)
       /\ ~connected \/ Native
       /\ Decide(c, query, connected /\ linkUp)

\* Leaving without ownership.
GiveUp(c) ==
    /\ Return(c, "failed")
    /\ parked' = parked \ {c}
    /\ UNCHANGED <<held, tryVars, connected>>

-----------------------------------------------------------------------------
(* The caller's side of _connect.                                          *)

Connect(c, query) ==
    /\ caller[c] \in Idle /\ task[c] = "none"
    /\ queries' = IF query THEN queries \cup {c} ELSE queries \ {c}
    /\ late' = late \ {c}
    /\ withdrawn' = withdrawn \ {c}
    /\ answer' = [answer EXCEPT ![c] = "none"]
    /\ \/ /\ Refused(TRUE)
          /\ GiveUp(c)
          /\ UNCHANGED snapshot
       \/ /\ ~Refused(TRUE)
          /\ snapshot' = snapshot \cup {c}
          /\ LET asks == ~query /\ ~held /\ connected
             IN \/ /\ asks /\ Native /\ linkUp
                   /\ Return(c, "ready")
                   /\ UNCHANGED <<lockVars, tryVars, connected>>
                \/ /\ asks /\ ~Native
                   /\ Suspend(c, "probing")
                   /\ UNCHANGED <<lockVars, tryVars, connected>>
                \/ /\ ~asks \/ (Native /\ ~linkUp)
                   /\ TakeOwnership(c, query, TRUE)
    /\ UNCHANGED <<closeVars, linkUp>>

CallConnect(c) == \E query \in BOOLEAN : Connect(c, query)

\* The first probe has answered, or run into the deadline.
Probed(c) ==
    /\ caller[c] = "probing"
    /\ answer[c] # "none" \/ c \in late \cup withdrawn
    /\ answer' = [answer EXCEPT ![c] = "none"]
    /\ \/ /\ answer[c] = "none" \/ c \in withdrawn
          /\ GiveUp(c)
       \/ /\ answer[c] = "yes" /\ ~held /\ c \notin withdrawn
          /\ Return(c, "ready")
          /\ UNCHANGED <<lockVars, tryVars, connected>>
       \/ /\ answer[c] = "no" \/ (answer[c] = "yes" /\ held)
          /\ c \in late /\ GiveUp(c)
       \/ /\ answer[c] = "no" \/ (answer[c] = "yes" /\ held)
          /\ c \notin late \cup withdrawn
          /\ TakeOwnership(c, FALSE, c \in snapshot)
    /\ UNCHANGED <<closeVars, snapshot, queries, late, withdrawn, linkUp>>

\* mutant: a waiter that does not look at its deadline
WokenByRelease(c) ==
    /\ caller[c] = "waiting" /\ c \notin parked
    /\ TakeOwnership(c, c \in queries, c \in snapshot)
    /\ UNCHANGED <<closeVars, snapshot, askVars, linkUp>>

\* A waiter wakes: the token was released, the deadline passed, or its
\* caller withdrew it.
Woken(c) ==
    /\ caller[c] = "waiting"
    /\ c \notin parked \/ c \in late \cup withdrawn
    /\ \/ c \in late \cup withdrawn /\ GiveUp(c)
       \/ c \notin late \cup withdrawn /\ TakeOwnership(c, c \in queries, c \in snapshot)
    /\ UNCHANGED <<closeVars, snapshot, askVars, linkUp>>

\* The second probe has answered. Closing and the generation are not looked
\* at again: the attempt is launched on what was true before the probe.
Reprobed(c) ==
    /\ caller[c] = "reprobing"
    /\ answer[c] # "none" \/ c \in late \cup withdrawn
    /\ answer' = [answer EXCEPT ![c] = "none"]
    /\ \/ /\ answer[c] = "none" \/ c \in withdrawn
          /\ Release /\ Return(c, "failed")
          /\ UNCHANGED <<tryVars, connected>>
       \/ /\ answer[c] # "none"
          /\ Decide(c, c \in queries, answer[c] = "yes")
    /\ UNCHANGED <<closeVars, snapshot, queries, late, withdrawn, linkUp>>

\* The caller waits for its attempt, and cancels it at its own deadline.
Watched(c) ==
    /\ caller[c] = "watching"
    /\ \/ /\ outcome[c] # "pending"
          /\ Return(c, IF outcome[c] = "ready" THEN "ready" ELSE "failed")
          /\ UNCHANGED <<connected, closeVars, tryVars>>
       \/ /\ outcome[c] = "pending" /\ c \in late \cup withdrawn
          /\ CancelAlone(c) /\ Return(c, "failed")
          /\ UNCHANGED <<task, opened, slot>>
    /\ UNCHANGED <<lockVars, snapshot, askVars, linkUp>>

-----------------------------------------------------------------------------
(* run_connect: the attempt's task.                                        *)

Dial(c) ==
    /\ task[c] = "starting" /\ c \notin opened
    /\ task' = [task EXCEPT ![c] = "dialing"]
    /\ UNCHANGED <<lockVars, connected, closeVars, snapshot, caller, outcome, opened,
                   retiring, slot, askVars, sup, linkUp>>

\* The link answered. A cancelled attempt's link may answer too, even after
\* its cleanup: a custom transport is not bound to stop when it is retired.
Dialed(c) ==
    /\ task[c] = "dialing"
    /\ task' = [task EXCEPT ![c] = "reapplying"]
    /\ opened' = opened \cup {c}
    /\ linkUp' = TRUE
    /\ UNCHANGED <<lockVars, connected, closeVars, snapshot, caller, outcome,
                   retiring, slot, askVars, sup>>

\* mutant: the token is given back before the cleanup
SettleAndRelease(c) ==
    /\ task' = [task EXCEPT ![c] = "settling"]
    /\ \/ /\ outcome[c] = "pending" /\ CancelAlone(c)
       \/ /\ outcome[c] = "cancelled"
          /\ UNCHANGED <<connected, closeVars, outcome, retiring>>
    /\ Release
    /\ UNCHANGED <<opened, slot, sup>>

\* Into the finally clause, by way of cancel() unless the attempt is done.
Settle(c) ==
    /\ task' = [task EXCEPT ![c] = "settling"]
    /\ \/ /\ outcome[c] = "pending" /\ CancelAlone(c)
       \/ /\ outcome[c] = "cancelled"
          /\ UNCHANGED <<connected, closeVars, outcome, retiring>>
    /\ UNCHANGED <<lockVars, opened, slot, sup>>

\* Dialling, subscribing again or the operation raised.
Failed(c) ==
    /\ task[c] \in {"dialing", "reapplying", "operating"}
    /\ Settle(c)
    /\ UNCHANGED <<snapshot, caller, askVars, linkUp>>

\* The attempt is done: the link is watched and the token given back.
Complete(c) ==
    /\ outcome' = [outcome EXCEPT ![c] = "ready"]
    /\ task' = [task EXCEPT ![c] = "none"]
    /\ slot' = None
    /\ Release
    /\ \/ /\ AutoReconnect /\ Native /\ sup = "none"
          /\ sup' = "watching" /\ snapshot' = snapshot \cup {Supervisor}
       \/ /\ ~(AutoReconnect /\ Native /\ sup = "none")
          /\ UNCHANGED <<sup, snapshot>>
    /\ UNCHANGED <<closeVars, opened, retiring>>

\* The probe said the link is up: connected, and then the operation if any.
Established(c) ==
    /\ connected' = TRUE
    /\ \/ c \notin queries /\ Complete(c)
       \/ /\ c \in queries
          /\ task' = [task EXCEPT ![c] = "operating"]
          /\ UNCHANGED <<lockVars, closeVars, snapshot, outcome, opened, retiring, slot, sup>>

\* The attempt asks a link that cannot answer without suspending.
AskLink(c) ==
    /\ task' = [task EXCEPT ![c] = "asking"]
    /\ answer' = [answer EXCEPT ![c] = "none"]
    /\ UNCHANGED <<lockVars, connected, closeVars, snapshot, outcome, opened, retiring, slot, sup>>

\* One turn of the readiness loop.
Poll(c) ==
    /\ \/ task[c] \in {"reapplying", "polling"}
       \/ task[c] = "starting" /\ c \in opened
    /\ \/ /\ \/ outcome[c] = "cancelled"
             \/ c \in late
             \/ Native /\ ~linkUp
          /\ Settle(c) /\ UNCHANGED <<snapshot, answer>>
       \/ /\ outcome[c] = "pending" /\ c \notin late
          /\ \/ Native /\ linkUp /\ Established(c) /\ UNCHANGED answer
             \/ ~Native /\ AskLink(c)
    /\ UNCHANGED <<caller, queries, late, withdrawn, linkUp>>

\* The readiness probe answered, or ran into the deadline.
Asked(c) ==
    /\ task[c] = "asking"
    /\ answer[c] # "none" \/ c \in late
    /\ answer' = [answer EXCEPT ![c] = "none"]
    /\ \/ /\ answer[c] = "yes" /\ (c \in late \/ outcome[c] = "cancelled")
          /\ Settle(c) /\ UNCHANGED snapshot
       \/ /\ answer[c] = "yes" /\ c \notin late /\ outcome[c] = "pending"
          /\ Established(c)
       \/ /\ answer[c] # "yes"
          /\ task' = [task EXCEPT ![c] = "polling"]
          /\ UNCHANGED <<lockVars, connected, closeVars, snapshot, outcome, opened,
                         retiring, slot, sup>>
    /\ UNCHANGED <<caller, queries, late, withdrawn, linkUp>>

\* The operation returned.
Operated(c) ==
    /\ task[c] = "operating"
    /\ \/ /\ outcome[c] = "cancelled" \/ c \in late
          /\ Settle(c) /\ UNCHANGED snapshot
       \/ /\ outcome[c] = "pending" /\ c \notin late
          /\ Complete(c) /\ UNCHANGED connected
    /\ UNCHANGED <<caller, askVars, linkUp>>

Finish(c) ==
    /\ task' = [task EXCEPT ![c] = "none"]
    /\ slot' = IF slot = c THEN None ELSE slot
    /\ cleanups' = cleanups - 1
    /\ closedState' = IF cleanups = 1 /\ closing = 0 THEN TRUE ELSE closedState
    /\ Release
    /\ UNCHANGED <<closing, closer, connected, snapshot, caller, outcome, opened,
                   retiring, askVars, sup>>

\* mutant: the cleanup is not waited for
SettledEarly(c) ==
    /\ task[c] = "settling"
    /\ Finish(c)
    /\ UNCHANGED <<closeErrors, linkUp>>

\* Its cleanup is over. A link that did come up is retired once more.
Settled(c) ==
    /\ task[c] = "settling" /\ c \notin retiring
    /\ \/ c \notin opened /\ Finish(c) /\ UNCHANGED <<closeErrors, linkUp>>
       \/ /\ c \in opened
          /\ task' = [task EXCEPT ![c] = "again"]
          /\ UNCHANGED <<lockVars, connected, closeVars, snapshot, caller, outcome,
                         opened, retiring, slot, askVars, sup, linkUp>>

\* link.retire() returns. One that fails leaves an error only close() clears.
\* The native link is down either way; a custom transport may have stayed up.
Retire ==
    \/ linkUp' = FALSE /\ UNCHANGED closeErrors
    \/ /\ RetireMayFail
       /\ closeErrors' = TRUE
       /\ linkUp' \in (IF Native THEN {FALSE} ELSE {FALSE, linkUp})

RetiredAgain(c) == task[c] = "again" /\ Retire /\ Finish(c)

\* The cleanup task of a cancelled attempt. The loop runs tasks in the order
\* they were made, so the attempt itself has started before it.
Retired(c) ==
    /\ c \in retiring /\ task[c] # "starting"
    /\ retiring' = retiring \ {c}
    /\ Retire
    /\ UNCHANGED <<lockVars, connected, closing, cleanups, closedState, closer, snapshot,
                   caller, task, outcome, opened, slot, askVars, sup>>

-----------------------------------------------------------------------------
(* close().                                                                *)

StopSupervisor ==
    /\ sup' = "none"
    /\ withdrawn' = IF sup = "dialing" THEN withdrawn \cup {Redial} ELSE withdrawn

\* close() cancels the attempt that owns the connection, if it is not done.
LeaveOwner == UNCHANGED <<outcome, cleanups, retiring>>      \* mutant: it is not cancelled
CancelOwner ==
    \/ slot \in Pending /\ Cancel(slot)
    \/ slot \notin Pending /\ UNCHANGED <<outcome, cleanups, retiring>>

Close(k) ==
    /\ closer[k] = "new"
    /\ closer' = [closer EXCEPT ![k] = "starting"]
    /\ snapshot' = {}
    /\ closing' = closing + 1
    /\ closedState' = FALSE
    /\ connected' = FALSE
    /\ StopSupervisor
    /\ CancelOwner
    /\ UNCHANGED <<lockVars, closeErrors, caller, task, opened, slot,
                   queries, late, answer, linkUp>>

\* run_close takes ownership, however long that takes.
CloserTakes(k) ==
    /\ closer[k] = "starting" \/ (closer[k] = "waiting" /\ k \notin parked)
    /\ \/ /\ held
          /\ parked' = parked \cup {k}
          /\ closer' = [closer EXCEPT ![k] = "waiting"]
          /\ UNCHANGED held
       \/ /\ ~held
          /\ held' = TRUE
          /\ closer' = [closer EXCEPT ![k] = "disconnecting"]
          /\ UNCHANGED parked
    /\ UNCHANGED <<connected, closing, cleanups, closedState, closeErrors, snapshot,
                   caller, tryVars, askVars, sup, linkUp>>

\* link.disconnect() returns: it also retries what an earlier cleanup left.
Disconnected(k) ==
    /\ closer[k] = "disconnecting"
    /\ \/ closeErrors' = FALSE /\ linkUp' = FALSE
       \/ /\ RetireMayFail /\ closeErrors' = TRUE
          /\ linkUp' \in (IF Native THEN {FALSE} ELSE {FALSE, linkUp})
    /\ Release
    /\ closer' = [closer EXCEPT ![k] = "ended"]
    /\ closing' = closing - 1
    /\ closedState' = IF closing = 1 /\ cleanups = 0 THEN TRUE ELSE closedState
    /\ UNCHANGED <<connected, cleanups, snapshot, caller, tryVars, askVars, sup>>

-----------------------------------------------------------------------------
(* _redial_after_drops: the supervisor of a link that is up.               *)

LinkVarsKept == UNCHANGED <<lockVars, connected, closeVars, tryVars, snapshot, caller,
                            askVars, linkUp>>

\* The link's stopped event woke the supervisor.
SeeDrop ==
    /\ sup = "watching" /\ ~linkUp
    /\ sup' = IF Supervisor \notin snapshot \/ closing > 0 \/ ~connected
              THEN "none" ELSE "sleeping"
    /\ LinkVarsKept

\* The supervisor's sleep on the ladder is over, and there is nothing to dial.
WakeIdle ==
    /\ sup = "sleeping"
    /\ \/ (Supervisor \notin snapshot \/ closing > 0) /\ sup' = "none"
       \/ /\ Supervisor \in snapshot /\ closing = 0
          /\ linkUp /\ sup' = "watching"
    /\ LinkVarsKept

WakeAndDial ==
    /\ sup = "sleeping" /\ Supervisor \in snapshot /\ closing = 0 /\ ~linkUp
    /\ Connect(Redial, FALSE)

-----------------------------------------------------------------------------
(* What happens to the client: time, its callers, the network.             *)

DeadlinePasses(c) ==
    /\ caller[c] \notin Idle \/ task[c] # "none"
    /\ c \notin late
    /\ late' = late \cup {c}
    /\ UNCHANGED <<lockVars, connected, closeVars, snapshot, caller, tryVars,
                   queries, withdrawn, answer, sup, linkUp>>

Withdraw(c) ==
    /\ caller[c] \notin Idle /\ c \notin withdrawn
    /\ withdrawn' = withdrawn \cup {c}
    /\ UNCHANGED <<lockVars, connected, closeVars, snapshot, caller, tryVars,
                   queries, late, answer, sup, linkUp>>

\* The worker thread running is_connected() for a probe reads the answer.
ProbeAnswers(c) ==
    /\ caller[c] \in {"probing", "reprobing"} \/ task[c] = "asking"
    /\ answer[c] = "none"
    /\ answer' = [answer EXCEPT ![c] = IF linkUp THEN "yes" ELSE "no"]
    /\ UNCHANGED <<lockVars, connected, closeVars, snapshot, caller, tryVars,
                   queries, late, withdrawn, sup, linkUp>>

HubDrops ==
    /\ linkUp /\ linkUp' = FALSE
    /\ UNCHANGED <<lockVars, connected, closeVars, snapshot, caller, tryVars, askVars, sup>>

-----------------------------------------------------------------------------
CallerStep(c) == Probed(c) \/ Woken(c) \/ Reprobed(c) \/ Watched(c)
TaskStep(c) ==
    Dial(c) \/ Poll(c) \/ Asked(c) \/ Operated(c) \/ Settled(c) \/ RetiredAgain(c)
LinkStep(c) == Dialed(c) \/ Failed(c) \/ Retired(c) \/ ProbeAnswers(c)
CloserStep(k) == CloserTakes(k) \/ Disconnected(k)
SupervisorStep == SeeDrop \/ WakeIdle \/ WakeAndDial

Next ==
    \/ \E c \in Callers : CallConnect(c) \/ Withdraw(c)
    \/ \E c \in Calls : CallerStep(c) \/ TaskStep(c) \/ LinkStep(c) \/ DeadlinePasses(c)
    \/ \E k \in Closers : Close(k) \/ CloserStep(k)
    \/ SupervisorStep
    \/ HubDrops

Spec == Init /\ [][Next]_vars

(* What the event loop and the bounded timeouts of every request promise: a *)
(* task that can go on does, a deadline passes, a dial, a cleanup and a     *)
(* disconnect end one way or the other. Nobody has to call, to cancel or to *)
(* close, and no dial has to succeed.                                       *)
LoopFairness ==
    /\ \A c \in Calls :
          /\ WF_vars(CallerStep(c)) /\ WF_vars(TaskStep(c))
          /\ WF_vars(LinkStep(c)) /\ WF_vars(DeadlinePasses(c))
    /\ \A k \in Closers : WF_vars(CloserStep(k))
    /\ WF_vars(SupervisorStep)

FairSpec == Spec /\ LoopFairness

-----------------------------------------------------------------------------
(* Properties.                                                             *)

\* Who holds the ownership token, going by where each task is.
Owners ==
    {c \in Calls : task[c] # "none" \/ caller[c] = "reprobing"}
        \cup {k \in Closers : closer[k] = "disconnecting"}

\* The token has one owner at a time, over every hand-over between attempts,
\* their cleanups and closes, and it is held only while that owner works: no
\* path out of connect, its attempt or close gives it back twice or keeps it
\* (_Ownership and every release() in _connect, run_connect and run_close).
OneOwner ==
    /\ \A o, p \in Owners : o = p
    /\ held <=> Owners # {}

\* When the client counts as closed no cleanup is running, none is owed and
\* no close is under way, so wait_closed() never returns over work that can
\* still touch the hub (_closing, _automatic_cleanups, _set_closed).
ClosedIsQuiet ==
    closedState =>
        /\ retiring = {}
        /\ \A k \in Closers : closer[k] \in {"new", "ended"}
        /\ \A c \in Calls : task[c] \notin {"settling", "again"}

\* close() can always reach the attempt that owns the connection: whoever
\* took the token and is not done is the one _cancel_connect cancels.
CloseReachesOwner ==
    \A c \in Calls :
        (caller[c] = "reprobing" \/ (task[c] # "none" /\ outcome[c] = "pending"))
            => slot = c

\* close() cancels pending work: no attempt or reuse that began before a
\* close reports readiness after it ("Hub connection was closed before it
\* became ready.").
NoReadyAfterClose ==
    [][\A c \in Calls :
          /\ (outcome[c] = "pending" /\ outcome'[c] = "ready") => c \in snapshot
          /\ (caller[c] \in {"probing", "reprobing"} /\ caller'[c] = "ready")
                => c \in snapshot]_vars

\* Nothing is dialled while an earlier cleanup has failed and no close() has
\* retried it ("Previous connection cleanup failed; retry close before
\* reconnecting."), nor once the attempt that would dial was cancelled and
\* cleaned up after.
NoDialOverFailedCleanup ==
    [][\A c \in Calls :
          (task[c] = "starting" /\ task'[c] = "dialing")
              => ~closeErrors /\ retiring \ {c} = {}]_vars

\* The link only comes up for the attempt that owns the connection, and is
\* only retired while its owner waits for that: a timed-out attempt never
\* closes the session of a later one (connect: "a later attempt cannot
\* replace or be closed by that session").
CleanupStaysWithOwner ==
    [][/\ linkUp' # linkUp /\ linkUp' => held
       /\ \A c \in Calls : retiring' = retiring \ {c} /\ c \in retiring
              => held /\ \A d \in Calls \ {c} : task[d] = "none"]_vars

\* A connect or query call returns: at its deadline at the latest.
CallsReturn == \A c \in Calls : []<>(caller[c] \in Idle)

\* Every close ends, and the client then counts as closed: wait_closed()
\* does not wait for ever.
ClosesEnd ==
    /\ \A k \in Closers : []<>(closer[k] \in {"new", "ended"})
    /\ []<>closedState

\* The token always comes back, whatever the callers do.
OwnershipReturns == []<>~held

\* However calls, closes and drops interleave, nobody waits for ever: every
\* call and every close ends, and the token comes back to whoever is next
\* (_connect's deadline, run_close, _Ownership.release).
CallsEnd == CallsReturn /\ ClosesEnd /\ OwnershipReturns

\* A hub that is not down for ever: a redial that is made again and again
\* succeeds in the end, within its deadline.
HubReturns ==
    /\ SF_vars(Dialed(Redial))
    /\ SF_vars(Poll(Redial) /\ outcome'[Redial] = "ready")

\* "A link the hub drops comes back by itself", for a client that only
\* listens: once the supervisor has seen a drop, and if the application calls
\* no more, the link comes up again or somebody closes the client.
CallersQuiet == \A c \in Callers : caller[c] \in Idle /\ task[c] = "none"
DropIsRedialled ==
    (HubReturns /\ <>[]CallersQuiet) =>
        (sup = "sleeping" ~> (linkUp \/ \E k \in Closers : closer[k] # "new"))
=============================================================================
