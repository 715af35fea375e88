------------------------------ MODULE SyncLink ------------------------------
(* The registration table of SyncLink, the adapter that lets the asyncio     *)
(* client use a synchronous transport (src/thalovant/_link.py).  A handler    *)
(* is put on the transport by a thread of its own while bind() waits on the   *)
(* loop; unbind() and discard() run on the loop and may find the registration *)
(* still in flight; the wait may be cancelled while the thread runs on.       *)
(*                                                                            *)
(* One step is what happens between two points where the loop or the thread   *)
(* can be overtaken: the call into the transport, the block under _lock, and  *)
(* the resumption of bind().  The transport's own remove is taken to be a     *)
(* no-op for a target it does not hold, as in src/thalovant/transport.py.     *)
EXTENDS Naturals, Sequences

CONSTANTS Handlers,           \* who registers: subscriptions and event streams
          MaxRegistrations    \* bound on the registrations ever made

ASSUME RegistrationBound == MaxRegistrations \in Nat

VARIABLES reg,        \* every _Registration made so far, oldest first
          attached    \* those whose target the transport now calls

linkVars == <<reg, attached>>

(* "adding": the transport's on_* has not returned; "landed": it has, and the *)
(* outcome is not yet settled; "taking": settled as retired, its removal to   *)
(* come; "over" and "failed": the thread has ended.                           *)
Threads == {"adding", "landed", "taking", "over", "failed"}

Registration ==
  [owner : Handlers, thread : Threads, pending : BOOLEAN, discarded : BOOLEAN,
   listed : BOOLEAN,      \* is in _registered
   awaited : BOOLEAN]     \* bind() still waits for the thread

LinkTypeOK ==
  /\ reg \in Seq(Registration)
  /\ attached \subseteq DOMAIN reg

LinkInit == reg = << >> /\ attached = {}

-----------------------------------------------------------------------------
(* bind() up to its await: a new entry is listed and its thread started.      *)
Register(h) ==
  /\ Len(reg) < MaxRegistrations
  /\ reg' = Append(reg, [owner |-> h, thread |-> "adding", pending |-> TRUE,
                         discarded |-> FALSE, listed |-> TRUE, awaited |-> TRUE])
  /\ UNCHANGED attached

(* bind_now(): registered on the calling thread before it returns.            *)
RegisterNow(h) ==
  /\ Len(reg) < MaxRegistrations
  /\ reg' = Append(reg, [owner |-> h, thread |-> "over", pending |-> FALSE,
                         discarded |-> FALSE, listed |-> TRUE, awaited |-> FALSE])
  /\ attached' = attached \cup {Len(reg) + 1}

(* The thread of bind(): the transport takes the target, or raises; then the  *)
(* outcome is settled under the lock; a retired registration is taken back.   *)
Land(r) ==
  /\ reg[r].thread = "adding"
  /\ reg' = [reg EXCEPT ![r].thread = "landed"]
  /\ attached' = attached \cup {r}

Refuse(r) ==
  /\ reg[r].thread = "adding"
  /\ reg' = [reg EXCEPT ![r].thread = "failed"]
  /\ UNCHANGED attached

SettleForgetting(r) ==       \* mutant: nobody takes back what was retired in flight
  /\ reg[r].thread = "landed"
  /\ reg' = [reg EXCEPT ![r].pending = FALSE, ![r].thread = "over"]
  /\ UNCHANGED attached

Settle(r) ==
  /\ reg[r].thread = "landed"
  /\ reg' = [reg EXCEPT ![r].pending = FALSE,
                        ![r].thread = IF reg[r].discarded THEN "taking" ELSE "over"]
  /\ UNCHANGED attached

TakeBack(r) ==
  /\ reg[r].thread = "taking"
  /\ reg' = [reg EXCEPT ![r].thread = "over"]
  /\ attached' = attached \ {r}

(* bind() resumed: the thread has ended well, or it raised, or the waiting    *)
(* task was cancelled while the thread may run on.                            *)
Returned(r) ==
  /\ reg[r].awaited /\ reg[r].thread = "over"
  /\ reg' = [reg EXCEPT ![r].awaited = FALSE,
                        ![r].listed = reg[r].listed /\ ~reg[r].discarded]
  /\ UNCHANGED attached

Withdrawn(r) ==
  /\ reg' = [reg EXCEPT ![r].awaited = FALSE, ![r].discarded = TRUE, ![r].listed = FALSE]
  /\ attached' = IF reg[r].pending THEN attached ELSE attached \ {r}

Raised(r)    == reg[r].awaited /\ reg[r].thread = "failed" /\ Withdrawn(r)
Abandoned(r) == reg[r].awaited /\ Withdrawn(r)

(* bind() resumed for an owner that finds itself too late and discards the    *)
(* registration in the same turn.                                             *)
ReturnedLate(r) == reg[r].awaited /\ reg[r].thread = "over" /\ Withdrawn(r)

-----------------------------------------------------------------------------
Live(h) == {r \in DOMAIN reg : reg[r].owner = h /\ reg[r].listed /\ ~reg[r].discarded}

(* _take(): the newest live entry of each handler in H.                       *)
Taken(H) == UNION {{r \in Live(h) : \A q \in Live(h) : q <= r} : h \in H}

(* unbind() and discard() of the handlers in H: an entry in flight is marked  *)
(* and left to its thread, one that has landed leaves the table and the       *)
(* transport.  (The second read of entry.pending, after the lock is released, *)
(* can only repeat a removal.)                                                *)
Retire(H) ==
  /\ reg' = [r \in DOMAIN reg |->
               IF r \in Taken(H)
                 THEN [reg[r] EXCEPT !.discarded = TRUE, !.listed = reg[r].pending]
                 ELSE reg[r]]
  /\ attached' = attached \ {r \in Taken(H) : ~reg[r].pending}

(* The transport forgets every handler, on a session of its own making.       *)
Cleared == attached' = {} /\ UNCHANGED reg

ThreadNext(r) == Land(r) \/ Refuse(r) \/ Settle(r) \/ TakeBack(r)

LinkNext ==
  \/ \E h \in Handlers : Register(h) \/ RegisterNow(h)
  \/ \E r \in DOMAIN reg : \/ ThreadNext(r)
                           \/ Returned(r) \/ Raised(r) \/ Abandoned(r) \/ ReturnedLate(r)
  \/ \E H \in SUBSET Handlers : Retire(H)
  \/ Cleared

LinkSpec == LinkInit /\ [][LinkNext]_linkVars

-----------------------------------------------------------------------------
(* A registration that was retired, or that the table no longer lists, is on  *)
(* the transport only while its own thread has yet to settle it and take it   *)
(* off: nothing is left that nobody can remove (_link.py:280-291, where an    *)
(* earlier version settled on the loop and left the handler behind).          *)
NothingLeft ==
  \A r \in attached :
    (reg[r].discarded \/ ~reg[r].listed) => reg[r].thread \in {"landed", "taking"}
=============================================================================
