------------------------------ MODULE HttpsCarrier ------------------------------
(* _HTTPCarrier (src/thalovant/_hive.py 1160-1369): the admission a hub gives a *)
(* client that polls it over HTTPS, the polls of the frames it has queued, and  *)
(* the release.  Requests take turns under _request_lock; each goes to the      *)
(* replica of the cookie, and its answer may be lost before or after the hub    *)
(* acted on it.  Frame 1 is the handshake's, read from the text queue; those    *)
(* that follow come from the binary queue.                                      *)
EXTENDS Naturals, Sequences

CONSTANTS Replicas,
          MaxCarriers,    \* sessions of one transport, one after the other
          MaxQueued,      \* frames the hub queues for one admission
          MaxRestarts     \* replicas that lose what they knew

NoReplica == "none"

ASSUME CarrierShape ==
  /\ MaxCarriers \in Nat \ {0} /\ MaxQueued \in Nat \ {0} /\ MaxRestarts \in Nat
  /\ NoReplica \notin Replicas

End == 0                \* None in the carrier's queue
NoRequest == [path |-> "none"]

VARIABLES
  cookie,       \* _replica_cookie, kept by the transport across its carriers
  carriers,     \* carriers queued so far
  admitted, connected, carrierStopped, closed,   \* of the current carrier
  admission,    \* "none", "runs", "done"
  poller,       \* "none", "sleeps", "text", "binary", "ended"; in the handshake, connect()'s own poll
  receiver,       \* "none", "handshake", "reads", "ended"
  queue, got,   \* frames polled; frames the receiver has taken
  closeStep,    \* "idle", "waits", "asks", "over", "failed"
  sending,      \* a send waits for its turn or its answer
  pending,      \* the request under way: [path, at, reply, batch]
  admissions,   \* the replicas that hold an admission of this client
  outbox, queued, \* frames the admitting replica has queued; how many it has queued
  unheard,      \* replicas whose answer to /connect was lost
  restarts

httpsVars == <<cookie, carriers, admitted, connected, carrierStopped, closed, admission, poller, receiver,
                 queue, got, closeStep, sending, pending, admissions, outbox, queued, unheard, restarts>>
carrierFlags == <<admitted, connected, carrierStopped, closed>>
carried == <<queue, got>>
hubVars == <<admissions, outbox, queued, restarts>>

CarrierInit ==
  /\ cookie = NoReplica /\ carriers = 0 /\ admitted = FALSE /\ connected = FALSE
  /\ carrierStopped = TRUE /\ closed = TRUE /\ admission = "none" /\ poller = "none" /\ receiver = "none"
  /\ queue = <<>> /\ got = <<>> /\ closeStep = "over" /\ sending = FALSE /\ pending = NoRequest
  /\ admissions = {} /\ outbox = <<>> /\ queued = 0 /\ unheard = {} /\ restarts = 0

-----------------------------------------------------------------------------
(* A new carrier: open() begins its admission.                                 *)
Open ==
  /\ closed /\ carriers < MaxCarriers /\ carriers' = carriers + 1 /\ pending = NoRequest
  /\ admitted' = FALSE /\ connected' = FALSE /\ carrierStopped' = FALSE /\ closed' = FALSE
  /\ admission' = "runs" /\ poller' = "none" /\ receiver' = "handshake"
  /\ queue' = <<>> /\ got' = <<>> /\ closeStep' = "idle" /\ sending' = FALSE
  /\ UNCHANGED <<cookie, pending, hubVars, unheard>>

Wanted ==
  {p \in {"connect", "text", "binary", "send", "disconnect"}:
     CASE p = "connect" -> admission = "runs" [] p \in {"text", "binary"} -> poller = p
       [] p = "send" -> sending [] OTHER -> closeStep = "asks"}

(* A request takes the lock and goes out.                                      *)
Ask ==
  /\ pending = NoRequest
  /\ \E p \in Wanted, r \in IF cookie = NoReplica THEN Replicas ELSE {cookie}:
       pending' = [path |-> p, at |-> r, reply |-> "none", batch |-> <<>>]
  /\ UNCHANGED <<cookie, carriers, carrierFlags, admission, poller, receiver, carried, closeStep, sending, hubVars, unheard>>

(* The hub acts on the request and answers.                                    *)
Acts ==
  /\ pending # NoRequest /\ pending.reply = "none"
  /\ LET r == pending.at  known == r \in admissions
         Text == IF outbox # <<>> /\ Head(outbox) = 1 THEN <<1>> ELSE <<>>    \* in order: 1 is first
         Binary == IF Text = <<>> THEN outbox ELSE Tail(outbox)
     IN /\ admissions' = CASE pending.path = "connect" -> admissions \cup {r}
                    [] pending.path = "disconnect" -> admissions \ {r} [] OTHER -> admissions
        /\ pending' = [pending EXCEPT !.reply = IF pending.path = "connect" \/ known THEN "ok"
                                          ELSE IF pending.path = "disconnect" THEN "already" ELSE "error",
                                !.batch = CASE known /\ pending.path = "text" -> Text
                                             [] known /\ pending.path = "binary" -> Binary [] OTHER -> <<>>]
        /\ outbox' = CASE pending.path \in {"connect", "disconnect"} -> <<>>
                       [] known /\ pending.path = "text" -> Binary [] known /\ pending.path = "binary" -> Text
                       [] OTHER -> outbox
        /\ queued' = IF pending.path \in {"connect", "disconnect"} THEN 0 ELSE queued
  /\ UNCHANGED <<cookie, carriers, carrierFlags, admission, poller, receiver, carried, closeStep, sending, unheard, restarts>>

(* The hub queues a frame: the handshake's first, the rest once it is over.    *)
HubQueues ==
  /\ queued < MaxQueued /\ cookie \in admissions /\ admitted /\ (queued = 0 \/ receiver = "reads")
  /\ queued' = queued + 1 /\ outbox' = Append(outbox, queued + 1)
  /\ UNCHANGED <<cookie, carriers, carrierFlags, admission, poller, receiver, carried, closeStep, sending, pending, admissions, unheard, restarts>>

Restarts ==
  /\ restarts < MaxRestarts /\ restarts' = restarts + 1
  /\ \E r \in admissions: admissions' = admissions \ {r} /\ outbox' = IF r = cookie THEN <<>> ELSE outbox
  /\ UNCHANGED <<cookie, carriers, carrierFlags, admission, poller, receiver, carried, closeStep, sending, pending, queued, unheard>>

-----------------------------------------------------------------------------
(* What becomes of a request: its answer is read, or the caller's wait fails.  *)
Heard(good) == pending' = NoRequest /\ cookie' = IF good # "lost" THEN pending.at ELSE cookie

Outcomes == IF pending = NoRequest THEN {} ELSE IF pending.reply = "none" THEN {"lost"} ELSE {"lost", pending.reply}

(* _admit() and the rest of open().                                            *)
Admits(good) ==
  /\ pending # NoRequest /\ pending.path = "connect" /\ Heard(good) /\ admission' = "done"
  /\ admitted' = (good = "ok") /\ connected' = (good = "ok" /\ ~carrierStopped)
  /\ unheard' = IF good = "lost" /\ pending.at \in admissions THEN unheard \cup {pending.at} ELSE unheard \ {pending.at}
  /\ poller' = IF good = "ok" /\ ~carrierStopped THEN "text" ELSE poller
  /\ receiver' = IF good = "ok" THEN receiver ELSE "ended"
  /\ UNCHANGED <<carriers, carrierStopped, closed, carried, closeStep, sending, hubVars>>

\* mutant: a poll that fails is tried again.
TriesAgain == poller' = "sleeps" /\ UNCHANGED <<carrierStopped, queue, receiver>>

\* mutant: a poll that fails ends the session and tells nobody.
EndsInSilence == poller' = "ended" /\ carrierStopped' = TRUE /\ UNCHANGED <<queue, receiver>>

(* _poll_forever(): a failed poll ends the session, and the reader is told; in *)
(* the handshake the failure is connect()'s.                                   *)
PollFails ==
  IF receiver = "handshake" THEN poller' = "ended" /\ receiver' = "ended" /\ UNCHANGED <<carrierStopped, queue>>
  ELSE poller' = "ended" /\ carrierStopped' = TRUE /\ queue' = Append(queue, End) /\ UNCHANGED receiver

(* _poll(): the text frames, then those of the session.                        *)
Polled(good) ==
  /\ pending # NoRequest /\ pending.path \in {"text", "binary"} /\ Heard(good)
  /\ IF good = "ok"
     THEN /\ queue' = queue \o pending.batch
          /\ poller' = IF pending.path = "text" /\ receiver = "reads" THEN "binary" ELSE "sleeps"
          /\ UNCHANGED <<carrierStopped, receiver>>
     ELSE PollFails
  /\ UNCHANGED <<carriers, admitted, connected, closed, admission, got, closeStep, sending, hubVars, unheard>>

Sent(good) ==
  /\ pending # NoRequest /\ pending.path = "send" /\ Heard(good) /\ sending' = FALSE
  /\ UNCHANGED <<carriers, carrierFlags, admission, poller, receiver, carried, closeStep, hubVars, unheard>>

Acknowledged(good) == good \in {"ok", "already"}

(* close() after its /disconnect.                                              *)
Released(good) ==
  /\ pending # NoRequest /\ pending.path = "disconnect" /\ Heard(good)
  /\ IF Acknowledged(good)
     THEN admitted' = FALSE /\ closed' = TRUE /\ closeStep' = "over"
     ELSE closeStep' = "failed" /\ UNCHANGED <<admitted, closed>>
  /\ UNCHANGED <<carriers, connected, carrierStopped, admission, poller, receiver, carried, sending, hubVars, unheard>>

Answer == \E good \in Outcomes: Admits(good) \/ Polled(good) \/ Sent(good) \/ Released(good)

-----------------------------------------------------------------------------
PollAgain ==
  /\ poller = "sleeps" /\ (receiver = "handshake" => queue = <<>>) /\ ~carrierStopped /\ poller' = "text"
  /\ UNCHANGED <<cookie, carriers, carrierFlags, admission, receiver, carried, closeStep, sending, pending, hubVars, unheard>>

(* receive(): in the handshake its one frame; then each frame until the end.   *)
TakeFrame ==
  /\ queue # <<>> /\ receiver \in {"handshake", "reads"}
  /\ queue' = Tail(queue)
  /\ IF Head(queue) = End THEN receiver' = "ended" /\ UNCHANGED got
     ELSE receiver' = "reads" /\ got' = Append(got, Head(queue))
  /\ UNCHANGED <<cookie, carriers, carrierFlags, admission, poller, closeStep, sending, pending, hubVars, unheard>>

SendHttp ==
  /\ receiver = "reads" /\ connected /\ ~carrierStopped /\ ~sending /\ sending' = TRUE
  /\ UNCHANGED <<cookie, carriers, carrierFlags, admission, poller, receiver, carried, closeStep, pending, hubVars, unheard>>

\* mutant: a close does not wait for the admission it may have been given.
DoesNotWait == closeStep = "waits"

CloseWaited == closeStep = "waits" /\ admission # "runs"

(* close_socket(), as an abort, a disconnect() or the retry of a failed one    *)
(* calls it: the poll under way is cancelled, an admission is not.  The End a  *)
(* retry adds after another is never read, and left out.                       *)
Close ==
  /\ closeStep \in {"idle", "failed"} /\ closeStep' = "waits" /\ carrierStopped' = TRUE /\ connected' = FALSE
  /\ queue' = IF closeStep = "idle" THEN Append(queue, End) ELSE queue
  /\ poller' = IF poller = "none" THEN poller ELSE "ended"
  /\ pending' = IF pending # NoRequest /\ pending.path \in {"text", "binary"} THEN NoRequest ELSE pending
  /\ UNCHANGED <<cookie, carriers, admitted, closed, admission, receiver, got, sending, hubVars, unheard>>

CloseOn ==
  /\ CloseWaited
  /\ IF admitted THEN closeStep' = "asks" /\ UNCHANGED closed ELSE closeStep' = "over" /\ closed' = TRUE
  /\ UNCHANGED <<cookie, carriers, admitted, connected, carrierStopped, admission, poller, receiver, carried,
                 sending, pending, hubVars, unheard>>

CarrierNext == \/ Open \/ Ask \/ Acts \/ HubQueues \/ Restarts \/ Answer \/ PollAgain \/ TakeFrame
               \/ SendHttp \/ Close \/ CloseOn

CarrierSpec == CarrierInit /\ [][CarrierNext]_httpsVars

-----------------------------------------------------------------------------
(* The hub holds no admission that the client has forgotten: each is the one a *)
(* close will release, at the replica of the cookie, unless its own answer was *)
(* lost.  The admission is shielded from the caller's cancellation, awaited by *)
(* a close, and kept when the release is not acknowledged (1258-1275,          *)
(* 1345-1369).                                                                 *)
HeldIsKnown ==
  \A r \in admissions: r \in unheard \/ (admitted /\ cookie = r) \/ (pending.path = "connect" /\ pending.at = r)

(* The frames a hub queued are read in its order and none is skipped before    *)
(* the end that is told: an answer to a poll that is lost ends the session     *)
(* (1277-1310, 1311-1325).                                                     *)
NoFrameLost ==
  LET polled == got \o queue
  IN \A i \in 1..Len(polled): polled[i] = i \/ \A j \in i..Len(polled): polled[j] = End

(* A session that ended and has nothing left to be read has told its reader,  *)
(* who would otherwise wait for ever (1298-1310, 1335-1343).                   *)
EndIsHeard == carrierStopped /\ queue = <<>> => receiver \in {"none", "ended"}

=============================================================================
