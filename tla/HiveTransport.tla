---------------------------- MODULE HiveTransport ----------------------------
(***************************************************************************)
(* The connection life cycle of AsyncHiveMindTransport (thalovant/_hive.py)*)
(* over either carrier: attempts, the read loop, drops, disconnect() and   *)
(* _retire_connection(), and the carrier cleanups they share.              *)
(*                                                                         *)
(* One action is what one task does between two awaits. An attempt and the *)
(* carrier it makes share a number, given in the order of the attempts.    *)
(* _generation is only compared with the value an attempt was made with:   *)
(* `current' is the attempt whose generation still equals it, if any.      *)
(***************************************************************************)
EXTENDS Integers, FiniteSets

CONSTANTS
    MaxAttempts,     \* bound: attempts made in a behaviour
    Connectors,      \* tasks that call connect(), again and again
    Disconnectors,   \* disconnect() and retire calls, each made once
    CleanupMayFail,  \* closing a carrier can fail: it polls over HTTPS, not WSS
    KKMayFail,       \* the hub can refuse a KK first message
    SameTurn         \* a disconnect may come in the turn that made an attempt

ASSUME TransportAssumption ==
    /\ MaxAttempts \in Nat
    /\ {CleanupMayFail, KKMayFail, SameTurn} \subseteq BOOLEAN

Attempts == 1..MaxAttempts
None == 0
Maybe == Attempts \cup {None}

VARIABLES
    made,           \* how many attempts were made
    current,        \* the attempt whose generation is _generation
    carrier,        \* _carrier
    connecting,     \* _connecting
    closing,        \* _closing
    transportConnected,
    stopped,        \* the stopped event
    failedCleanup,  \* the carrier of _failed_cleanup
    kkFailed,       \* protocol.kk_failed
    attempt,        \* where each attempt task is
    old,            \* the carrier an attempt replaces
    result,         \* how an attempt ended, or will once it has cleaned up
    cancelled,      \* attempts whose task was cancelled and has not noticed
    readers,        \* carriers whose read loop has not ended
    ending,         \* of these, the ones that gave up the link and close their socket
    reader,         \* _reader: the read loop disconnect() ends
    broken,         \* carriers whose connection has ended under them
    cleanup,        \* the cleanup task of each carrier
    held,           \* carriers the hub still holds: a socket, an admission
    conn,           \* where each connect() call is, and its attempt
    overtaken,      \* connect() calls made before the last disconnect (auxiliary)
    disc            \* where each disconnect call is, and what it closes

linkVars    == <<current, carrier, connecting, transportConnected, stopped>>
attemptVars == <<made, attempt, old, result, cancelled>>
carrierVars == <<failedCleanup, cleanup, held, broken>>
loopVars == <<readers, ending, reader>>
vars == <<linkVars, closing, kkFailed, attemptVars, carrierVars, loopVars, conn, overtaken, disc>>

AttemptStates ==
    {"none", "starting", "closingOld", "opening", "handshaking", "aborting", "up", "over"}

TypeOK ==
    /\ made \in 0..MaxAttempts
    /\ {current, carrier, failedCleanup} \subseteq Maybe
    /\ {connecting, closing, transportConnected, stopped, kkFailed} \subseteq BOOLEAN
    /\ attempt \in [Attempts -> AttemptStates]
    /\ old \in [Attempts -> Maybe]
    /\ result \in [Attempts -> {"none", "ok", "refused", "failed"}]
    /\ UNION {cancelled, readers, broken, held} \subseteq Attempts /\ ending \subseteq readers
    /\ cleanup \in [Attempts -> {"none", "running", "ok", "failed"}]
    /\ conn \in [Connectors -> [at : {"idle", "first", "second"}, of : Maybe]]
    /\ disc \in [Disconnectors ->
                    [at : {"new", "reading", "closing", "over"}, of : Maybe, reader : Maybe,
                     retry : BOOLEAN]]
    /\ reader \in Maybe /\ overtaken \subseteq Connectors

Init ==
    /\ made = 0 /\ current = None /\ carrier = None /\ failedCleanup = None
    /\ connecting = FALSE /\ closing = FALSE /\ transportConnected = FALSE
    /\ stopped = TRUE /\ kkFailed = FALSE
    /\ attempt = [a \in Attempts |-> "none"]
    /\ old = [a \in Attempts |-> None]
    /\ result = [a \in Attempts |-> "none"]
    /\ cleanup = [a \in Attempts |-> "none"]
    /\ cancelled = {} /\ readers = {} /\ ending = {} /\ broken = {} /\ held = {}
    /\ conn = [p \in Connectors |-> [at |-> "idle", of |-> None]]
    /\ disc = [d \in Disconnectors |-> [at |-> "new", of |-> None, reader |-> None,
                                    retry |-> FALSE]]
    /\ reader = None /\ overtaken = {}

\* is_connected(): the flag alone is not enough once the carrier has broken.
IsConnected == transportConnected /\ carrier \notin broken

\* _check(): the attempt was neither overtaken nor told to stop.
Valid(a) == a = current /\ connecting

\* A new attempt's task starts, and a read loop that was cancelled ends, one or
\* two turns of the loop later. Calls are made outside those turns; SameTurn
\* admits them in the turn that made an attempt.
Settled ==
    /\ SameTurn \/ \A a \in Attempts : attempt[a] # "starting"
    /\ \A d \in Disconnectors : disc[d].at # "reading"

-----------------------------------------------------------------------------
(* The HTTP session, one for all carriers of a transport that was not given *)
(* one: _http_session() makes it, and whoever closes it makes way for a new *)
(* one. A carrier opened on an earlier session has lost it by then.         *)

OnSession == {c \in Attempts : attempt[c] \in {"opening", "handshaking", "up"}}

\* _close_owned_session(): it ends every WebSocket on it; over HTTPS it fails
\* the requests under way, and the next one makes a session of its own.
SessionCloses ==
    \E hit \in SUBSET OnSession :
        /\ CleanupMayFail \/ hit = OnSession
        /\ broken' = broken \cup hit

\* release_session(): unless a connection uses it.
ReleaseSession ==
    \/ (transportConnected' \/ connecting' \/ closing') /\ UNCHANGED broken
    \/ ~(transportConnected' \/ connecting' \/ closing') /\ SessionCloses

-----------------------------------------------------------------------------
(* connect().                                                              *)

\* Why connect() leaves at once: there is a link, or there may not be one.
Refused == IsConnected \/ connecting \/ closing \/ failedCleanup # None

\* mutant: a broken link is taken over without saying so
TakeOverQuietly(p, stage) ==
    /\ made < MaxAttempts
    /\ made' = made + 1
    /\ current' = made'
    /\ attempt' = [attempt EXCEPT ![made'] = "starting"]
    /\ old' = [old EXCEPT ![made'] = carrier]
    /\ carrier' = None
    /\ connecting' = TRUE
    /\ conn' = [conn EXCEPT ![p] = [at |-> stage, of |-> made']]
    /\ UNCHANGED <<transportConnected, stopped, result, cancelled>>

\* A new attempt takes over what is left of the last link.
TakeOver(p, stage) ==
    /\ made < MaxAttempts
    /\ made' = made + 1
    /\ current' = made'
    /\ attempt' = [attempt EXCEPT ![made'] = "starting"]
    /\ old' = [old EXCEPT ![made'] = carrier]
    /\ carrier' = None
    /\ connecting' = TRUE
    /\ transportConnected' = FALSE
    /\ conn' = [conn EXCEPT ![p] = [at |-> stage, of |-> made']]
    /\ UNCHANGED <<stopped, result, cancelled>>

\* _connect_once up to the await of its attempt.
ConnectOnce(p, stage) ==
    \/ /\ Refused
       /\ conn' = [conn EXCEPT ![p] = [at |-> "idle", of |-> None]]
       /\ UNCHANGED <<linkVars, attemptVars>>
    \/ ~Refused /\ TakeOver(p, stage)

Connect(p) ==
    /\ conn[p].at = "idle"
    /\ ConnectOnce(p, "first")
    /\ overtaken' = overtaken \ {p}
    /\ UNCHANGED <<closing, kkFailed, carrierVars, loopVars, disc>>

\* The attempt is over. A refused KK attempt is followed at once by XX, unless
\* the bound on attempts is reached.
ConnectResumes(p) ==
    /\ conn[p].at # "idle"
    /\ LET a == conn[p].of
           tryXX == /\ conn[p].at = "first" /\ result[a] = "refused" /\ kkFailed /\ ~closing
                    /\ made < MaxAttempts
       IN /\ attempt[a] \in {"up", "over"}
          /\ \/ tryXX /\ ConnectOnce(p, "second")
             \/ /\ ~tryXX
                /\ conn' = [conn EXCEPT ![p] = [at |-> "idle", of |-> None]]
                /\ UNCHANGED <<linkVars, attemptVars>>
    /\ UNCHANGED <<overtaken, closing, kkFailed, carrierVars, loopVars, disc>>

-----------------------------------------------------------------------------
(* _attempt: the task of one attempt.                                      *)

\* _close_carrier_once up to its await: one cleanup task for each carrier,
\* shared by whoever wants it closed; a failed one is kept unless retried.
CloseCarrier(c, retry) ==
    cleanup' = [cleanup EXCEPT ![c] =
        IF @ = "none" \/ (@ = "failed" /\ retry) THEN "running" ELSE @]

\* What it does to the link, if the attempt is still the current one.
LoseLinkAnyway(a) ==                          \* mutant: the generation not compared
    /\ carrier' = None /\ connecting' = FALSE
    /\ transportConnected' = FALSE /\ stopped' = TRUE
LoseLink(a) ==
    \/ /\ a = current
       /\ carrier' = None /\ connecting' = FALSE
       /\ transportConnected' = FALSE /\ stopped' = TRUE
    \/ a # current /\ UNCHANGED <<carrier, connecting, transportConnected, stopped>>

\* mutant: an attempt that failed leaves its carrier open
AbortAndLeave(a, hasCarrier, why) ==
    /\ LoseLink(a)
    /\ attempt' = [attempt EXCEPT ![a] = "over"]
    /\ result' = [result EXCEPT ![a] = why]
    /\ cancelled' = cancelled \ {a}
    /\ UNCHANGED <<cleanup, broken, current, made, old>>

\* The end of _abort_connection.
ReleaseIfCurrent(a) ==
    \/ a = current /\ ReleaseSession
    \/ a # current /\ UNCHANGED broken

\* _abort_connection up to the await of the carrier's cleanup, if it has one.
Abort(a, hasCarrier, why) ==
    /\ LoseLink(a)
    /\ attempt' = [attempt EXCEPT ![a] = IF hasCarrier THEN "aborting" ELSE "over"]
    /\ result' = [result EXCEPT ![a] = why]
    /\ cancelled' = cancelled \ {a}
    /\ \/ hasCarrier /\ CloseCarrier(a, FALSE) /\ UNCHANGED broken
       \/ ~hasCarrier /\ ReleaseIfCurrent(a) /\ UNCHANGED cleanup
    /\ UNCHANGED <<current, made, old>>

\* The new carrier takes the place of the old one and starts to open.
OpenCarrier(a) ==
    /\ carrier' = a
    /\ kkFailed' = FALSE
    /\ attempt' = [attempt EXCEPT ![a] = "opening"]
    /\ UNCHANGED <<current, connecting, transportConnected, stopped, made, old, result,
                   cancelled, cleanup, broken>>

\* A task cancelled before its first turn never runs: nothing is aborted and
\* the carrier it was to close is forgotten.
AttemptStarts(a) ==
    /\ attempt[a] = "starting"
    /\ SameTurn \/ \A d \in Disconnectors : disc[d].at # "reading"
    /\ \/ /\ a \in cancelled
          /\ attempt' = [attempt EXCEPT ![a] = "over"]
          /\ result' = [result EXCEPT ![a] = "failed"]
          /\ cancelled' = cancelled \ {a}
          /\ UNCHANGED <<linkVars, made, old, closing, kkFailed, cleanup, broken>>
       \/ /\ a \notin cancelled /\ old[a] # None
          /\ closing' = TRUE
          /\ CloseCarrier(old[a], FALSE)
          /\ attempt' = [attempt EXCEPT ![a] = "closingOld"]
          /\ UNCHANGED <<linkVars, made, old, result, cancelled, kkFailed, broken>>
       \/ /\ a \notin cancelled /\ old[a] = None
          /\ UNCHANGED closing
          /\ \/ Valid(a) /\ OpenCarrier(a)
             \/ ~Valid(a) /\ Abort(a, FALSE, "failed") /\ UNCHANGED kkFailed
    /\ UNCHANGED <<failedCleanup, held, loopVars, conn, overtaken, disc>>

\* The old carrier is closed, or the attempt stops waiting for that.
OldCloseEnds(a) ==
    /\ attempt[a] = "closingOld"
    /\ a \in cancelled \/ cleanup[old[a]] # "running"
    /\ \/ /\ a \notin cancelled /\ cleanup[old[a]] = "ok" /\ Valid(a)
          /\ OpenCarrier(a)
       \/ /\ a \in cancelled \/ cleanup[old[a]] # "ok" \/ ~Valid(a)
          /\ Abort(a, FALSE, "failed") /\ UNCHANGED kkFailed
    /\ UNCHANGED <<failedCleanup, held, loopVars, conn, overtaken, disc>>

\* mutant: the flag is cleared, but not by a finally clause
OldClosedOrNot(a) == closing' = (closing /\ a \in cancelled) /\ OldCloseEnds(a)
OldClosed(a) == closing' = FALSE /\ OldCloseEnds(a)

\* carrier.open() returned or raised. An admission asked for is shielded: the
\* hub may hold it although the attempt was cancelled or timed out.
Opened(a) ==
    /\ attempt[a] = "opening"
    /\ \/ /\ a \notin cancelled /\ Valid(a) /\ a \notin broken
          /\ held' = held \cup {a}
          /\ attempt' = [attempt EXCEPT ![a] = "handshaking"]
          /\ UNCHANGED <<linkVars, made, old, result, cancelled, cleanup, broken>>
       \/ /\ held' \in {held, held \cup {a}}
          /\ Abort(a, TRUE, "failed")
    /\ UNCHANGED <<closing, kkFailed, failedCleanup, loopVars, conn, overtaken, disc>>

\* mutant: an attempt that was told to stop does not notice
HandshakenIfCurrent(a) ==
    /\ attempt[a] = "handshaking" /\ a \notin cancelled /\ Valid(a)
    /\ Abort(a, TRUE, "failed")
    /\ UNCHANGED <<kkFailed, loopVars, closing, failedCleanup, held, conn, overtaken, disc>>

\* The handshake ends the connect one way or another. Every await of it is
\* followed by _check, so an overtaken attempt never gets to be ready.
Handshaken(a) ==
    /\ attempt[a] = "handshaking"
    /\ \/ /\ a \notin cancelled /\ Valid(a) /\ a \notin broken
          /\ connecting' = FALSE /\ transportConnected' = TRUE /\ stopped' = FALSE
          /\ readers' = readers \cup {a} /\ reader' = a
          /\ attempt' = [attempt EXCEPT ![a] = "up"]
          /\ result' = [result EXCEPT ![a] = "ok"]
          /\ UNCHANGED <<current, carrier, kkFailed, made, old, cancelled, cleanup, broken>>
       \/ /\ Abort(a, TRUE, "failed") /\ UNCHANGED <<kkFailed, readers, reader>>
       \/ /\ a \notin cancelled /\ Valid(a)
          /\ Abort(a, TRUE, "refused")
          /\ kkFailed' \in {kkFailed, kkFailed \/ KKMayFail}
          /\ UNCHANGED <<readers, reader>>
    /\ UNCHANGED <<closing, ending, failedCleanup, held, conn, overtaken, disc>>

\* The rest of _abort_connection. It suppresses everything, the cancellation
\* of its own task included, and then the attempt ends as it was going to.
Aborted(a) ==
    /\ attempt[a] = "aborting"
    /\ a \in cancelled \/ cleanup[a] # "running"
    /\ attempt' = [attempt EXCEPT ![a] = "over"]
    /\ cancelled' = cancelled \ {a}
    /\ UNCHANGED <<linkVars, closing, kkFailed, made, old, result, failedCleanup, cleanup, held,
                   loopVars, conn, overtaken, disc>>
    /\ ReleaseIfCurrent(a)

-----------------------------------------------------------------------------
(* The read loop, cleanups and the network.                                *)

\* The hub or the network ends a carrier's connection. The hub forgets a
\* socket with it; an admission it keeps until it is told.
HubDrops(a) ==
    /\ attempt[a] \in {"handshaking", "up"} /\ a \notin broken
    /\ broken' = broken \cup {a}
    /\ held' \in {held, held \ {a}}
    /\ UNCHANGED <<linkVars, closing, kkFailed, attemptVars, failedCleanup, cleanup,
                   loopVars, conn, overtaken, disc>>

\* _read stops: its carrier broke, it was cancelled, or a newer generation
\* took over. Only the live connection's loop reports that it is over, and goes
\* on to close its socket; any other one is done.
GivesUp(a) ==
    /\ a \in readers \ ending
    /\ \/ /\ a = current /\ transportConnected
          /\ transportConnected' = FALSE /\ stopped' = TRUE
          /\ ending' = ending \cup {a} /\ UNCHANGED readers
       \/ /\ ~(a = current /\ transportConnected)
          /\ readers' = readers \ {a} /\ UNCHANGED <<transportConnected, stopped, ending>>
    /\ UNCHANGED <<current, carrier, connecting, closing, kkFailed, attemptVars,
                   carrierVars, reader, conn, overtaken, disc>>

\* mutant: a read loop that is cancelled goes on until its carrier breaks
ReaderEndsWithCarrier(a) == a \in broken /\ GivesUp(a)
\* mutant: and nobody who waits is told
ReaderEndsUntold(a) ==
    /\ a \in readers \ ending /\ (a \in broken \/ a # current)
    /\ transportConnected' = (transportConnected /\ a # current)
    /\ readers' = readers \ {a}
    /\ UNCHANGED <<current, carrier, connecting, stopped, closing, kkFailed, attemptVars,
                   carrierVars, ending, reader, conn, overtaken, disc>>
ReaderEnds(a) == (a \in broken \/ a # current) /\ GivesUp(a)

\* Its socket is closed, and then the HTTP session is, whoever uses that by now.
\* A disconnect that cancels it meanwhile may spare the session.
ReaderDone(a) ==
    /\ a \in ending
    /\ readers' = readers \ {a} /\ ending' = ending \ {a}
    /\ \/ SessionCloses
       \/ (\E d \in Disconnectors : disc[d].at = "reading" /\ disc[d].reader = a) /\ UNCHANGED broken
    /\ UNCHANGED <<linkVars, closing, kkFailed, attemptVars, failedCleanup, cleanup, held,
                   reader, conn, overtaken, disc>>

\* A send on the live carrier failed (_fail_live): the link is declared dead
\* and its socket closed, which ends the read loop.
SendFails ==
    /\ transportConnected /\ carrier # None
    /\ transportConnected' = FALSE /\ stopped' = TRUE
    /\ broken' = broken \cup {carrier}
    /\ UNCHANGED <<current, carrier, connecting, closing, kkFailed, attemptVars,
                   failedCleanup, cleanup, held, loopVars, conn, overtaken, disc>>

\* _run_cleanup: the carrier is closed and the hub holds nothing of it. An
\* attempt that was opening has noticed its cancellation by then.
CleanedUp(c) ==
    /\ cleanup[c] = "running" /\ attempt[c] # "opening"
    /\ cleanup' = [cleanup EXCEPT ![c] = "ok"]
    /\ held' = held \ {c}
    /\ broken' = broken \cup {c}
    /\ failedCleanup' = IF failedCleanup = c THEN None ELSE failedCleanup
    /\ UNCHANGED <<linkVars, closing, kkFailed, attemptVars, loopVars, conn, overtaken, disc>>

\* It failed: the carrier is kept for disconnect() to retry.
CleanupFails(c) ==
    /\ CleanupMayFail /\ cleanup[c] = "running" /\ attempt[c] # "opening"
    /\ cleanup' = [cleanup EXCEPT ![c] = "failed"]
    /\ failedCleanup' = c
    /\ transportConnected' = FALSE
    /\ broken' = broken \cup {c}
    /\ UNCHANGED <<current, carrier, connecting, stopped, closing, kkFailed, attemptVars,
                   held, loopVars, conn, overtaken, disc>>

-----------------------------------------------------------------------------
(* disconnect() and _retire_connection().                                  *)

\* Attempts whose task has not ended: _stop_attempt cancels the latest.
Running == {a \in Attempts : attempt[a] \notin {"none", "up", "over"}}

StopAttempt == cancelled' = cancelled \cup ({made} \cap Running)

\* Carriers whose cleanup is still to be waited for; a failed one is raised.
ToAwait(retry) ==
    {c \in Attempts : cleanup[c] \in {"none", "running"} \cup (IF retry THEN {"failed"} ELSE {})}

\* Closing the target, once the read loop has ended: wait for its cleanup, or
\* be over when there is nothing to wait for.
CloseTarget(d, target, retry) ==
    \/ /\ target \in ToAwait(retry)
       /\ closing' = TRUE
       /\ CloseCarrier(target, retry)
       /\ disc' = [disc EXCEPT ![d] = [at |-> "closing", of |-> target, reader |-> None,
                                       retry |-> retry]]
       /\ UNCHANGED <<stopped, broken>>
    \/ /\ target \notin ToAwait(retry)
       /\ closing' = FALSE /\ stopped' = TRUE
       /\ disc' = [disc EXCEPT ![d].at = "over"]
       /\ ReleaseSession
       /\ UNCHANGED cleanup

\* A cleanup that somebody runs already is left to them, but the attempt that
\* waits on it is invalidated.
LeaveCleanupAlone(d) ==                       \* mutant: and the attempt goes on
    /\ closing
    /\ disc' = [disc EXCEPT ![d].at = "over"]
    /\ UNCHANGED <<cancelled, linkVars, closing, reader, cleanup, broken>>
LeaveCleanup(d) ==
    /\ closing
    /\ StopAttempt
    /\ current' = None
    /\ connecting' = FALSE
    /\ disc' = [disc EXCEPT ![d].at = "over"]
    /\ UNCHANGED <<carrier, transportConnected, stopped, closing, reader, cleanup, broken>>

\* Otherwise the link is taken down here, up to the first await: the end of
\* the read loop, or the cleanup of what is left.
TakeDown(d, retry) ==
    /\ ~closing
    /\ StopAttempt
    /\ current' = None
    /\ connecting' = FALSE
    /\ carrier' = None
    /\ transportConnected' = FALSE
    /\ reader' = None
    /\ LET target == IF failedCleanup # None THEN failedCleanup ELSE carrier
       IN \/ /\ reader \in readers
             /\ closing' = (target # None)
             /\ disc' = [disc EXCEPT ![d] = [at |-> "reading", of |-> target,
                                             reader |-> reader, retry |-> retry]]
             /\ UNCHANGED <<stopped, cleanup, broken>>
          \/ reader \notin readers /\ CloseTarget(d, target, retry)

Disconnect(d, retry) ==
    /\ disc[d].at = "new"
    /\ Settled
    /\ overtaken' = {p \in Connectors : conn[p].at # "idle"}
    /\ LeaveCleanup(d) \/ TakeDown(d, retry)
    /\ UNCHANGED <<kkFailed, made, attempt, old, result, failedCleanup, held,
                   readers, ending, conn>>

\* The read loop it cancelled has ended.
ReaderAwaited(d) ==
    /\ disc[d].at = "reading" /\ disc[d].reader \notin readers
    /\ UNCHANGED <<current, carrier, connecting, transportConnected, kkFailed, attemptVars,
                   failedCleanup, held, loopVars, conn, overtaken>>
    /\ CloseTarget(d, disc[d].of, disc[d].retry)

\* The cleanup has ended, one way or the other.
Disconnected(d) ==
    /\ disc[d].at = "closing" /\ cleanup[disc[d].of] # "running"
    /\ closing' = FALSE /\ stopped' = TRUE
    /\ disc' = [disc EXCEPT ![d].at = "over"]
    /\ UNCHANGED <<current, carrier, connecting, transportConnected, kkFailed, attemptVars,
                   failedCleanup, cleanup, held, loopVars, conn, overtaken>>
    /\ ReleaseSession

-----------------------------------------------------------------------------
ConnectStep(p) == ConnectResumes(p)
AttemptStep(a) ==
    AttemptStarts(a) \/ OldClosed(a) \/ Opened(a) \/ Handshaken(a) \/ Aborted(a)
CarrierStep(a) == ReaderEnds(a) \/ ReaderDone(a) \/ CleanedUp(a) \/ CleanupFails(a)
DisconnectStep(d) == ReaderAwaited(d) \/ Disconnected(d)

Next ==
    \/ \E p \in Connectors : Connect(p) \/ ConnectStep(p)
    \/ \E a \in Attempts : AttemptStep(a) \/ CarrierStep(a) \/ HubDrops(a)
    \/ \E d \in Disconnectors :
          (\E retry \in BOOLEAN : Disconnect(d, retry)) \/ DisconnectStep(d)
    \/ SendFails

Spec == Init /\ [][Next]_vars

(* Every await of an attempt, a read loop or a cleanup ends: they wait on   *)
(* requests with timeouts, on a cancellation already asked for, or on each  *)
(* other. Nobody has to connect, and no attempt has to succeed.             *)
FairSpec ==
    /\ Spec
    /\ \A p \in Connectors : WF_vars(ConnectStep(p))
    /\ \A a \in Attempts : WF_vars(AttemptStep(a)) /\ WF_vars(CarrierStep(a))
    /\ \A d \in Disconnectors : WF_vars(DisconnectStep(d))

-----------------------------------------------------------------------------
(* Properties.                                                             *)

\* A transport that says it is connected is: the attempt that made the link
\* is the current one, its carrier is the live one, its read loop runs, and no
\* other attempt is under way (_transport_connected, _generation, _carrier).
LiveIsCurrent ==
    transportConnected =>
        /\ current # None /\ carrier = current /\ attempt[current] = "up"
        /\ current \in readers \ ending
        /\ ~connecting /\ ~stopped

\* "Set whenever the live connection ends, so a waiter need not poll": the
\* redial supervisor waits on nothing else. A disconnect sets it as it ends.
Disconnecting == \E d \in Disconnectors : disc[d].at \in {"reading", "closing"}
StoppedTells ==
    (~transportConnected /\ ~connecting /\ ~Disconnecting /\ Running = {}) => stopped

\* Nothing the hub holds for this client is forgotten: a socket or admission
\* is the live one, is still being opened or closed, or is kept for a retry.
Accounted(c) ==
    \/ c = carrier \/ c = failedCleanup \/ cleanup[c] = "running"
    \/ attempt[c] \in {"opening", "handshaking"}
    \/ \E a \in Attempts : old[a] = c /\ attempt[a] \in {"starting", "closingOld"}
    \/ \E d \in Disconnectors : disc[d].of = c /\ disc[d].at \in {"reading", "closing"}
NothingForgotten == \A c \in held : Accounted(c)

\* disconnect() stops an attempt "wherever it is": no connect() call made
\* before it brings the link up after it.
DisconnectIsFinal ==
    [][(~transportConnected /\ transportConnected') =>
          \A p \in overtaken : conn[p].of # current']_vars

\* A link is given up for one of three reasons, and nobody is left waiting: its
\* own carrier has ended and the stopped event is set; a connect takes over a
\* carrier that had ended; or a disconnect found it, which sets the event, now or
\* when it ends. No overtaken attempt, read loop or cleanup takes it down.
EndsForAReason ==
    [][(transportConnected /\ ~transportConnected') =>
          \/ current' = current /\ carrier \in broken' /\ stopped'
          \/ connecting' /\ current' # current /\ carrier \in broken
          \/ current' = None /\ (stopped' \/ Disconnecting')]_vars

\* "Close the HTTP session the SDK opened, if no connection is using it."
SessionLastsALink ==
    [][\A a \in Attempts : ReaderDone(a) /\ SessionCloses =>
          ~(transportConnected \/ connecting \/ closing)]_vars

\* connect() always returns, and so does disconnect().
ConnectsEnd == \A p \in Connectors : []<>(conn[p].at = "idle")
DisconnectsEnd == \A d \in Disconnectors : []<>(disc[d].at \in {"new", "over"})

\* Neither flag that makes connect() refuse is left set for good.
FlagsClear == []<>~connecting /\ []<>~closing

\* However the two kinds of call overlap, both always end, and what makes
\* connect() refuse is cleared (_hive.py 540-600, 822-870).
CallsEnd == ConnectsEnd /\ DisconnectsEnd /\ FlagsClear
=============================================================================
