----------------------------- MODULE EventStream -----------------------------
(* listen() and wait_for_event() of the asyncio client (src/thalovant/         *)
(* client.py 1205-1419): one subscription with a bounded buffer, a setup task  *)
(* that connects, registers and then watches the link, an expiry timer, and a  *)
(* consumer that may be paused at a yield while the others go on.              *)
(*                                                                             *)
(* Events that match are numbered as they reach the handler.  late says that   *)
(* the deadline has passed, which each party notices for itself; it is also    *)
(* the deadline of the setup.  A stream without a timeout has only the latter. *)
EXTENDS Naturals, Sequences, SequencesExt

CONSTANTS MaxHeard,      \* bound on the matching events the hub sends
          MaxBuffered,   \* max_buffered_events
          Wanted,        \* the max_events considered; MaxHeard + 1 for no limit
          Timeouts       \* whether a timeout was given: a subset of BOOLEAN

ASSUME StreamShape ==
  /\ MaxHeard \in Nat /\ MaxBuffered \in Nat \ {0}
  /\ Wanted \subseteq 1..(MaxHeard + 1) /\ Timeouts \subseteq BOOLEAN

VARIABLES
  wanted,      \* max_events
  timed,       \* whether there is a timeout
  setup,       \* "connecting", "binding", "watching", "done"
  ready,       \* setup_done
  active,      \* active
  cancelled,   \* cancellation
  listening,   \* the handler is registered, or its registration is under way
  subscribed,  \* history: a registration was ever completed in time
  linkLost,    \* the link has stopped
  late,        \* the deadline has passed
  heard,       \* matching events that reached the handler
  buffer,      \* events
  accepted,    \* accepted
  yielded,     \* what the consumer got
  error,       \* errors[0]
  consumer     \* "running", "paused", or how it ended

setupVars == <<setup, ready, listening, subscribed>>
bufferVars == <<heard, buffer, accepted>>
streamVars == <<wanted, timed, setupVars, active, cancelled, linkLost, late, bufferVars,
                yielded, error, consumer>>

Ended == {"clean", "raised", "expired", "closed"}

StreamTypeOK ==
  /\ wanted \in Wanted /\ timed \in Timeouts
  /\ setup \in {"connecting", "binding", "watching", "done"}
  /\ {ready, active, cancelled, listening, subscribed, linkLost, late} \subseteq BOOLEAN
  /\ heard \in 0..MaxHeard /\ accepted \in 0..MaxHeard
  /\ buffer \in Seq(1..MaxHeard) /\ Len(buffer) <= MaxBuffered
  /\ yielded \in Seq(1..MaxHeard)
  /\ error \in {"none", "setup", "lost", "predicate", "overflow"}
  /\ consumer \in {"running", "paused"} \cup Ended

StreamInit ==
  /\ wanted \in Wanted /\ timed \in Timeouts
  /\ setup = "connecting" /\ ready = FALSE
  /\ active = TRUE /\ cancelled = FALSE /\ listening = FALSE /\ subscribed = FALSE
  /\ linkLost = FALSE /\ late = FALSE
  /\ heard = 0 /\ buffer = << >> /\ accepted = 0
  /\ yielded = << >> /\ error = "none" /\ consumer = "running"

\* retire(): also takes back a registration still under way.
Retire == active' = FALSE /\ listening' = FALSE
Raise(e) == error' = IF error = "none" THEN e ELSE error
Expired == timed /\ late
SetupLate == late

-----------------------------------------------------------------------------
(* The setup task.                                                             *)
Connected ==
  /\ setup = "connecting"
  /\ IF active /\ ~cancelled
     THEN setup' = "binding" /\ listening' = TRUE /\ UNCHANGED ready
     ELSE setup' = "watching" /\ ready' = TRUE /\ UNCHANGED listening
  /\ UNCHANGED <<wanted, timed, subscribed, active, cancelled, linkLost, late, bufferVars,
                 yielded, error, consumer>>

\* mutant: a registration that lands late is kept.
RegisteredLate ==
  /\ setup = "binding"
  /\ setup' = "watching" /\ ready' = TRUE
  /\ listening' = TRUE /\ subscribed' = TRUE
  /\ UNCHANGED <<wanted, timed, active, cancelled, linkLost, late, bufferVars, yielded, error,
                 consumer>>

(* register() after its await: a registration that comes too late is taken     *)
(* back.                                                                       *)
Registered ==
  /\ setup = "binding"
  /\ setup' = "watching" /\ ready' = TRUE
  /\ IF active /\ ~cancelled /\ ~SetupLate
     THEN subscribed' = TRUE /\ UNCHANGED listening
     ELSE listening' = FALSE /\ UNCHANGED subscribed
  /\ UNCHANGED <<wanted, timed, active, cancelled, linkLost, late, bufferVars, yielded, error,
                 consumer>>

(* The connection or the registration fails.  The error is the consumer's even *)
(* when the expiry has already retired the stream.                             *)
SetupFails ==
  /\ setup \in {"connecting", "binding"}
  /\ setup' = "done" /\ ready' = TRUE /\ listening' = FALSE
  /\ IF ~cancelled THEN Raise("setup") ELSE UNCHANGED error
  /\ UNCHANGED <<wanted, timed, subscribed, active, cancelled, linkLost, late, bufferVars,
                 yielded, consumer>>

WatchEnds ==
  /\ setup = "watching"
  /\ cancelled \/ ~active \/ Expired
  /\ setup' = "done"
  /\ IF Expired /\ active THEN Retire ELSE UNCHANGED <<active, listening>>
  /\ UNCHANGED <<wanted, timed, ready, subscribed, cancelled, linkLost, late, bufferVars,
                 yielded, error, consumer>>

(* The watching task finds the transport stopped.                              *)
WatchFails ==
  /\ setup = "watching" /\ linkLost
  /\ setup' = "done"
  /\ IF ~cancelled /\ active THEN Raise("lost") ELSE UNCHANGED error
  /\ UNCHANGED <<wanted, timed, ready, listening, subscribed, active, cancelled, linkLost, late,
                 bufferVars, yielded, consumer>>

LinkDrops ==
  /\ setup = "watching" /\ ~linkLost /\ linkLost' = TRUE
  /\ UNCHANGED <<wanted, timed, setupVars, active, cancelled, late, bufferVars, yielded, error,
                 consumer>>

-----------------------------------------------------------------------------
(* Time, and the expiry timer, which runs even while the consumer is paused.   *)
DeadlinePasses ==
  /\ ~late /\ (timed \/ ~ready) /\ late' = TRUE
  /\ UNCHANGED <<wanted, timed, setupVars, active, cancelled, linkLost, bufferVars, yielded,
                 error, consumer>>

Expiry ==
  /\ Expired /\ active /\ Retire
  /\ UNCHANGED <<wanted, timed, setup, ready, subscribed, cancelled, linkLost, late, bufferVars,
                 yielded, error, consumer>>

-----------------------------------------------------------------------------
(* The handler, called for each matching event.                                *)
Calls == listening /\ ~linkLost /\ heard < MaxHeard
Accepts == active /\ ~cancelled /\ ~Expired /\ accepted < wanted

\* mutant: a full buffer drops the event and goes on.
EventDropped ==
  /\ Calls /\ heard' = heard + 1
  /\ IF Accepts /\ Len(buffer) < MaxBuffered
     THEN /\ buffer' = Append(buffer, heard') /\ accepted' = accepted + 1
          /\ IF accepted' = wanted THEN Retire ELSE UNCHANGED <<active, listening>>
     ELSE UNCHANGED <<buffer, accepted, active, listening>>
  /\ UNCHANGED <<wanted, timed, setup, ready, subscribed, cancelled, linkLost, late, yielded,
                 error, consumer>>

Event ==
  /\ Calls /\ heard' = heard + 1
  /\ IF ~Accepts THEN UNCHANGED <<buffer, accepted, active, listening, error>>
     ELSE IF Len(buffer) >= MaxBuffered
     THEN Raise("overflow") /\ Retire /\ UNCHANGED <<buffer, accepted>>
     ELSE /\ buffer' = Append(buffer, heard') /\ accepted' = accepted + 1
          /\ IF accepted' = wanted THEN Retire ELSE UNCHANGED <<active, listening>>
          /\ UNCHANGED error
  /\ UNCHANGED <<wanted, timed, setup, ready, subscribed, cancelled, linkLost, late, yielded,
                 consumer>>

(* The caller's predicate raises.                                              *)
PredicateFails ==
  /\ Calls /\ Accepts /\ heard' = heard + 1
  /\ Raise("predicate") /\ Retire
  /\ UNCHANGED <<wanted, timed, setup, ready, subscribed, cancelled, linkLost, late, buffer,
                 accepted, yielded, consumer>>

-----------------------------------------------------------------------------
(* The consumer.  However it ends, the finally block cancels and retires.      *)
Ends(how) == consumer' = how /\ cancelled' = TRUE /\ Retire

Running == consumer = "running" /\ Len(yielded) < wanted

Raises ==
  /\ Running /\ error # "none" /\ Ends("raised")
  /\ UNCHANGED <<wanted, timed, setup, ready, subscribed, linkLost, late, bufferVars, yielded,
                 error>>

SetupExpires ==
  /\ Running /\ error = "none" /\ ~ready /\ SetupLate /\ Ends("expired")
  /\ UNCHANGED <<wanted, timed, setup, ready, subscribed, linkLost, late, bufferVars, yielded,
                 error>>

Yields ==
  /\ Running /\ error = "none" /\ (ready \/ ~SetupLate) /\ buffer # << >>
  /\ yielded' = Append(yielded, Head(buffer)) /\ buffer' = Tail(buffer)
  /\ consumer' = "paused"
  /\ UNCHANGED <<wanted, timed, setupVars, active, cancelled, linkLost, late, heard, accepted,
                 error>>

\* mutant: the deadline is looked at before the buffer.
FinishesEarly ==
  /\ consumer = "running"
  /\ \/ Len(yielded) = wanted
     \/ error = "none" /\ ready /\ (Expired \/ ~active)
  /\ Ends("clean")
  /\ UNCHANGED <<wanted, timed, setup, ready, subscribed, linkLost, late, bufferVars, yielded,
                 error>>

\* mutant: a stream its expiry has retired is waited on.
FinishesWhileActive ==
  /\ consumer = "running"
  /\ \/ Len(yielded) = wanted
     \/ error = "none" /\ buffer = << >> /\ ready /\ Expired /\ active
  /\ Ends("clean")
  /\ UNCHANGED <<wanted, timed, setup, ready, subscribed, linkLost, late, bufferVars, yielded,
                 error>>

(* The end of the stream: enough events, or nothing more to come.              *)
Finishes ==
  /\ consumer = "running"
  /\ \/ Len(yielded) = wanted
     \/ error = "none" /\ buffer = << >> /\ ready /\ (Expired \/ ~active)
  /\ Ends("clean")
  /\ UNCHANGED <<wanted, timed, setup, ready, subscribed, linkLost, late, bufferVars, yielded,
                 error>>

(* The consumer reads the clock twice in a turn: a deadline that passes        *)
(* between the two ends the stream cleanly even while the setup is under way.  *)
DeadlineBetween ==
  /\ Running /\ error = "none" /\ buffer = << >> /\ timed /\ ~late /\ late' = TRUE
  /\ Ends("clean")
  /\ UNCHANGED <<wanted, timed, setup, ready, subscribed, linkLost, bufferVars, yielded, error>>

Resumes ==
  /\ consumer = "paused" /\ consumer' = "running"
  /\ UNCHANGED <<wanted, timed, setupVars, active, cancelled, linkLost, late, bufferVars, yielded,
                 error>>

(* The caller closes the stream, or its task is cancelled.                     *)
CallerCloses ==
  /\ consumer \in {"running", "paused"} /\ Ends("closed")
  /\ UNCHANGED <<wanted, timed, setup, ready, subscribed, linkLost, late, bufferVars, yielded,
                 error>>

Setup == Connected \/ Registered \/ SetupFails \/ WatchEnds \/ WatchFails
Consumes == Raises \/ SetupExpires \/ Yields \/ Finishes

StreamNext ==
  \/ Setup \/ LinkDrops \/ DeadlinePasses \/ Expiry
  \/ Event \/ PredicateFails
  \/ Consumes \/ DeadlineBetween \/ Resumes \/ CallerCloses

(* The loop runs its tasks, the clock goes on, and a connection attempt ends:  *)
(* it has a deadline of its own.                                               *)
StreamFairness ==
  /\ WF_streamVars(Setup) /\ WF_streamVars(Consumes)
  /\ WF_streamVars(DeadlinePasses) /\ WF_streamVars(Expiry)

StreamSpec == StreamInit /\ [][StreamNext]_streamVars /\ StreamFairness

-----------------------------------------------------------------------------
(* Properties                                                                  *)

(* The consumer gets the matching events in order and without a gap, from the  *)
(* first on: a full buffer ends the stream, it never skips (1323-1331).        *)
NoGap == LET got == yielded \o buffer IN \A n \in 1..Len(got) : got[n] = n

(* A stream that ends without an error has all it wanted or reached its        *)
(* deadline, and yielded everything it had accepted: a failed setup, an        *)
(* overflow or a drop is never taken for the end (1367-1375, 1388-1413).       *)
CleanEndIsComplete ==
  consumer = "clean" =>
    /\ buffer = << >> /\ Len(yielded) = accepted
    /\ accepted = wanted \/ Expired
    /\ error = "none" \/ accepted = wanted

(* Once the stream and its setup are over nothing is registered, whichever of  *)
(* them ended last (1301-1308, 1343-1347).                                     *)
NothingStaysSubscribed == consumer \in Ended /\ setup \in {"watching", "done"} => ~listening

(* Whoever waits on a stream with a timeout gets an event or an end.           *)
TimedStreamMoves == []<>(timed => consumer # "running")

(* A stream yields what it accepted without a gap, tells a clean end only when *)
(* it yielded it all, and leaves nothing subscribed (1301-1413).               *)
StreamIsTrue == NoGap /\ CleanEndIsComplete /\ NothingStaysSubscribed
=============================================================================
