-------------------------------- MODULE Asks --------------------------------
(* ask(), query() and fire-and-forget utterances of one asyncio client over    *)
(* the built-in transport (src/thalovant/client.py 1423-2270, events.py        *)
(* 488-533): the reservation of a correlation id, the one publication, the     *)
(* collector of the hub's frames with its two windows, the refusal that names  *)
(* no request, and the retry of an ask that was not published.                 *)
(*                                                                             *)
(* A clock is not kept.  due[c] says that the collection deadline of c - the   *)
(* caller's, or the window's when that is sooner - has passed; Elapse sets it  *)
(* at any time, and whoever looks at the clock next ends the collection.       *)
EXTENDS Naturals, FiniteSets

CONSTANTS Asks,        \* calls of ask(): collect bus frames, may be retried
          Queries,     \* calls of query(): collect frames of their own query id
          Sends,       \* send_utterance(): nothing waits for them
          MaxTries,    \* reconnect_attempts + 1
          MaxCalls,    \* bound on the calls a behaviour makes
          AppCloses,   \* whether the application calls close() meanwhile
          Nobody

Collectors == Asks \cup Queries
Utterances == Collectors \cup Sends

ASSUME CallKinds ==
  /\ Asks \cap Queries = {} /\ Collectors \cap Sends = {}
  /\ Nobody \notin Utterances
  /\ MaxTries \in Nat \ {0} /\ MaxCalls \in Nat
  /\ AppCloses \in BOOLEAN

VARIABLES
  link,       \* "up" or "down"
  stage,      \* the caller: "idle", "connecting", "collecting", "ended"
  tries,      \* attempts of the ask so far
  doomed,     \* connecting collectors whose generation a close() has ended
  writer,     \* whose admitted write owns the connection, Nobody when free
  verdict,    \* "open" until terminal; then "done", or the error it holds
  spoke,      \* the collector has a fragment
  failure,    \* the failure event it holds
  window,     \* "none", "empty" or "settle"
  due,        \* its collection deadline has passed
  listening,  \* the handlers it has at the transport
  carried,    \* the handled frame of its turn was seen
  sent,       \* how often its utterance was published
  hub,        \* what the hub does with each utterance
  recent,     \* sends inside the grace window: _untracked_sends
  outcome,    \* what the caller got
  deniedBy,   \* history: the utterance whose refusal the collector took
  closedAt,   \* history: calls that were under way when close() was called
  reopened    \* history: those of them that opened a link afterwards

callVars == <<stage, tries, doomed, verdict, outcome>>
frameVars == <<spoke, failure, window, due, carried>>
historyVars == <<closedAt, reopened>>
askVars == <<link, callVars, writer, frameVars, listening, sent, hub, recent, deniedBy, historyVars>>

Frames(c) == IF c \in Asks THEN {"speech", "handled"} ELSE {"query"}

AskTypeOK ==
  /\ link \in {"up", "down"}
  /\ stage \in [Collectors -> {"idle", "connecting", "collecting", "ended"}]
  /\ tries \in [Collectors -> 0..MaxTries]
  /\ doomed \subseteq Collectors
  /\ writer \in Collectors \cup {Nobody}
  /\ verdict \in [Collectors -> {"open", "done", "lost", "late"}]
  /\ spoke \in [Collectors -> BOOLEAN]
  /\ failure \in [Collectors -> {"none", "soft", "denied", "hard"}]
  /\ window \in [Collectors -> {"none", "empty", "settle"}]
  /\ due \in [Collectors -> BOOLEAN] /\ carried \in [Collectors -> BOOLEAN]
  /\ \A c \in Collectors : listening[c] \subseteq Frames(c)
  /\ sent \in [Collectors -> Nat]
  /\ hub \in [Utterances -> {"none", "held", "admitted", "refused", "over"}]
  /\ recent \subseteq Sends
  /\ outcome \in [Collectors -> {"none", "replied", "unanswered", "denied", "failed",
                                 "silent", "lost", "late", "cancelled"}]
  /\ deniedBy \in [Collectors -> Utterances \cup {Nobody}]
  /\ closedAt \subseteq Collectors /\ reopened \subseteq Collectors

AsksInit ==
  /\ link = "down" /\ writer = Nobody /\ doomed = {} /\ recent = {}
  /\ stage = [c \in Collectors |-> "idle"]
  /\ tries = [c \in Collectors |-> 0]
  /\ verdict = [c \in Collectors |-> "open"]
  /\ spoke = [c \in Collectors |-> FALSE]
  /\ failure = [c \in Collectors |-> "none"]
  /\ window = [c \in Collectors |-> "none"]
  /\ due = [c \in Collectors |-> FALSE]
  /\ listening = [c \in Collectors |-> {}]
  /\ carried = [c \in Collectors |-> FALSE]
  /\ sent = [c \in Collectors |-> 0]
  /\ hub = [u \in Utterances |-> "none"]
  /\ outcome = [c \in Collectors |-> "none"]
  /\ deniedBy = [c \in Collectors |-> Nobody]
  /\ closedAt = {} /\ reopened = {}

-----------------------------------------------------------------------------
(* The link.  When it goes, so do the handlers of the session, whatever the    *)
(* hub still owed it, and the write under way.                                 *)
LinkGone ==
  /\ link' = "down"
  /\ listening' = [c \in Collectors |-> {}]
  /\ hub' = [u \in Utterances |-> IF hub[u] = "none" THEN "none" ELSE "over"]
  /\ writer' = Nobody

LinkKept == UNCHANGED <<link, listening, hub, writer>>

LinkDrops ==
  /\ link = "up" /\ LinkGone
  /\ UNCHANGED <<callVars, frameVars, sent, recent, deniedBy, historyVars>>

(* close() ends the generation: every call that is connecting will fail.       *)
Doom(C) == doomed' = doomed \cup {c \in C : stage[c] = "connecting"}

AppClose ==
  /\ AppCloses /\ closedAt = {}
  /\ LinkGone /\ Doom(Collectors)
  /\ closedAt' = {c \in Collectors : stage[c] \in {"connecting", "collecting"}}
  /\ UNCHANGED <<stage, tries, verdict, outcome, frameVars, sent, recent, deniedBy, reopened>>

-----------------------------------------------------------------------------
(* The collector's own verdicts.                                               *)
Open(c) == verdict[c] = "open"
Active(c) == stage[c] \in {"connecting", "collecting"}

\* finish_at_deadline(): an ask settles for what it has, a query times out.
AtDeadline(c) == IF c \in Asks THEN "done" ELSE "late"

\* fail(): an ask whose deadline has passed prefers what it has.
Failing(c) == IF c \in Asks /\ due[c] THEN "done" ELSE "lost"

Pending == Cardinality({c \in Collectors : stage[c] # "idle"} \cup {s \in Sends : hub[s] # "none"})

(* _reserve_reply_id() and the checks before the connection.                   *)
Start(c) ==
  /\ stage[c] = "idle" /\ Pending < MaxCalls
  /\ stage' = [stage EXCEPT ![c] = "connecting"]
  /\ tries' = [tries EXCEPT ![c] = 1]
  /\ LinkKept
  /\ UNCHANGED <<doomed, verdict, outcome, frameVars, sent, recent, deniedBy, historyVars>>

Elapse(c) ==
  /\ Active(c) /\ Open(c) /\ ~due[c]
  /\ due' = [due EXCEPT ![c] = TRUE]
  /\ LinkKept
  /\ UNCHANGED <<callVars, spoke, failure, window, carried, sent, recent, deniedBy, historyVars>>

\* mutant: only a window is looked at, not the caller's own deadline.
WindowOnly(c) ==
  /\ Active(c) /\ Open(c) /\ due[c] /\ window[c] # "none"
  /\ verdict' = [verdict EXCEPT ![c] = AtDeadline(c)]
  /\ LinkKept
  /\ UNCHANGED <<stage, tries, doomed, outcome, frameVars, sent, recent, deniedBy, historyVars>>

(* The caller's wait, or run()'s, finds the deadline passed.                   *)
Deadline(c) ==
  /\ Active(c) /\ Open(c) /\ due[c]
  /\ verdict' = [verdict EXCEPT ![c] = AtDeadline(c)]
  /\ LinkKept
  /\ UNCHANGED <<stage, tries, doomed, outcome, frameVars, sent, recent, deniedBy, historyVars>>

(* send(), run once the connection is owned and ready: the handlers and the    *)
(* admission of the write are one turn of the loop on the built-in transport.  *)
Publish(c) ==
  /\ stage[c] = "connecting" /\ c \notin doomed
  /\ Open(c) /\ ~due[c]
  /\ writer = Nobody
  /\ link' = "up" /\ writer' = c
  /\ stage' = [stage EXCEPT ![c] = "collecting"]
  /\ listening' = [listening EXCEPT ![c] = Frames(c)]
  /\ sent' = [sent EXCEPT ![c] = @ + 1]
  /\ hub' = [hub EXCEPT ![c] = "held"]
  /\ reopened' = IF link = "down" THEN reopened \cup ({c} \cap closedAt) ELSE reopened
  /\ UNCHANGED <<tries, doomed, verdict, outcome, frameVars, recent, deniedBy, closedAt>>

WriteDone(c) ==
  /\ writer = c /\ writer' = Nobody
  /\ UNCHANGED <<link, callVars, frameVars, listening, sent, hub, recent, deniedBy, historyVars>>

(* The write raises, or is still under way at the caller's deadline: the       *)
(* connection is retired.  The utterance may have reached the hub.             *)
WriteFails(c) ==
  /\ writer = c /\ LinkGone
  /\ verdict' = [verdict EXCEPT ![c] = IF Open(c) THEN Failing(c) ELSE @]
  /\ UNCHANGED <<stage, tries, doomed, outcome, frameVars, sent, recent, deniedBy, historyVars>>

(* run() finds that the transport has stopped.                                 *)
Lost(c) ==
  /\ stage[c] = "collecting" /\ Open(c) /\ link = "down"
  /\ verdict' = [verdict EXCEPT ![c] = Failing(c)]
  /\ LinkKept
  /\ UNCHANGED <<stage, tries, doomed, outcome, frameVars, sent, recent, deniedBy, historyVars>>

(* The connection attempt fails, by itself or because a close() ended it.      *)
AttemptFails(c) ==
  /\ stage[c] = "connecting" /\ Open(c)
  /\ c \in doomed \/ link = "down"
  /\ verdict' = [verdict EXCEPT ![c] = Failing(c)]
  /\ LinkKept
  /\ UNCHANGED <<stage, tries, doomed, outcome, frameVars, sent, recent, deniedBy, historyVars>>

-----------------------------------------------------------------------------
(* The hub, and the frames it sends on the session the utterance came by.      *)
Admitted(u) == hub' = [hub EXCEPT ![u] = "admitted"]
Answering(u) == link = "up" /\ hub[u] \in {"held", "admitted"}

(* It refuses at once, or not at all; the refusal carries no request id.       *)
HubRefuses(u) ==
  /\ link = "up" /\ hub[u] = "held"
  /\ hub' = [hub EXCEPT ![u] = "refused"]
  /\ UNCHANGED <<link, callVars, writer, frameVars, listening, sent, recent, deniedBy, historyVars>>

(* It may also have nothing more to say of an utterance.                       *)
HubIsDone(u) ==
  /\ Answering(u)
  /\ hub' = [hub EXCEPT ![u] = "over"]
  /\ UNCHANGED <<link, callVars, writer, frameVars, listening, sent, recent, deniedBy, historyVars>>

\* A frame for c reaches a collector that is still collecting.  A frame after
\* the deadline only ends it.
Heard(c) == Answering(c) /\ Admitted(c) /\ listening[c] # {} /\ Open(c)

Overdue(c) ==
  /\ Heard(c) /\ due[c]
  /\ verdict' = [verdict EXCEPT ![c] = AtDeadline(c)]
  /\ UNCHANGED <<link, writer, stage, tries, doomed, outcome, frameVars, listening, sent,
                 recent, deniedBy, historyVars>>

\* mutant: speech leaves the intent miss in place.
MissStays(c) ==
  /\ Heard(c) /\ ~due[c]
  /\ spoke' = [spoke EXCEPT ![c] = TRUE]
  /\ window' = IF c \in Asks THEN [window EXCEPT ![c] = "settle"] ELSE window
  /\ UNCHANGED <<link, writer, callVars, failure, due, carried, listening, sent, recent,
                 deniedBy, historyVars>>

(* speak: a fragment.  It withdraws a provisional intent miss, and on an ask   *)
(* the first one starts the settle window, whatever the empty window said.     *)
Speak(c) ==
  /\ Heard(c) /\ ~due[c]
  /\ spoke' = [spoke EXCEPT ![c] = TRUE]
  /\ failure' = [failure EXCEPT ![c] = "none"]
  /\ window' = IF c \in Asks THEN [window EXCEPT ![c] = "settle"] ELSE window
  /\ UNCHANGED <<link, writer, callVars, due, carried, listening, sent, recent, deniedBy, historyVars>>

\* The empty window is started once, and not after speech.
EmptyWindow(c) ==
  IF c \in Asks /\ ~spoke[c] /\ window[c] = "none"
  THEN [window EXCEPT ![c] = "empty"] ELSE window

(* complete_intent_failure, ovos.intent.unmatched: provisional.                *)
Unmatched(c) ==
  /\ Heard(c) /\ ~due[c]
  /\ failure' = IF spoke[c] THEN failure ELSE [failure EXCEPT ![c] = "soft"]
  /\ window' = EmptyWindow(c)
  /\ UNCHANGED <<link, writer, callVars, spoke, due, carried, listening, sent, recent, deniedBy,
                 historyVars>>

(* hive.query.timeout with the request's id: ends the collection.              *)
HardFailure(c) ==
  /\ Heard(c) /\ ~due[c]
  /\ failure' = [failure EXCEPT ![c] = "hard"]
  /\ verdict' = [verdict EXCEPT ![c] = "done"]
  /\ UNCHANGED <<link, writer, stage, tries, doomed, outcome, spoke, window, due, carried, listening,
                 sent, recent, deniedBy, historyVars>>

(* hive.query.complete: ends a query.                                          *)
Complete(q) ==
  /\ q \in Queries /\ Heard(q) /\ ~due[q]
  /\ verdict' = [verdict EXCEPT ![q] = "done"]
  /\ UNCHANGED <<link, writer, stage, tries, doomed, outcome, frameVars, listening, sent, recent,
                 deniedBy, historyVars>>

(* ovos.utterance.handled: its session is recorded whatever became of the      *)
(* collection; a collection still open and without speech gets a short wait.   *)
Handled(a) ==
  /\ a \in Asks /\ Answering(a) /\ Admitted(a) /\ "handled" \in listening[a]
  /\ carried' = [carried EXCEPT ![a] = TRUE]
  /\ IF ~Open(a) THEN UNCHANGED <<verdict, window>>
     ELSE IF due[a] THEN verdict' = [verdict EXCEPT ![a] = AtDeadline(a)] /\ UNCHANGED window
     ELSE window' = EmptyWindow(a) /\ UNCHANGED verdict
  /\ UNCHANGED <<link, writer, stage, tries, doomed, outcome, spoke, failure, due, listening, sent,
                 recent, deniedBy, historyVars>>

(* A refusal without a request id is an ask's own only when that ask is the    *)
(* one utterance the client has out: refusal_belongs_to_ask().                 *)
InFlight == {c \in Collectors : Active(c)}

\* mutant: fire-and-forget utterances are not counted.
SendsIgnored(a) == InFlight = {a} /\ a \in Asks

BelongsToAsk(a) == InFlight = {a} /\ a \in Asks /\ recent = {}

Denied(u) ==
  /\ link = "up" /\ hub[u] = "refused"
  /\ hub' = [hub EXCEPT ![u] = "over"]
  /\ LET takers == {a \in Asks : listening[a] # {} /\ Open(a) /\ (due[a] \/ BelongsToAsk(a))}
         told == {a \in takers : ~due[a]} IN
     /\ verdict' = [c \in Collectors |-> IF c \in takers THEN "done" ELSE verdict[c]]
     /\ failure' = [c \in Collectors |-> IF c \in told THEN "denied" ELSE failure[c]]
     /\ deniedBy' = [c \in Collectors |-> IF c \in told THEN u ELSE deniedBy[c]]
  /\ UNCHANGED <<link, writer, stage, tries, doomed, outcome, spoke, window, due, carried, listening,
                 sent, recent, historyVars>>

-----------------------------------------------------------------------------
(* What the caller gets once the collection has ended.                         *)
Result(c) ==
  IF verdict[c] \in {"lost", "late"} THEN verdict[c]
  ELSE IF spoke[c] THEN "replied"
  ELSE CASE failure[c] = "none" -> "silent"
         [] failure[c] = "soft" -> "unanswered"
         [] failure[c] = "denied" -> "denied"
         [] failure[c] = "hard" -> "failed"

\* mutant: a published ask is retried like any other.
RetriesPublished(c) == c \in Asks /\ verdict[c] = "lost" /\ tries[c] < MaxTries

(* _ask_reserved() retries an ask that lost its connection unpublished.        *)
Retries(c) == c \in Asks /\ verdict[c] = "lost" /\ sent[c] = 0 /\ tries[c] < MaxTries

\* mutant: the finally block leaves the handlers listening.
HandlersStay(c) == listening

(* The finally block: the handlers go, all but that of the handled frame of a  *)
(* reply given before it, which stays for the grace window.                    *)
HandlersAfter(c) ==
  [listening EXCEPT ![c] = IF Result(c) = "replied" /\ ~carried[c] THEN @ \cap {"handled"} ELSE {}]

\* What the collector kept for itself goes with the call.
LocalsDie(c) ==
  /\ verdict' = [verdict EXCEPT ![c] = "done"]
  /\ failure' = [failure EXCEPT ![c] = "none"]
  /\ window' = [window EXCEPT ![c] = "none"]
  /\ due' = [due EXCEPT ![c] = FALSE]

(* The caller resumes.  An unsuccessful collection cancels a write of its own  *)
(* still under way, which retires the connection.                              *)
Resume(c) ==
  /\ Active(c) /\ ~Open(c) /\ ~Retries(c)
  /\ stage' = [stage EXCEPT ![c] = "ended"]
  /\ outcome' = [outcome EXCEPT ![c] = Result(c)]
  /\ IF writer = c /\ Result(c) # "replied"
     THEN LinkGone
     ELSE listening' = HandlersAfter(c) /\ UNCHANGED <<link, hub, writer>>
  /\ LocalsDie(c)
  /\ UNCHANGED <<tries, doomed, spoke, carried, sent, recent, deniedBy, historyVars>>

(* The retry closes the client first, which ends whoever else is connecting.   *)
Retry(c) ==
  /\ Active(c) /\ Retries(c) /\ ~due[c]
  /\ LinkGone
  /\ stage' = [stage EXCEPT ![c] = "connecting"]
  /\ tries' = [tries EXCEPT ![c] = @ + 1]
  /\ verdict' = [verdict EXCEPT ![c] = "open"]
  /\ doomed' = (doomed \cup {d \in Collectors : stage[d] = "connecting"}) \ {c}
  /\ UNCHANGED <<outcome, frameVars, sent, recent, deniedBy, historyVars>>

(* The caller's task is cancelled.                                             *)
Cancel(c) ==
  /\ Active(c)
  /\ stage' = [stage EXCEPT ![c] = "ended"]
  /\ outcome' = [outcome EXCEPT ![c] = "cancelled"]
  /\ IF writer = c THEN LinkGone
     ELSE listening' = [listening EXCEPT ![c] = {}] /\ UNCHANGED <<link, hub, writer>>
  /\ LocalsDie(c)
  /\ UNCHANGED <<tries, doomed, spoke, carried, sent, recent, deniedBy, historyVars>>

(* CARRY_GRACE_SECONDS after the reply.                                        *)
GraceEnds(c) ==
  /\ stage[c] = "ended" /\ listening[c] # {}
  /\ listening' = [listening EXCEPT ![c] = {}]
  /\ UNCHANGED <<link, callVars, writer, frameVars, sent, hub, recent, deniedBy, historyVars>>

-----------------------------------------------------------------------------
(* send_utterance(): recorded once the connection is up, just before the       *)
(* publication.                                                                *)
Send(s) ==
  /\ s \in Sends /\ hub[s] = "none" /\ writer = Nobody /\ Pending < MaxCalls
  /\ link' = "up"
  /\ hub' = [hub EXCEPT ![s] = "held"]
  /\ recent' = recent \cup {s}
  /\ UNCHANGED <<callVars, frameVars, writer, listening, sent, deniedBy, historyVars>>

(* UNTRACKED_UTTERANCE_GRACE_SECONDS later.  The code counts on a refusal      *)
(* being prompt: by then the hub has admitted the utterance or refused it.     *)
Forget(s) ==
  /\ s \in recent /\ hub[s] \in {"admitted", "over"}
  /\ recent' = recent \ {s}
  /\ UNCHANGED <<link, callVars, writer, frameVars, listening, sent, hub, deniedBy, historyVars>>

Frame(c) ==
  Overdue(c) \/ Speak(c) \/ Unmatched(c) \/ HardFailure(c) \/ Complete(c) \/ Handled(c)

AsksNext ==
  \/ LinkDrops \/ AppClose
  \/ \E c \in Collectors :
       \/ Start(c) \/ Elapse(c) \/ Deadline(c) \/ Publish(c) \/ Lost(c) \/ AttemptFails(c)
       \/ Frame(c) \/ WriteDone(c) \/ WriteFails(c)
       \/ Resume(c) \/ Retry(c) \/ Cancel(c) \/ GraceEnds(c)
  \/ \E u \in Utterances :
       \/ HubRefuses(u) \/ HubIsDone(u) \/ Denied(u)
  \/ \E s \in Sends : Send(s) \/ Forget(s)

AsksSpec == AsksInit /\ [][AsksNext]_askVars

(* Timers run out, the loop runs its tasks, and nothing is asked of the hub.   *)
AskFairness ==
  \A c \in Collectors :
    /\ WF_askVars(Elapse(c)) /\ WF_askVars(Deadline(c)) /\ WF_askVars(Resume(c))
    /\ WF_askVars(Retry(c)) /\ WF_askVars(GraceEnds(c))

AsksFair == AsksSpec /\ AskFairness

-----------------------------------------------------------------------------
(* Properties                                                                  *)

(* A refusal that names no request never ends an ask while the refused         *)
(* utterance is another's that still waits, nor when it is a send of the last  *)
(* ten seconds ("a wrong guess ends a question the hub never refused",         *)
(* events.py 504-511).  Only a call that has ended can leave its refusal to a  *)
(* later ask.                                                                  *)
RefusalIsOwn ==
  \A c \in Collectors :
    \/ deniedBy[c] \in {Nobody, c}
    \/ deniedBy[c] \in Collectors /\ stage[deniedBy[c]] = "ended"

(* However its connection fails and is retried, an utterance is published at   *)
(* most once (client.py 1811-1813, 2120-2124).                                 *)
PublishedAtMostOnce == \A c \in Collectors : sent[c] <= 1

(* Whatever order the frames come in, a turn that spoke is never reported as   *)
(* refused, unanswered or silent, and one that did not is never a reply; a     *)
(* reply counts as unhandled only for a failure after its speech (2020-2071).  *)
SpeechDecides ==
  \A c \in Collectors :
    /\ outcome[c] = "replied" => spoke[c]
    /\ outcome[c] \in {"unanswered", "denied", "failed", "silent"} => ~spoke[c]
    /\ spoke[c] => failure[c] # "soft"

(* Once a call has ended nothing of it listens, but for the handled frame a    *)
(* reply is still owed (2225-2245).                                            *)
NothingLeftBound ==
  \A c \in Collectors :
    stage[c] \in {"idle", "ended"} =>
      /\ listening[c] \subseteq {"handled"}
      /\ listening[c] # {} => outcome[c] = "replied"

(* Every call ends: by an answer, an error or its deadline, whatever the hub   *)
(* and the network do.                                                         *)
EveryCallEnds == \A c \in Collectors : []<>(stage[c] \in {"idle", "ended"})

(* close() "cancels pending work" (client.py 762): work that was under way     *)
(* when the application closed the client does not open the link again.        *)
ClosedStaysClosed == reopened = {}

(* How an ask ends is decided by frames of its own: no refusal of another's    *)
(* utterance ends it, and speech outweighs every other sign (1992-2076).       *)
VerdictIsItsOwn == RefusalIsOwn /\ SpeechDecides

(* An utterance goes out at most once, however often it is tried, and nothing  *)
(* of a call that has ended goes on listening (1811-1813, 2225-2245).          *)
OnceAndOver == PublishedAtMostOnce /\ NothingLeftBound
=============================================================================
