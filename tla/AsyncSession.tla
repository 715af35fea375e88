------------------------------ MODULE AsyncSession ------------------------------
(* AsyncHubSession and its LinkSupervisor (src/thalovant/session.py 109-158,   *)
(* 428-738): run(), calls and close() share one client and one asyncio.Lock,   *)
(* which is fair.  An action is one turn: what runs between two awaits.  Time  *)
(* is what run() sleeps, in steps of the retry ladder.                         *)
EXTENDS Naturals, Sequences, FiniteSets

CONSTANTS Asking,       \* tasks that make one call each
          Run, Shutter, \* the tasks of run() and of close()
          Handlers,     \* what may be subscribed
          MaxLinks,     \* clients that may be built
          MaxMoods,     \* times the hub may change
          Ceiling, Grace, \* retry_ceiling_seconds, refusal_grace_seconds
          CloseMayFail  \* whether close() of a client may raise

Tasks == Asking \cup {Run, Shutter}
Links == 1..MaxLinks
NoLink == 0
Moods == {"open", "down", "refuses", "rekeyed"}

ASSUME AsyncShape ==
  /\ Run # Shutter /\ {Run, Shutter} \cap Asking = {}
  /\ MaxLinks \in Nat /\ MaxMoods \in Nat /\ Ceiling \in Nat \ {0} /\ Grace \in Nat \ {0}
  /\ CloseMayFail \in BOOLEAN

VARIABLES
  at,        \* where each task is
  mine,      \* the client a task has in its hands
  next,      \* what a task does once that client is closed
  queue,     \* _lock: its holder first
  current,   \* _client
  link,      \* each client: "unbuilt", "live", "dead", "closed"; "left": close() raised
  bound,     \* _bound, by client
  wanted,    \* _subscriptions
  ended,     \* _closed
  rung,      \* the supervisor's next wait
  refusedFor,  \* how long ago the first of these refusals was, or Never
  patience,  \* history: slept since the last outcome that was no refusal
  late,      \* history: wanted, but subscribed while the newest client settled
  mood, moods  \* the hub, and how often it has changed

aVars == <<at, mine, next, queue, current, link, bound, wanted, ended, rung, refusedFor, patience,
           late, mood, moods>>
hub == <<mood, moods>>
supervisor == <<rung, refusedFor, patience>>
subscriptions == <<wanted, late>>

Never == Grace + 1
Places == {"idle", "top", "holds", "enters", "dials", "settles", "retires", "drops", "calls",
           "sleeps", "gaveUp", "over"}

Alive == current # NoLink /\ link[current] = "live"

AsyncTypeOK ==
  /\ at \in [Tasks -> Places] /\ mine \in [Tasks -> Links \cup {NoLink}]
  /\ next \in [Tasks -> {"none", "dial", "failed", "refused", "end"}]
  /\ queue \in Seq(Tasks) /\ current \in Links \cup {NoLink}
  /\ link \in [Links -> {"unbuilt", "live", "dead", "closed", "left"}]
  /\ bound \in [Links -> SUBSET Handlers] /\ wanted \subseteq Handlers /\ late \subseteq Handlers
  /\ ended \in BOOLEAN /\ rung \in 1..Ceiling /\ refusedFor \in 0..Never /\ patience \in 0..Grace
  /\ mood \in Moods /\ moods \in 0..MaxMoods
  /\ \A t \in Tasks: at[t] \in {"dials", "settles", "retires"} => queue # <<>> /\ Head(queue) = t

AsyncInit ==
  /\ at = [t \in Tasks |-> IF t = Run THEN "top" ELSE "idle"]
  /\ mine = [t \in Tasks |-> NoLink] /\ next = [t \in Tasks |-> "none"] /\ queue = <<>>
  /\ current = NoLink /\ link = [c \in Links |-> "unbuilt"] /\ bound = [c \in Links |-> {}]
  /\ wanted = {} /\ late = {} /\ ended = FALSE
  /\ rung = 1 /\ refusedFor = Never /\ patience = 0 /\ mood \in Moods /\ moods = 0

Go(t, place) == at' = [at EXCEPT ![t] = place]
Take(t, c) == mine' = [mine EXCEPT ![t] = c]
Then(t, what) == next' = [next EXCEPT ![t] = what]

Holds(t) == queue # <<>> /\ Head(queue) = t
Release == queue' = Tail(queue)

-----------------------------------------------------------------------------
(* LinkSupervisor.after(): what comes of an attempt of run().                  *)
Sooner(a, b) == IF a < b THEN a ELSE b
NextRung == rung' = Sooner(2 * rung, Ceiling)

\* mutant: every refusal is the first.
Restarted == 0

FirstRefusal == IF refusedFor = Never THEN 0 ELSE refusedFor

Refused ==
  /\ refusedFor' = FirstRefusal /\ UNCHANGED patience
  /\ IF FirstRefusal >= Grace THEN Go(Run, "gaveUp") /\ UNCHANGED rung
     ELSE Go(Run, "sleeps") /\ NextRung

Failed == refusedFor' = Never /\ patience' = 0 /\ Go(Run, "sleeps") /\ NextRung

\* mutant: a link that came up leaves the refusals counted.
UpAgain == rung' = 1 /\ patience' = 0 /\ UNCHANGED refusedFor

Up == rung' = 1 /\ refusedFor' = Never /\ patience' = 0

(* connect() has raised: a call passes it on, run() asks the supervisor.       *)
Raises(t, outcome) ==
  IF t # Run THEN Go(t, "over") /\ UNCHANGED supervisor
  ELSE CASE outcome = "refused" -> Refused
         [] outcome = "failed" -> Failed
         [] outcome = "rekeyed" -> Go(Run, "gaveUp") /\ UNCHANGED supervisor

-----------------------------------------------------------------------------
\* mutant: what was bound on a client given up is kept.
StaysBound(c) == UNCHANGED bound

(* _retire() first forgets what it bound on the client, then awaits its close. *)
Unbinds(c) == bound' = [bound EXCEPT ![c] = {}]

\* mutant: connect() does not look at _closed.
Unaware == FALSE

Shut == ended

(* connect(), once its turn of the lock has come.                              *)
Enter(t) ==
  /\ at[t] = "enters" /\ Holds(t)
  /\ \/ /\ Shut /\ Raises(t, "failed") /\ Release /\ UNCHANGED <<mine, next, current, bound>>
     \/ /\ ~Shut /\ Alive /\ Release
        /\ IF t = Run THEN Go(t, "top") /\ UNCHANGED mine ELSE Go(t, "calls") /\ Take(t, current)
        /\ UNCHANGED <<next, current, bound, supervisor>>
     \/ /\ ~Shut /\ ~Alive /\ current # NoLink
        /\ Go(t, "retires") /\ Take(t, current) /\ Then(t, "dial") /\ current' = NoLink
        /\ Unbinds(current)
        /\ UNCHANGED <<queue, supervisor>>
     \/ /\ ~Shut /\ current = NoLink /\ Go(t, "dials")
        /\ UNCHANGED <<mine, next, queue, current, bound, supervisor>>
  /\ UNCHANGED <<link, subscriptions, ended, hub>>

(* The client is up and carries the subscriptions; _settle() begins.           *)
Dialled(t) ==
  /\ at[t] = "dials" /\ mood \in {"open", "refuses"} /\ Go(t, "settles")
  /\ \E c \in Links:
       /\ link[c] = "unbuilt" /\ \A d \in 1..c - 1: link[d] # "unbuilt"
       /\ Take(t, c) /\ link' = [link EXCEPT ![c] = "live"]
       /\ bound' = [bound EXCEPT ![c] = wanted]
  /\ late' = {}
  /\ UNCHANGED <<next, queue, current, wanted, ended, supervisor, hub>>

DialFails(t) ==
  /\ at[t] = "dials" /\ (mood # "open" \/ \A c \in Links: link[c] # "unbuilt") /\ Release
  /\ Raises(t, CASE mood = "refuses" -> "refused" [] mood = "rekeyed" -> "rekeyed"
                 [] mood \in {"down", "open"} -> "failed")
  /\ UNCHANGED <<mine, next, current, link, bound, subscriptions, ended, hub>>

(* settle_seconds are over, or the hub has closed: at once, it may be a refusal.*)
Settled(t) ==
  /\ at[t] = "settles" /\ link[mine[t]] = "live" /\ current' = mine[t]
  /\ Up /\ Release
  /\ IF t = Run THEN Go(t, "top") /\ Take(t, NoLink) ELSE Go(t, "calls") /\ UNCHANGED mine
  /\ UNCHANGED <<next, link, bound, subscriptions, ended, hub>>

SettleFails(t) ==
  /\ at[t] = "settles" /\ link[mine[t]] = "dead"
  /\ Go(t, "retires") /\ Then(t, IF mood = "refuses" THEN "refused" ELSE "failed")
  /\ Unbinds(mine[t])
  /\ UNCHANGED <<mine, queue, current, link, subscriptions, ended, supervisor, hub>>

\* mutant: a client given up is not closed at all.
Abandons(t) == UNCHANGED link

(* client.close() has returned, or raised: that is suppressed, and the client, *)
(* whatever it still holds at the hub, is forgotten.                           *)
Retires(t) ==
  \/ link' = [link EXCEPT ![mine[t]] = "closed"]
  \/ CloseMayFail /\ link' = [link EXCEPT ![mine[t]] = "left"]

Retired(t) ==
  /\ at[t] = "retires" /\ Retires(t) /\ Take(t, NoLink) /\ Then(t, "none")
  /\ CASE next[t] = "dial" -> Go(t, "dials") /\ UNCHANGED <<queue, supervisor>>
       [] next[t] = "end" -> /\ Go(t, IF t = Run THEN "top" ELSE "over") /\ Release
                             /\ UNCHANGED supervisor
       [] OTHER -> Raises(t, next[t]) /\ Release
  /\ UNCHANGED <<current, bound, subscriptions, ended, hub>>

\* mutant: a call drops whichever client is there when its turn comes.
Suspect(t) == current

(* What _drop() takes: a failed call only its own client.                      *)
Dropped(t) == IF t \in Asking /\ current # mine[t] THEN NoLink ELSE current

Drop(t) ==
  /\ at[t] = "drops" /\ Holds(t) /\ Take(t, Dropped(t))
  /\ IF Dropped(t) = NoLink
     THEN Go(t, IF t = Run THEN "top" ELSE "over") /\ Release /\ UNCHANGED <<next, current, bound>>
     ELSE /\ Go(t, "retires") /\ Then(t, "end") /\ current' = NoLink /\ Unbinds(current)
          /\ UNCHANGED queue
  /\ UNCHANGED <<link, subscriptions, ended, supervisor, hub>>

-----------------------------------------------------------------------------
\* mutant: run() leaves it to connect() to find the session closed.
NotTold == FALSE

Ending == ended

(* run(): hold a live link, or dial.                                           *)
RunTop ==
  /\ at[Run] = "top"
  /\ IF Ending THEN Go(Run, "over") /\ UNCHANGED queue
     ELSE IF Alive THEN Go(Run, "holds") /\ UNCHANGED queue
     ELSE Go(Run, "enters") /\ queue' = Append(queue, Run)
  /\ UNCHANGED <<mine, next, current, link, bound, subscriptions, ended, supervisor, hub>>

(* Woken by close(), by the client's end, or by the probe.                     *)
HoldEnds ==
  /\ at[Run] = "holds"
  /\ IF Ending THEN Go(Run, "over") /\ UNCHANGED queue
     ELSE IF current # NoLink /\ ~Alive THEN Go(Run, "drops") /\ queue' = Append(queue, Run)
     ELSE Go(Run, "top") /\ UNCHANGED queue
  /\ UNCHANGED <<mine, next, current, link, bound, subscriptions, ended, supervisor, hub>>

(* The ladder's wait is over, or close() wakes it.                             *)
Sleep ==
  /\ at[Run] = "sleeps" /\ Go(Run, "top")
  /\ refusedFor' = IF refusedFor = Never THEN Never ELSE Sooner(refusedFor + rung, Grace)
  /\ patience' = Sooner(patience + rung, Grace)
  /\ UNCHANGED <<mine, next, queue, current, link, bound, subscriptions, ended, rung, hub>>

Call(t) ==
  /\ t \in Asking /\ at[t] = "idle"
  /\ IF Alive THEN Go(t, "calls") /\ Take(t, current) /\ UNCHANGED queue
     ELSE Go(t, "enters") /\ queue' = Append(queue, t) /\ UNCHANGED mine
  /\ UNCHANGED <<next, current, link, bound, subscriptions, ended, supervisor, hub>>

CallEnds(t) ==
  /\ at[t] = "calls"
  /\ \/ link[mine[t]] \in {"live", "left"} /\ Go(t, "over") /\ UNCHANGED queue
     \/ Go(t, "drops") /\ queue' = Append(queue, t)
  /\ UNCHANGED <<mine, next, current, link, bound, subscriptions, ended, supervisor, hub>>

Close ==
  /\ at[Shutter] = "idle" /\ ended' = TRUE /\ Go(Shutter, "drops") /\ queue' = Append(queue, Shutter)
  /\ UNCHANGED <<mine, next, current, link, bound, subscriptions, supervisor, hub>>

(* on() and what it returned: at any turn of the application.                  *)
On(h) ==
  /\ ~ended /\ h \notin wanted /\ wanted' = wanted \cup {h}
  /\ bound' = IF current = NoLink THEN bound ELSE [bound EXCEPT ![current] = @ \cup {h}]
  /\ late' = IF \E t \in Tasks: at[t] = "settles" THEN late \cup {h} ELSE late
  /\ UNCHANGED <<at, mine, next, queue, current, link, ended, supervisor, hub>>

\* mutant: only the current client's binding is taken back.
UnboundNow(h) == IF current = NoLink THEN bound ELSE [bound EXCEPT ![current] = @ \ {h}]

Unbound(h) == [c \in Links |-> bound[c] \ {h}]

Off(h) ==
  /\ h \in wanted /\ wanted' = wanted \ {h} /\ bound' = Unbound(h) /\ late' = late \ {h}
  /\ UNCHANGED <<at, mine, next, queue, current, link, ended, supervisor, hub>>

LinkDies(c) ==
  /\ link[c] = "live" /\ link' = [link EXCEPT ![c] = "dead"]
  /\ UNCHANGED <<at, mine, next, queue, current, bound, subscriptions, ended, supervisor, hub>>

HubChanges ==
  /\ moods < MaxMoods /\ moods' = moods + 1 /\ mood' \in Moods \ {mood}
  /\ UNCHANGED <<at, mine, next, queue, current, link, bound, subscriptions, ended, supervisor>>

Turn(t) ==
  \/ Enter(t) \/ Dialled(t) \/ DialFails(t) \/ Settled(t) \/ SettleFails(t) \/ Retired(t)
  \/ Drop(t) \/ CallEnds(t)

RunTurn == RunTop \/ HoldEnds \/ Sleep

AsyncNext ==
  \/ \E t \in Tasks: Turn(t) \/ Call(t)
  \/ RunTurn \/ Close \/ HubChanges
  \/ \E h \in Handlers: On(h) \/ Off(h)
  \/ \E c \in Links: LinkDies(c)

AsyncFairness == WF_aVars(RunTurn) /\ \A t \in Tasks: WF_aVars(Turn(t))
AsyncSpec == AsyncInit /\ [][AsyncNext]_aVars /\ AsyncFairness

-----------------------------------------------------------------------------
Open == {c \in Links: link[c] \in {"live", "dead"}}

(* Of one session's clients at most one is neither closed nor given up by a    *)
(* close() of its own that raised, and that one is current, or in the hands of *)
(* the task that holds the lock: nothing else is forgotten (584-610, 678-687). *)
OneLink ==
  /\ Cardinality(Open) <= 1
  /\ \A c \in Open: c = current \/ \E t \in Tasks: mine[t] = c /\ Holds(t)

(* The class's first words: one long-lived hub connection (427-428).  A client *)
(* whose close() raised may still be one beside the next: this is not held.    *)
OneConnection == Cardinality({c \in Links: link[c] \in {"live", "dead", "left"}}) <= 1

(* A session that close() has returned from holds no client again, whatever    *)
(* was queued, dialling or asleep when it was called: all are closed, but those*)
(* whose close() raised (689-696).                                             *)
ClosedStaysClosed == at[Shutter] = "over" => Open = {}

(* The current client carries exactly what is subscribed, less what came while *)
(* that client, and no other, settled: the next one has it.  Nothing stays     *)
(* bound on a client given up, and nothing unsubscribed on any (550-610, 685). *)
CarriesWhatIsWanted ==
  /\ current # NoLink => bound[current] = wanted \ late
  /\ \A c \in Links:
       /\ bound[c] # {} => c = current \/ \E t \in Tasks: mine[t] = c /\ at[t] = "settles"
       /\ bound[c] \subseteq wanted

(* The class's promise: subscriptions are wired onto every client it builds    *)
(* (432-433).  on() during a settle wires none (601-608): this is not held.    *)
WiredOntoEveryClient == current # NoLink => wanted \subseteq bound[current]

(* run() gives up on refusals only when nothing but refusals has come for the  *)
(* whole grace: a link or another failure in between starts it afresh          *)
(* (135-156, 659-666).                                                         *)
NeverHasty ==
  [][at[Run] # "gaveUp" /\ at'[Run] = "gaveUp" /\ ~(at[Run] = "dials" /\ mood = "rekeyed")
       => patience = Grace]_aVars

(* ... and it does give up on a hub that refuses for ever (436-443).           *)
RefusalsEnd == <>[](mood = "refuses" /\ ~Alive) => []<>(at[Run] \in {"gaveUp", "over"})

(* run() returns after close(), wherever it was (626-647, 667-676).            *)
RunEnds == []<>(ended => at[Run] \in {"gaveUp", "over"})

(* A call fails only the link it was made on: one whose client was replaced    *)
(* meanwhile leaves the new client alone (719-724).                            *)
OwnLinkOnly ==
  [][\A t \in Asking: Drop(t) /\ current # NoLink /\ current' = NoLink => mine[t] = current]_aVars

=============================================================================
