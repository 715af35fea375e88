------------------------------- MODULE HubSession -------------------------------
(* HubSession (src/thalovant/session.py 168-425): one long-lived client shared *)
(* by threads.  _busy admits one call, one warm or one look of the probe;      *)
(* _lock is held through _ensure(), dial included.  A client's close() may     *)
(* fail, and then it must be tried again before another client is built.       *)
EXTENDS Naturals, FiniteSets

CONSTANTS Callers,      \* threads that call ask() or emit(), once each
          Events,       \* what may be subscribed
          MaxClients,   \* clients the session may build
          MaxCloseFailures,
          Warm, Closer, \* the threads of warm() and close()
          Free

Workers == Callers \cup {Warm}
Ids == 1..MaxClients
NoClient == 0

ASSUME SessionShape ==
  /\ Warm \notin Callers /\ Closer \notin Workers /\ Free \notin Workers \cup {Closer}
  /\ MaxClients \in Nat \ {0} /\ MaxCloseFailures \in Nat

VARIABLES
  held, retired,   \* _client, _retired
  shut,            \* _closed
  cooling,         \* the clock has not reached _retry_at
  subscribed,      \* _subscriptions
  status,          \* each client: "unbuilt", "live", "dead", "closed"
  wired,           \* what each client carries
  busy,            \* who holds _busy
  lock,            \* who holds _lock through a dial
  warming,         \* _warming is held
  doing,           \* each thread: "idle", "waits", "stale", "ensure", "dials", "calls", "over"
  using,           \* the client a call is made on
  closer,          \* close(): "never", "waits", "done", "failed"
  closeFailures

sessionVars == <<held, retired, shut, cooling, subscribed, status, wired, busy, lock, warming,
                 doing, using, closer, closeFailures>>

SessionTypeOK ==
  /\ held \in Ids \cup {NoClient} /\ retired \in Ids \cup {NoClient}
  /\ shut \in BOOLEAN /\ cooling \in BOOLEAN /\ subscribed \subseteq Events
  /\ status \in [Ids -> {"unbuilt", "live", "dead", "closed"}]
  /\ wired \in [Ids -> SUBSET Events]
  /\ busy \in Workers \cup {Closer, Free} /\ lock \in Workers \cup {Free}
  /\ warming \in BOOLEAN
  /\ doing \in [Workers -> {"idle", "waits", "stale", "ensure", "dials", "calls", "over"}]
  /\ using \in [Workers -> Ids \cup {NoClient}]
  /\ closer \in {"never", "waits", "done", "failed"} /\ closeFailures \in 0..MaxCloseFailures
  /\ \A t \in Workers: doing[t] \in {"stale", "ensure", "dials", "calls"} <=> busy = t

SessionInit ==
  /\ held = NoClient /\ retired = NoClient /\ shut = FALSE /\ cooling = FALSE
  /\ subscribed = {} /\ status = [c \in Ids |-> "unbuilt"] /\ wired = [c \in Ids |-> {}]
  /\ busy = Free /\ lock = Free /\ warming = FALSE
  /\ doing = [t \in Workers |-> "idle"] /\ using = [t \in Workers |-> NoClient]
  /\ closer = "never" /\ closeFailures = 0

Do(t, what) == doing' = [doing EXCEPT ![t] = what]

\* mutant: a warm() that found no client keeps _warming.
Quits(t) ==
  /\ Do(t, IF t = Warm THEN "idle" ELSE "over") /\ busy' = Free
  /\ using' = [using EXCEPT ![t] = NoClient]
  /\ warming' = IF t = Warm THEN held = NoClient ELSE warming

(* A worker has finished or raised: its locks go back.                         *)
Leaves(t) ==
  /\ Do(t, IF t = Warm THEN "idle" ELSE "over") /\ busy' = Free
  /\ using' = [using EXCEPT ![t] = NoClient]
  /\ warming' = IF t = Warm THEN FALSE ELSE warming

-----------------------------------------------------------------------------
(* _cleanup() of client c, c = _retired: close() succeeds, or fails and the    *)
(* client stays retired.                                                       *)
Closes(c) ==
  /\ retired' = NoClient /\ UNCHANGED closeFailures
  /\ status' = IF c = NoClient THEN status ELSE [status EXCEPT ![c] = "closed"]

CloseRaises(c) ==
  /\ c # NoClient /\ closeFailures < MaxCloseFailures /\ closeFailures' = closeFailures + 1
  /\ retired' = c /\ UNCHANGED status

BeginCall(t) ==
  /\ t \in Callers /\ doing[t] = "idle" /\ Do(t, "waits")
  /\ UNCHANGED <<held, retired, shut, cooling, subscribed, status, wired, busy, lock, warming,
                 using, closer, closeFailures>>

(* warm(): nothing while closed, in the retry window, or already warming.      *)
StartWarm ==
  /\ lock = Free /\ ~shut /\ ~cooling /\ ~warming
  /\ warming' = TRUE /\ Do(Warm, "waits")
  /\ UNCHANGED <<held, retired, shut, cooling, subscribed, status, wired, busy, lock, using,
                 closer, closeFailures>>

(* _busy, then the look at the held client; warm() takes it as it is.          *)
Admit(t) ==
  /\ doing[t] = "waits" /\ busy = Free /\ busy' = t
  /\ Do(t, IF t \in Callers /\ held # NoClient /\ status[held] = "dead" THEN "stale" ELSE "ensure")
  /\ UNCHANGED <<held, retired, shut, cooling, subscribed, status, wired, lock, warming, using,
                 closer, closeFailures>>

DropStale(t) ==
  /\ doing[t] = "stale" /\ held' = NoClient
  /\ \/ Closes(held) /\ Do(t, "ensure") /\ UNCHANGED <<busy, using, warming>>
     \/ CloseRaises(held) /\ Leaves(t)
  /\ UNCHANGED <<shut, cooling, subscribed, wired, lock, closer>>

\* mutant: a client is built whatever became of the last one.
BuildsAtOnce(t) == Do(t, "dials") /\ lock' = t /\ UNCHANGED <<retired, status, closeFailures, busy, using, warming>>

(* _cleanup() first; a client it cannot close is not replaced.                 *)
CleansUpFirst(t) ==
  \/ Closes(retired) /\ Do(t, "dials") /\ lock' = t /\ UNCHANGED <<busy, using, warming>>
  \/ CloseRaises(retired) /\ Leaves(t) /\ UNCHANGED lock

\* mutant: only warm() asks whether the session is closed.
ShutFor(t) == shut /\ t \in Callers

Refuses(t) == shut

Ensure(t) ==
  /\ doing[t] = "ensure"
  /\ \/ Refuses(t) /\ Leaves(t) /\ UNCHANGED <<retired, status, closeFailures, lock>>
     \/ ~Refuses(t) /\ held = NoClient /\ CleansUpFirst(t)
     \/ /\ ~Refuses(t) /\ held # NoClient
        /\ IF t = Warm THEN Leaves(t)
           ELSE /\ Do(t, "calls") /\ using' = [using EXCEPT ![t] = held]
                /\ UNCHANGED <<busy, warming>>
        /\ UNCHANGED <<retired, status, closeFailures, lock>>
  /\ UNCHANGED <<held, shut, cooling, subscribed, wired, closer>>

Fresh(c) == status[c] = "unbuilt" /\ \A d \in Ids: d < c => status[d] # "unbuilt"

Connected(t) ==
  /\ doing[t] = "dials"
  /\ \E c \in Ids:
       /\ Fresh(c) /\ held' = c /\ status' = [status EXCEPT ![c] = "live"]
       /\ wired' = [wired EXCEPT ![c] = subscribed]
       /\ IF t = Warm THEN Leaves(t)
          ELSE Do(t, "calls") /\ using' = [using EXCEPT ![t] = c] /\ UNCHANGED <<busy, warming>>
  /\ lock' = Free /\ cooling' = FALSE
  /\ UNCHANGED <<retired, shut, subscribed, closer, closeFailures>>

(* The dial failed: no client, and the ladder.                                 *)
BuildFails(t) ==
  /\ doing[t] = "dials" /\ lock' = Free /\ cooling' = TRUE /\ Leaves(t)
  /\ UNCHANGED <<held, retired, shut, subscribed, status, wired, closer, closeFailures>>

(* A client that cannot carry the subscriptions is closed, or stays retired.   *)
WiringFails(t) ==
  /\ doing[t] = "dials" /\ subscribed # {} /\ lock' = Free /\ cooling' = TRUE /\ Leaves(t)
  /\ \E c \in Ids:
       /\ Fresh(c)
       /\ \/ status' = [status EXCEPT ![c] = "closed"] /\ UNCHANGED <<retired, closeFailures>>
          \/ /\ closeFailures < MaxCloseFailures /\ closeFailures' = closeFailures + 1
             /\ status' = [status EXCEPT ![c] = "live"] /\ retired' = c
  /\ UNCHANGED <<held, shut, subscribed, wired, closer>>

(* The call is answered, or the hub refuses it: the session is live.           *)
CallAnswered(t) ==
  /\ doing[t] = "calls" /\ status[using[t]] = "live" /\ Leaves(t)
  /\ UNCHANGED <<held, retired, shut, cooling, subscribed, status, wired, lock, closer, closeFailures>>

(* Any other failure: _drop(client), and nothing is replayed.                  *)
CallFails(t) ==
  /\ doing[t] = "calls" /\ Leaves(t)
  /\ IF held = using[t]
     THEN held' = NoClient /\ (Closes(held) \/ CloseRaises(held))
     ELSE UNCHANGED <<held, retired, status, closeFailures>>
  /\ UNCHANGED <<shut, cooling, subscribed, wired, lock, closer>>

-----------------------------------------------------------------------------
\* mutant: the probe looks while a call is in flight.
Whenever == TRUE

NothingInFlight == busy = Free

(* probe() on a client that died while idle; what follows it is StartWarm.     *)
Probe ==
  /\ NothingInFlight /\ lock = Free /\ held # NoClient /\ status[held] = "dead"
  /\ held' = NoClient /\ (Closes(held) \/ CloseRaises(held))
  /\ UNCHANGED <<shut, cooling, subscribed, wired, busy, lock, warming, doing, using, closer>>

\* mutant: the event is remembered, and left to the next client.
NextTime(e) == wired

OnHeld(e) == IF held = NoClient THEN wired ELSE [wired EXCEPT ![held] = @ \cup {e}]

(* on(), refused once closed, or by the client.                                *)
Subscribe(e) ==
  /\ lock = Free /\ ~shut /\ e \notin subscribed
  /\ subscribed' = subscribed \cup {e} /\ wired' = OnHeld(e)
  /\ UNCHANGED <<held, retired, shut, cooling, status, busy, lock, warming, doing, using, closer,
                 closeFailures>>

StartClose ==
  /\ closer \in {"never", "failed"} /\ lock = Free /\ shut' = TRUE /\ closer' = "waits"
  /\ UNCHANGED <<held, retired, cooling, subscribed, status, wired, busy, lock, warming, doing,
                 using, closeFailures>>

CloseSession ==
  /\ closer = "waits" /\ busy = Free /\ held' = NoClient
  /\ LET c == IF held = NoClient THEN retired ELSE held IN
     \/ Closes(c) /\ closer' = "done"
     \/ CloseRaises(c) /\ closer' = "failed"
  /\ UNCHANGED <<shut, cooling, subscribed, wired, busy, lock, warming, doing, using>>

(* A link dies; the retry window opens.                                        *)
ClientDies(c) ==
  /\ status[c] = "live" /\ status' = [status EXCEPT ![c] = "dead"]
  /\ UNCHANGED <<held, retired, shut, cooling, subscribed, wired, busy, lock, warming, doing,
                 using, closer, closeFailures>>

WindowOpens ==
  /\ cooling /\ cooling' = FALSE
  /\ UNCHANGED <<held, retired, shut, subscribed, status, wired, busy, lock, warming, doing,
                 using, closer, closeFailures>>

Step(t) ==
  \/ Admit(t) \/ DropStale(t) \/ Ensure(t) \/ Connected(t) \/ BuildFails(t) \/ WiringFails(t)
  \/ CallAnswered(t) \/ CallFails(t)

SessionNext ==
  \/ \E t \in Workers: BeginCall(t) \/ Step(t)
  \/ StartWarm \/ Probe \/ StartClose \/ CloseSession \/ WindowOpens
  \/ \E e \in Events: Subscribe(e)
  \/ \E c \in Ids: ClientDies(c)

SessionSpec == SessionInit /\ [][SessionNext]_sessionVars

-----------------------------------------------------------------------------
Standing == {c \in Ids: status[c] \in {"live", "dead"}}

(* However calls, warms, probes and a close interleave, and whichever close of *)
(* a client fails, the session never has two clients that are not closed, and  *)
(* none that it has forgotten (session.py 187-219, 349-385).                   *)
OneSession == Cardinality(Standing) <= 1 /\ Standing \subseteq {held, retired}

(* No thread closes the client another one's call is made on (323-343).        *)
CallsAreLeftAlone == \A t \in Workers: using[t] # NoClient => status[using[t]] # "closed"

(* The held client carries every event subscribed so far (236-248, 252-263).   *)
Carries == held # NoClient => wired[held] = subscribed

(* Once close() has returned nothing of the session is left, and no warm or    *)
(* caller queued behind it brings it back (372-385).                           *)
ClosedForGood == closer = "done" => Standing = {}

(* The background connect always ends and lets the next one start (283-321):   *)
(* a lock left held would silence every reconnect.                             *)
WarmEnds == []<>~warming

=============================================================================
