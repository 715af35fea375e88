---------------------------- MODULE Subscriptions ----------------------------
(* The asyncio client's subscriptions across sessions (src/thalovant/client.py *)
(* 940-1166): the registry of live listeners, the bindings they have on the    *)
(* current session, and the locked pass that reconciles the two on every new   *)
(* session.  The link is one of three: "native" (NativeLink over the built-in  *)
(* asyncio transport, which forgets its handlers with each session), "mqtt"    *)
(* (SyncLink over HiveMindMQTTTransport, which keeps them and has session      *)
(* tokens), or SyncLink over a transport of the caller's without tokens, which *)
(* keeps its handlers ("keeping") or starts afresh ("clearing").               *)
(*                                                                             *)
(* A loop action is what runs between two awaits.  The reconciling pass is     *)
(* several actions long between its awaits; LoopFree keeps every other loop    *)
(* action out meanwhile, while the registering threads go on.                  *)
EXTENDS Naturals, Sequences, FiniteSets, SyncLink

CONSTANTS Background,     \* handlers of on(): registered by a task of their own
          Awaited,        \* handlers of _on(): the caller awaits the connection
          Hive,           \* handlers of _on_hive()
          Streams,        \* handlers of _listen()
          LinkKinds,      \* the links to consider
          Refusing,       \* those whose transport may refuse a registration
          MaxSessions,    \* bound on the sessions opened
          None

Subs == Background \cup Awaited \cup Hive
Pass == "pass"      \* the reconciling pass, as a holder of the lock

ASSUME HandlerKinds ==
  /\ Handlers = Subs \cup Streams /\ Subs \cap Streams = {}
  /\ {None, Pass} \cap Handlers = {} /\ None # Pass
  /\ LinkKinds \subseteq {"native", "mqtt", "keeping", "clearing"}
  /\ Refusing \subseteq LinkKinds \ {"native", "mqtt"}

VARIABLES
  kind,         \* which link
  session,      \* sessions opened so far: the transport's generation
  up,           \* the transport: "up", "broken" by the hub, or "down"
  connect,      \* the client's run_connect, and the reconciling pass in it
  todo,         \* the pass: wanted handlers still to look at
  current,      \* the pass: the handler it is binding
  token,        \* the pass: the session token it read; 0 when there is none
  lastToken,    \* _subscription_session_token
  ready,        \* _subscription_session_ready
  registry,     \* _event_subscriptions and _hive_subscriptions
  bound,        \* _bound_subscriptions
  holder,       \* who holds the subscription lock
  waiters,      \* who waits for it, first come first served
  task,         \* where each handler's own coroutine is
  closed        \* handlers whose subscription was closed

clientVars == <<kind, session, up, connect, todo, current, token, lastToken,
                ready, registry, bound, holder, waiters, task, closed>>
vars == <<linkVars, clientVars>>
passVars == <<connect, todo, current, token, lastToken, ready>>
transportVars == <<kind, session, up>>

TypeOK ==
  /\ LinkTypeOK
  /\ kind \in LinkKinds /\ session \in 0..MaxSessions /\ up \in {"up", "broken", "down"}
  /\ connect \in {"idle", "opening", "opened", "waiting", "reconcile", "loop",
                  "replaced", "binding"}
  /\ todo \subseteq Subs /\ current \in Subs \cup {None}
  /\ token \in 0..MaxSessions /\ lastToken \in 0..MaxSessions /\ ready \in BOOLEAN
  /\ registry \subseteq Subs /\ bound \subseteq Subs /\ closed \subseteq Handlers
  /\ holder \in Subs \cup {Pass, None}
  /\ waiters \in Seq(Subs \cup {Pass})
  /\ task \in [Handlers -> {"idle", "started", "waiting", "binding", "live", "failed"}]

Init ==
  /\ LinkInit
  /\ kind \in LinkKinds
  /\ session = 0 /\ up = "down" /\ connect = "idle"
  /\ todo = {} /\ current = None /\ token = 0 /\ lastToken = 0 /\ ready = FALSE
  /\ registry = {} /\ bound = {} /\ closed = {}
  /\ holder = None /\ waiters = << >>
  /\ task = [h \in Handlers |-> "idle"]

LoopFree == connect \notin {"reconcile", "loop", "replaced"}

-----------------------------------------------------------------------------
(* The link.  The native one keeps no table: it registers at once, and removes *)
(* whatever the transport holds for the handler.                              *)
NativeRetire(H) ==
  /\ attached' = {r \in attached : reg[r].owner \notin H}
  /\ UNCHANGED reg

Unbind(H) == IF kind = "native" THEN NativeRetire(H) ELSE Retire(H)

Entry(h, r) == r \in DOMAIN reg /\ reg[r].owner = h

(* _require_session(): the native transport takes no handler once its carrier *)
(* is gone.                                                                   *)
Takes == kind # "native" \/ up # "down"

(* asyncio.Lock: whoever finds it held, or others queueing, queues.           *)
LockFree == holder = None /\ waiters = << >>
Queue(who) == ~LockFree /\ waiters' = Append(waiters, who)
Granted(who) == holder = None /\ waiters # << >> /\ Head(waiters) = who

-----------------------------------------------------------------------------
(* on(): bound before it returns when the session is ready and the lock free, *)
(* else left to a background task.  Where the transport takes no handler on() *)
(* raises, and nothing has changed.                                           *)
OnNow(s) ==
  /\ LoopFree /\ s \in Background /\ task[s] = "idle"
  /\ ready /\ holder = None /\ Takes
  /\ RegisterNow(s)
  /\ bound' = bound \cup {s} /\ registry' = registry \cup {s}
  /\ task' = [task EXCEPT ![s] = "live"]
  /\ UNCHANGED <<transportVars, passVars, holder, waiters, closed>>

OnLater(s) ==
  /\ LoopFree /\ s \in Background /\ task[s] = "idle"
  /\ ~(ready /\ holder = None)
  /\ task' = [task EXCEPT ![s] = "started"]
  /\ UNCHANGED <<linkVars, transportVars, passVars, registry, bound, holder, waiters, closed>>

(* _on() and _on_hive() begin by awaiting connect(): here it has finished, and *)
(* the caller is yet to be resumed.                                           *)
OnConnected(s) ==
  /\ LoopFree /\ s \in Awaited \cup Hive /\ task[s] = "idle"
  /\ up = "up" /\ ready /\ connect = "idle"
  /\ task' = [task EXCEPT ![s] = "started"]
  /\ UNCHANGED <<linkVars, transportVars, passVars, registry, bound, holder, waiters, closed>>

(* on()'s background task, or the resumed caller, reaches _add_subscription.  *)
Arrives(s) == LoopFree /\ s \in Subs /\ task[s] = "started"

(* The body of _add_subscription() under the lock, up to its await: commit at *)
(* once when no session is ready or the link does not suspend.                *)
Commit(s) ==
  /\ registry' = registry \cup {s}
  /\ bound' = IF ready THEN bound \cup {s} ELSE bound
  /\ task' = [task EXCEPT ![s] = "live"]
  /\ holder' = None

AddUnderLock(s) ==
  /\ \/ ~ready /\ Commit(s) /\ UNCHANGED linkVars
     \/ ready /\ kind = "native" /\ Takes /\ RegisterNow(s) /\ Commit(s)
     \/ /\ ready /\ ~Takes
        /\ holder' = None /\ task' = [task EXCEPT ![s] = "failed"]
        /\ UNCHANGED <<linkVars, registry, bound>>
     \/ /\ ready /\ kind # "native" /\ Register(s)
        /\ holder' = s /\ task' = [task EXCEPT ![s] = "binding"]
        /\ UNCHANGED <<registry, bound>>
  /\ UNCHANGED <<transportVars, passVars, closed>>

AddNow(s)     == Arrives(s) /\ LockFree /\ AddUnderLock(s) /\ UNCHANGED waiters

AddWaits(s) ==
  /\ Arrives(s) /\ Queue(s)
  /\ task' = [task EXCEPT ![s] = "waiting"]
  /\ UNCHANGED <<linkVars, transportVars, passVars, registry, bound, holder, closed>>

AddGranted(s) ==
  /\ LoopFree /\ s \in Subs /\ task[s] = "waiting" /\ Granted(s)
  /\ waiters' = Tail(waiters) /\ AddUnderLock(s)

(* bind() comes back: commit only now, whatever became of the session.        *)
AddBound(s, r) ==
  /\ LoopFree /\ holder = s /\ Entry(s, r) /\ Returned(r)
  /\ registry' = registry \cup {s} /\ bound' = bound \cup {s}
  /\ task' = [task EXCEPT ![s] = "live"] /\ holder' = None
  /\ UNCHANGED <<transportVars, passVars, waiters, closed>>

AddFailsQuietly(s, r) ==     \* mutant: a failed registration is not withdrawn
  /\ LoopFree /\ holder = s /\ Entry(s, r) /\ reg[r].awaited
  /\ reg' = [reg EXCEPT ![r].awaited = FALSE]
  /\ task' = [task EXCEPT ![s] = "failed"] /\ holder' = None
  /\ UNCHANGED <<attached, transportVars, passVars, registry, bound, waiters, closed>>

(* The transport refused the registration, or the caller of _on() or          *)
(* _on_hive() was cancelled: no subscription.                                 *)
AddFails(s, r) ==
  /\ LoopFree /\ holder = s /\ Entry(s, r)
  /\ Raised(r) \/ (s \notin Background /\ Abandoned(r))
  /\ task' = [task EXCEPT ![s] = "failed"] /\ holder' = None
  /\ UNCHANGED <<transportVars, passVars, registry, bound, waiters, closed>>

AddCancelled(s) ==
  /\ LoopFree /\ s \in Awaited \cup Hive /\ task[s] \in {"started", "waiting"}
  /\ waiters' = SelectSeq(waiters, LAMBDA w : w # s)
  /\ task' = [task EXCEPT ![s] = "failed"]
  /\ UNCHANGED <<linkVars, transportVars, passVars, registry, bound, holder, closed>>

(* ThalovantSubscription.close(): _remove_subscription().                     *)
Close(s) ==
  /\ LoopFree /\ s \in (Background \cup Awaited) \ closed
  /\ task[s] = "live" \/ (s \in Background /\ task[s] # "idle")
  /\ closed' = closed \cup {s} /\ registry' = registry \ {s}
  /\ IF s \in registry /\ ready /\ s \in bound
       THEN Unbind({s}) /\ bound' = bound \ {s}
       ELSE UNCHANGED <<linkVars, bound>>
  /\ UNCHANGED <<transportVars, passVars, holder, waiters, task>>

(* The unsubscriber of _on_hive(): _remove_hive(), which does not ask whether *)
(* the session is ready.                                                      *)
Unsubscribe(s) ==
  /\ LoopFree /\ s \in Hive \ closed /\ task[s] = "live"
  /\ closed' = closed \cup {s} /\ registry' = registry \ {s} /\ bound' = bound \ {s}
  /\ IF s \in bound THEN Unbind({s}) ELSE UNCHANGED linkVars
  /\ UNCHANGED <<transportVars, passVars, holder, waiters, task>>

-----------------------------------------------------------------------------
(* The session.  run_connect() marks the subscriptions not ready and asks the *)
(* link to connect; the native transport forgets its handlers at once.        *)
BeginConnect ==
  /\ LoopFree /\ connect = "idle" /\ up # "up" /\ session < MaxSessions
  /\ \A h \in Streams : task[h] # "binding"
  /\ connect' = "opening" /\ ready' = FALSE /\ up' = "down"
  /\ IF kind = "native"
       THEN session' = session + 1 /\ Cleared
       ELSE UNCHANGED <<linkVars, session>>
  /\ UNCHANGED <<kind, todo, current, token, lastToken, registry, bound, holder, waiters,
                 task, closed>>

SessionOpens ==
  /\ connect = "opening"
  /\ connect' = "opened" /\ up' = "up"
  /\ session' = IF kind = "native" THEN session ELSE session + 1
  /\ IF kind = "clearing" THEN Cleared ELSE UNCHANGED linkVars
  /\ UNCHANGED <<kind, todo, current, token, lastToken, ready, registry, bound, holder,
                 waiters, task, closed>>

ConnectFails ==
  /\ connect = "opening"
  /\ connect' = "idle"
  /\ UNCHANGED <<linkVars, transportVars, todo, current, token, lastToken, ready, registry,
                 bound, holder, waiters, task, closed>>

(* The socket closes, or the client retires or closes the transport.  Over    *)
(* the native link both happen on the loop.                                   *)
Drop ==
  /\ kind # "native" \/ LoopFree
  /\ \/ up = "up" /\ up' = "broken"
     \/ up # "down" /\ up' = "down"
  /\ UNCHANGED <<linkVars, kind, session, passVars, registry, bound, holder, waiters,
                 task, closed>>

-----------------------------------------------------------------------------
(* _reapply_subscriptions(): the token is read before the lock is taken.      *)
PassStarts ==
  /\ connect = "opened"
  /\ token' = IF kind \in {"native", "mqtt"} THEN session ELSE 0
  /\ \/ LockFree /\ holder' = Pass /\ connect' = "reconcile" /\ UNCHANGED waiters
     \/ Queue(Pass) /\ connect' = "waiting" /\ UNCHANGED holder
  /\ UNCHANGED <<linkVars, transportVars, todo, current, lastToken, ready, registry, bound,
                 task, closed>>

PassGranted ==
  /\ connect = "waiting" /\ Granted(Pass)
  /\ holder' = Pass /\ waiters' = Tail(waiters) /\ connect' = "reconcile"
  /\ UNCHANGED <<linkVars, transportVars, todo, current, token, lastToken, ready, registry,
                 bound, task, closed>>

ReconcileTrusting ==         \* mutant: bindings outlive the session they were made on
  /\ connect = "reconcile"
  /\ Unbind(bound \ registry)
  /\ bound' = IF token = 0 THEN {} ELSE bound \cap registry
  /\ todo' = registry /\ connect' = "loop"
  /\ UNCHANGED <<transportVars, current, token, lastToken, ready, registry, holder, waiters,
                 task, closed>>

(* A new session has none of the old bindings; bindings nobody wants any more *)
(* are taken off; without a token no binding is trusted.                      *)
Reconcile ==
  /\ connect = "reconcile"
  /\ LET kept == IF token # 0 /\ token # lastToken THEN {} ELSE bound IN
       /\ Unbind(kept \ registry)
       /\ bound' = IF token = 0 THEN {} ELSE kept \cap registry
  /\ todo' = registry /\ connect' = "loop"
  /\ UNCHANGED <<transportVars, current, token, lastToken, ready, registry, holder, waiters,
                 task, closed>>

PassSkips(s) ==
  /\ connect = "loop" /\ s \in todo \cap bound
  /\ todo' = todo \ {s}
  /\ UNCHANGED <<linkVars, transportVars, connect, current, token, lastToken, ready, registry,
                 bound, holder, waiters, task, closed>>

PassAdds(s) ==               \* mutant: a registration is added to the existing one
  /\ connect = "loop" /\ s \in todo \ bound
  /\ todo' = todo \ {s} /\ current' = s /\ connect' = "replaced"
  /\ UNCHANGED <<linkVars, transportVars, token, lastToken, ready, registry, bound, holder,
                 waiters, task, closed>>

(* Without a token, an existing registration is replaced.                     *)
PassReplaces(s) ==
  /\ connect = "loop" /\ s \in todo \ bound
  /\ todo' = todo \ {s} /\ current' = s /\ connect' = "replaced"
  /\ IF token = 0 THEN Unbind({s}) ELSE UNCHANGED linkVars
  /\ UNCHANGED <<transportVars, token, lastToken, ready, registry, bound, holder, waiters,
                 task, closed>>

PassBinds ==
  /\ connect = "replaced" /\ Takes
  /\ IF kind = "native"
       THEN RegisterNow(current) /\ bound' = bound \cup {current} /\ connect' = "loop"
       ELSE Register(current) /\ connect' = "binding" /\ UNCHANGED bound
  /\ UNCHANGED <<transportVars, todo, current, token, lastToken, ready, registry, holder,
                 waiters, task, closed>>

PassBound(r) ==
  /\ connect = "binding" /\ Entry(current, r) /\ Returned(r)
  /\ bound' = bound \cup {current} /\ connect' = "loop"
  /\ UNCHANGED <<transportVars, todo, current, token, lastToken, ready, registry, holder,
                 waiters, task, closed>>

(* A registration the transport refuses fails the whole connect: run_connect  *)
(* hands the error to its caller and retires the transport.                   *)
GivenUp ==
  /\ connect' = "idle" /\ up' = "down" /\ current' = None /\ todo' = {}
  /\ UNCHANGED <<kind, session, token, lastToken, ready, registry, bound, waiters, task, closed>>

PassFailsHolding(r) ==       \* mutant: the lock is not released on an error
  /\ connect = "binding" /\ Entry(current, r) /\ Raised(r)
  /\ GivenUp /\ UNCHANGED holder

PassFails(r) ==
  /\ connect = "binding" /\ Entry(current, r) /\ Raised(r)
  /\ GivenUp /\ holder' = None

PassFindsNoCarrier ==
  /\ connect = "replaced" /\ ~Takes
  /\ GivenUp /\ holder' = None /\ UNCHANGED linkVars

PassEndsBlindly ==           \* mutant: what was closed meanwhile is not looked for
  /\ connect = "loop" /\ todo = {}
  /\ lastToken' = token /\ ready' = TRUE
  /\ connect' = "idle" /\ current' = None /\ holder' = None
  /\ UNCHANGED <<linkVars, transportVars, todo, token, registry, bound, waiters, task, closed>>

(* What was closed while a registration was in flight is taken off again.     *)
PassEnds ==
  /\ connect = "loop" /\ todo = {}
  /\ Unbind(bound \ registry) /\ bound' = bound \cap registry
  /\ lastToken' = token /\ ready' = TRUE
  /\ connect' = "idle" /\ current' = None /\ holder' = None
  /\ UNCHANGED <<transportVars, todo, token, registry, waiters, task, closed>>

-----------------------------------------------------------------------------
(* _listen(): register() runs as the operation of a connect, under the        *)
(* connection lock; retire() may come while it waits.                         *)
StreamRegisters(h) ==
  /\ LoopFree /\ h \in Streams /\ task[h] = "idle" /\ up = "up" /\ ready /\ connect = "idle"
  /\ \A g \in Streams : task[g] # "binding"
  /\ IF kind = "native"
       THEN RegisterNow(h) /\ task' = [task EXCEPT ![h] = "live"]
       ELSE Register(h) /\ task' = [task EXCEPT ![h] = "binding"]
  /\ UNCHANGED <<transportVars, passVars, registry, bound, holder, waiters, closed>>

StreamRegistered(h, r) ==
  /\ LoopFree /\ h \in Streams /\ task[h] = "binding" /\ Entry(h, r)
  /\ \/ h \notin closed /\ Returned(r) /\ task' = [task EXCEPT ![h] = "live"]
     \/ ReturnedLate(r) /\ task' = [task EXCEPT ![h] = "failed"]
     \/ Raised(r) /\ task' = [task EXCEPT ![h] = "failed"]
  /\ UNCHANGED <<transportVars, passVars, registry, bound, holder, waiters, closed>>

StreamRetires(h) ==
  /\ LoopFree /\ h \in Streams \ closed /\ task[h] \in {"binding", "live"}
  /\ closed' = closed \cup {h} /\ Unbind({h})
  /\ UNCHANGED <<transportVars, passVars, registry, bound, holder, waiters, task>>

-----------------------------------------------------------------------------
ThreadStep(r) ==
  /\ Land(r) \/ (kind \in Refusing /\ Refuse(r)) \/ Settle(r) \/ TakeBack(r)
  /\ UNCHANGED clientVars

SubscribeStep(s) ==
  \/ OnNow(s) \/ OnLater(s) \/ OnConnected(s) \/ AddNow(s) \/ AddWaits(s) \/ AddGranted(s)
  \/ \E r \in DOMAIN reg : AddBound(s, r) \/ AddFails(s, r)

PassStep ==
  \/ PassStarts \/ PassGranted \/ Reconcile \/ PassBinds \/ PassEnds
  \/ \E s \in todo : PassSkips(s) \/ PassReplaces(s)
  \/ PassFindsNoCarrier
  \/ \E r \in DOMAIN reg : PassBound(r) \/ PassFails(r)

Next ==
  \/ \E s \in Subs : SubscribeStep(s) \/ AddCancelled(s) \/ Close(s) \/ Unsubscribe(s)
  \/ \E h \in Streams :
       StreamRegisters(h) \/ StreamRetires(h) \/ \E r \in DOMAIN reg : StreamRegistered(h, r)
  \/ BeginConnect \/ SessionOpens \/ ConnectFails \/ Drop
  \/ PassStep
  \/ \E r \in DOMAIN reg : ThreadStep(r)

Spec == Init /\ [][Next]_vars

(* What the application does (subscribing, closing, connecting) and what the  *)
(* hub does (dropping the link) need never happen.  While a coroutine is      *)
(* ready or a thread runs, one of them goes on, and a connect ends within its *)
(* timeout.                                                                   *)
Progress ==
  \/ PassStep
  \/ \E s \in Subs : AddNow(s) \/ AddWaits(s) \/ AddGranted(s)
  \/ \E r \in DOMAIN reg :
       \/ ThreadStep(r)
       \/ \E s \in Subs : AddBound(s, r) \/ (Raised(r) /\ AddFails(s, r))
       \/ \E h \in Streams : StreamRegistered(h, r)

FairSpec == Spec /\ WF_vars(Progress) /\ WF_vars(SessionOpens \/ ConnectFails)

-----------------------------------------------------------------------------
Calls(s) == {r \in attached : reg[r].owner = s /\ ~reg[r].discarded}

(* An event reaches a subscription's handler at most once, whatever sessions  *)
(* were opened and whatever else was subscribing meanwhile                    *)
(* (client.py:1069-1123, 1045-1051).                                          *)
AtMostOnce == \A s \in Subs : Cardinality(Calls(s)) <= 1

(* While the session is ready every registered subscription is on the         *)
(* transport: none was lost between a background task, the pass and a         *)
(* registration that outlived the session it was meant for.                   *)
EveryOneIsCalled == ready => \A s \in registry : Calls(s) # {} /\ s \in bound

(* While the session is ready the transport calls no handler whose            *)
(* subscription is gone: one closed during the reconnect is not restored.     *)
NoneRestored ==
  ready => \A s \in Subs \ registry :
             \A r \in Calls(s) : reg[r].awaited

(* Neither the lock, which the pass holds across registrations of its own, nor *)
(* a registration whose caller has gone keeps a subscriber or a connect        *)
(* waiting for ever: the queue empties and the connect ends.                   *)
Settles == []<>(LockFree /\ connect = "idle")

(* The table of the link is used only as SyncLink describes.                  *)
LinkRespected == [][kind = "native" \/ LinkNext]_linkVars

(* An event reaches each handler that is subscribed, once, and no other: across*)
(* sessions, background registrations and closes made meanwhile                *)
(* (client.py:1030-1123).                                                      *)
EachCalledOnce == AtMostOnce /\ EveryOneIsCalled /\ NoneRestored
=============================================================================
