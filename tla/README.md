# A TLA+ model of the Thalovant Python SDK

This directory holds TLA+ specifications of the SDK in `src/`, the TLC
configurations that check them on small instances, and proofs that TLAPS checks
for every value of the constants. `PROJECT.json` is the index: components, runs,
the lines each definition models, findings, hazards and theorems.

Source paths below are relative to `src/src/thalovant/`.

1. [The system](#1-the-system)
2. [Modules](#2-modules)
3. [What the runs check](#3-what-the-runs-check)
4. [What is proved](#4-what-is-proved)
5. [Where the code does something else than it says](#5-where-the-code-does-something-else-than-it-says)
6. [Not modelled](#6-not-modelled)
7. [What is next](#7-what-is-next)

## 1. The system

An application talks to a Thalovant hub through a client object. The client is
asyncio at its core; a synchronous facade runs the same code on a private
event-loop thread.

```text
 application tasks / threads
        |  connect, ask, emit, on, listen, close
 AsyncThalovantClient (client.py) ------------- ThalovantClient: facade on a
        |                                       private loop thread (_loop.py)
   link: NativeLink | SyncLink (_link.py)
        |                      \
 AsyncHiveMindTransport        a synchronous transport in worker threads:
   (_hive.py), one carrier:    MQTT (transport.py) or one of the application
   WSS or HTTPS
        |
 NoiseClientProtocol (_noise_runtime.py): pins, PSK, KK or XX, frames (_noise.py)

 HubSession / AsyncHubSession (session.py), answer_home_requests (home.py): long-lived
 users of a client.     ThalovantControlPlane (control.py, chat_apps.py): the account API.
 intents.py, listing.py, _language.py: what a hub can be asked, over the client.
```

| Component | State it keeps | Operations | What makes it correct | What is hard about it |
|---|---|---|---|---|
| client life cycle, `client.py` 298-350, 374-520, 560-886 | ownership token, `_connected`, `_closing`, `_automatic_cleanups`, `_close_errors`, `_connection_generation`, `_cancel_connect`, the supervisor task | `connect`, a query send that connects, `close`, `wait_closed`, redial | one attempt drives the transport at a time; a closed client is quiet; a close wins over what began before it; every call returns; a dropped link comes back | deadlines and cancellation at any await; attempts outlive their callers; failed cleanups |
| HiveMind transport, `_hive.py` 250-960 | `_carrier`, `_generation`, `_connecting`, `_closing`, `stopped`, `_failed_cleanup`, the attempt and reader tasks | `connect` (KK, then XX), the read loop, sends, `disconnect`, `_retire_connection` | only the current attempt makes the link; nothing the hub holds is forgotten; a disconnect is final | generations, shielded cleanups, cancellation before the first step |
| HTTPS carrier, `_hive.py` 1160-1369 | admission, replica cookie, the request lock, the polled queue | open, poll, send, close | frames are read in order or the session ends; an admission known is released | answers lost before or after the hub acted; replicas |
| MQTT transport, `transport.py` | connection flags, generation, receive queue, worker | connect, disconnect, paho callbacks | no socket is left, no frame skipped; a disconnect ends the dial it meets | callbacks on the network thread, late dials |
| subscriptions, `client.py` 940-1166 | live subscriptions, the bindings of a session | `on`, `on_hive`, close, the reconciling pass | a subscription outlives sessions and runs once per event; a closed one never runs | callbacks during registration, session tokens |
| link adapters, `_link.py` | the registration table of a synchronous transport | bind, unbind, discard, probe | what was registered is removed exactly once, whoever wins | worker threads against the loop |
| asks, streams, conversations, `client.py` 1168-2270, `events.py` | reply claims, collectors, buffers, the memory of turns | `ask`, `query`, `send_utterance`, `listen`, `wait_for_event` | an answer is claimed by the ask it belongs to; nothing is asked twice; every call ends; no event is lost silently | refusals that name no request, settle windows, overflow, ids that change |
| Noise runtime, `_noise_runtime.py` | pins, static key, PSK cache, handshake state | negotiation, pinning, key adoption | one hub key is trusted; an old password never locks a program out; one static key | KK or XX, several programs on one folder, crashes |
| framing, `_noise.py` 186-218, 466-545 | nonces, partial messages | seal, open, reassemble | whole messages in order, or an error | chunk and counter boundaries, cancelled writers |
| loop and handler threads, `_loop.py` | the loop and its thread, the handler queue | start, run, stop, fork | no call is left waiting; handlers run in order | start against stop |
| session supervisor, `session.py` | current client, ladder, refusals, retry time | `ask`, `warm`, `probe`, `run`, `on`, `close` | one client at a time, carrying every handler; gives up only after a whole grace; stop ends it | retirements that fail, late drops |
| home link, `home.py` | slots of handler threads, tasks | answer, unsubscribe | stuck handlers silence no request | handlers that never return |
| control plane, `control.py` | token and its id, device codes, polling state | sign in, revoke, shared configuration, waits, connections | the token in use is the one named; each change is atomic; verdicts are true | lost answers, other writers, `slow_down` |
| chat applications, `chat_apps.py` | none (the bridge is the API's) | create, update, rotate | nobody's edit is undone, no secret is shown or overwritten by its mask | two editors, stale pages |
| intents and languages, `intents.py`, `listing.py`, `_language.py` | the windows of a query | list, describe, rank, match languages | what is shown is what the hub said, in the closest language | late, missing and unnamed answers |
| wire, identity, answers, refusals | none or a file | encode, decode, read | read as it was written or said | boundaries |

Components interact by calls on one event loop (client, link, transport), by
worker threads (SyncLink, file access, argon2id), by callbacks (deliveries,
paho) and by events (`stopped`, the release of ownership).

## 2. Modules

| Module | Models | Checked in |
|---|---|---|
| `ClientLifecycle` (`_proofs`) | the connection life cycle of `AsyncThalovantClient` | `client`, `client_live` (both over `MCClientLifecycle`) |
| `HiveTransport` (`Transports_proofs`) | the connection life cycle of `AsyncHiveMindTransport` | `transports` (`MCTransports`), `hive_https` |
| `HttpsCarrier` (`Transports_proofs`) | `_HTTPCarrier`: admission, polls, sends, release | `transports` |
| `MqttTransport` (`Transports_proofs`) | `HiveMindMQTTTransport`: dials, worker, disconnect | `transports` |
| `SyncLink` (`Subscriptions_proofs`) | the registration table of `SyncLink` | through `Subscriptions` |
| `Subscriptions` (`_proofs`) | subscriptions across sessions; extends `SyncLink` | `subs`, `subs_mqtt` |
| `Asks` (`_proofs`) | asks, queries and utterances of one client | `asks` |
| `ConversationMemory` (`Asks_proofs`) | what is carried from turn to turn | `turns` (`MCTurns`) |
| `EventStream` (`Threads_proofs`) | `listen()` and `wait_for_event()` | `turns` |
| `NoiseNegotiation` (`Noise_proofs`) | the handshakes of programs that share a folder | `noise` (`MCNoise`) |
| `StateFolder` (`Noise_proofs`) | the static key, its adoption, crashes | `noise` |
| `NoiseFrames` (`Noise_proofs`) | chunks, markers and counters of a session | `noise` |
| `HubSession` (`Sessions_proofs`) | the threaded session, `warm()`, `probe()` | `session` (`MCSession`) |
| `AsyncSession` (`Sessions_proofs`) | `AsyncHubSession` and `LinkSupervisor` | `session` |
| `HomeLink` (`Sessions_proofs`) | answering home requests | `session` |
| `OriginPreference` (`Sessions_proofs`) | a LAN address first, then the public path | `session` |
| `SignIn` (`Control_proofs`) | tokens, device codes, revocation | `control` (`MCControl`) |
| `AtomicConfig` | what a shared configuration promises (abstract) | `control`, as a property |
| `ConfigMerge` (`Control_proofs`) | `update_runtime_group_config()`, shown to implement it | `control` |
| `OperationWait` (`Control_proofs`) | waits for operations, admissions and skills | `control` |
| `Connections` (`Control_proofs`) | connections created and deleted | `control` |
| `ChatApps` (`Control_proofs`) | bridges that two people edit | `control` |
| `HubListing` (`Subscriptions_proofs`) | a listing in several languages with its fallbacks | `hub` (`MCHub`) |
| `BusQuery` (`Subscriptions_proofs`) | single queries and describe windows | `hub` |
| `LoopThreads` (`Threads_proofs`) | the two threads of a synchronous client | `hub` |
| `Languages`, `Correlation` (`Asks_proofs`) | the closest language; the ids of requests and events | `hub` |
| `Wire`, `Phrases`, `Hubs`, `Answers` | the other pure parts | `hub` |

**One action is what one task does between two awaits.** That is the atomicity
asyncio gives: between two awaits nothing else on the loop runs. Where an
`await` in the code never suspends (the probe of `NativeLink`, an
`_Ownership.wait_released` on a free token) the action goes on past it.
Cancellation reaches a task at its next await; an action that follows an await
has a disjunct for it. In modules about threads an action is a stretch under a
lock, or one blocking call.

**Time is a flag or a small clock.** Where only the order of a deadline and an
event matters, a deadline "may have passed" (`DeadlinePasses`, `Elapse`, `late`);
where intervals are compared (`OperationWait`, `HomeLink`, the ladder of
`AsyncSession`), there is a clock of whole units, and what is due is done before
it moves on.

**An MC module of several parts** starts in one of them and leaves the others'
variables alone: a behaviour is one of one part. The parts share no state in the
code either; where they do (a client and its link) the module of the one holds
what it sees of the other.

### The client and its links

A connect call is two tasks, and `ClientLifecycle` keeps them apart: `caller[c]`
is `_connect` itself, `task[c]` is `run_connect`, which owns the token until its
work and its cleanup are over. `outcome[c]` is what the closure's `done`,
`cancelled` and `errors` say, `opened` is `transport_completed`, `retiring` the
attempts whose `disconnect()` task runs. `slot` is `_cancel_connect`.
`_connection_generation` is only ever compared with an earlier reading, so
`snapshot`, the set of readers whose reading is still current, stands for it:
`close()` empties it. `linkUp` is what the transport's `is_connected()` says; the
module takes `stopped` to be its negation. The supervisor is `sup` and its own
`connect` is the call `Redial`. `Native` chooses the link: the probe of
`NativeLink` does not suspend, the one of `SyncLink` runs in a worker thread and
answers later (`ProbeAnswers`), possibly with a state that has changed since.
`MCClientLifecycle` puts both kinds in one run, each an instance of the module.

In `HiveTransport` attempts are numbered and share the number with the carrier
they make. `current` is the attempt whose generation equals `_generation`
(`None` after a disconnect bumped it). `cancelled` holds attempts whose task was
cancelled and has not noticed; `cleanup[c]` is the carrier's shared
`cleanup_task`; `failedCleanup` is the one slot `_failed_cleanup`; `held` is what
the hub has of this client, which is how the model can tell that one was
forgotten. `broken` carriers have ended without the read loop having noticed, the
window that `is_connected()` closes with `carrier.alive()`. A task made by
`ensure_future` runs its first step a turn later; `Settled` says in which of those
turns an application may call. With `SameTurn = TRUE` (`hive_https`) it may in the
one in which an attempt exists and has not begun; a disconnect then cancels a task
that never runs, and the old carrier it was handed is closed by nobody, so
`transports`, which checks that nothing is forgotten, has `SameTurn = FALSE`.

The HTTP session a transport opened is no variable: what its closing does is to
break the carriers on it (`OnSession`, `SessionCloses`), every one of them over
WSS, any of them over HTTPS, where a request under way fails and the next makes a
new session. `release_session()` spares a session that is in use; the tail of the
read loop does not ask (`ending`, `ReaderDone`; section 5), so the link that took
over may lose its carrier to it. It then goes down as one whose carrier ended, and
`EndsForAReason` says that this, a connect over a broken link and a disconnect are
the only ends there are, and that each tells whoever waits on `stopped`.

`HttpsCarrier` keeps the hub's side of an admission: which replica holds it, what
it has queued, and for each request whether it or its answer was lost. Requests
take turns as under `_request_lock`. `unheard` are replicas whose answer to
`/connect` was lost: the hub holds an admission the client never learnt of.
`MqttTransport` has one entry per paho client and per dialing thread; `flags` are
the three events of a link, `inbox` the receive queue with its stop mark.

In `SyncLink`, `reg` is the list of every `_Registration` made, oldest first; a
registration is known by its place in it, so that `_take`'s choice of the newest
is a comparison. `attached` is what the transport would call. The thread of `bind`
takes up to three steps and everything on the loop may fall between them.
`Subscriptions` is the client's side: `registry`, `bound`, `ready`, the lock with
its queue, and the pass of `_reapply_subscriptions`, several actions long between
its awaits; `LoopFree` keeps other loop actions out of them and lets threads in.
`kind` is the link: `native`; `mqtt`, with tokens and handlers that outlive a
session; `keeping` and `clearing`, transports of an application's without tokens.

### Turns of a conversation

`Asks` follows an utterance from its reservation to the end of its collector.
`verdict[c]` is the collector's, `spoke` and `failure` what it has collected,
`window` the settle or the empty-reply window, `recent` the untracked sends that
could own a refusal. The hub may answer any utterance in any order, speak, fail,
refuse without a name, or fall silent. `ConversationMemory` files the state of a
handled frame under every id that reaches the conversation; `latest`, `recency`
and `evicted`, the turns whose state was dropped for want of room, are history the
properties compare the memory with. Its loops go in the code's order, id by id,
and are recursive functions. `Steady` are conversations a hub answers under one id
(`SteadyShape`): where it changes the id on every turn and turns overlap, the memory
cannot know them to be one. `EventStream` numbers
the events that match; its setup task, its expiry and its consumer are separate,
because the consumer may be paused at a `yield` while the others go on.

### Sessions, the folder and the API

`NoiseNegotiation` lets two programs with one folder meet a hub that may change
its key and its password; a message is what its reader can tell of it. `trusts`
and `epoch` record whom a program's session is with, and how often the pin was
forgotten. `StateFolder` breaks key adoption into the file operations a crash can
separate. `NoiseFrames` gives a frame its counter and marker and lets the network
lose, repeat and swap frames.

`HubSession` is about `_busy`, `_lock` and the client that would not close;
`AsyncSession` about the fair `asyncio.Lock` shared by `run()`, calls and
`close()`, with `bound` for what the session has wired on each client and `left` for
a client whose `close()` raised, which the session suppresses and forgets; `HomeLink` about slots, deadlines and the write lane;
`OriginPreference` about the resolver the process shares.

`SignIn`'s tokens carry the name of the sign-in that minted them. `ConfigMerge`
has the snapshot, the body and the fate of each conditional write; `landed` is
what the API applied. `AtomicConfig` is its abstract specification: each writer
changes the configuration in one step, or not at all, and is told the truth.
`OperationWait` has a clock, `notBefore`, `hindered` and what the last read `said`: a
4xx or an answer that cannot be read ends an admission as failed, with a status or
without (`refused`, `unusable`). `ChatApps` keeps the
bridge as the API does: fields, settings, a vault it never sends back, a version.

The pure modules are operators over small records: a JSON value is what it is and
what is in it, a language tag a sequence of subtags, a frame a sequence of bytes.
`MCHub` enumerates their inputs, each a state that is checked once.

## 3. What the runs check

Every run finishes in about two minutes or less on two workers. Deadlock is not
checked: an application may stop calling, so a state in which nothing is left
to do is a legal end; that the work under way ends is what the liveness
properties say. Most properties are conjunctions of named parts, each stated and
commented in the module of its component.

| Run | Instance | Property | Its parts, or what it says |
|---|---|---|---|
| `client` | native link: one caller, the redial, two closes; synchronous link: two callers, one close; cleanups may fail | `OneOwner` | one owner of the token, and it is held exactly while that owner works |
| | | `ClosedIsQuiet` | a client that counts as closed has no cleanup or close left |
| | | `NoDialOverFailedCleanup` | nothing dials over a cleanup that failed |
| | | `CleanupStaysWithOwner` | a cleanup ends while its attempt still owns the connection |
| `client_live` | native link, one caller, the redial, one close, cleanups succeed; synchronous link, one caller, no close | `CallsEnd` | `CallsReturn`, `ClosesEnd`, `OwnershipReturns` |
| | | `DropIsRedialled` | a dropped link comes back when the hub can be reached again |
| | | `NoReadyAfterClose` | what began before a close reports no readiness after it |
| `transports` | WSS: three attempts, two callers, two disconnects, KK refusals. MQTT: two dialers, two clients, queue of one. HTTPS: two replicas, two carriers, three frames, one restart | `OpenIsAccounted` | `LiveIsCurrent`, `NothingForgotten`; `ConnectedIsCurrent`, `NoStraySocket`; `HeldIsKnown` |
| | | `FramesInOrder` | `NoFrameSkipped`; `NoFrameLost`, `EndIsHeard` |
| | | `LinksEndForAReason` | `EndsForAReason`; `MqttEndsForAReason` |
| `hive_https` | three attempts, one caller, two disconnects, closing may fail | `DisconnectIsFinal` | no connect made before a disconnect brings the link up after it |
| | | `CallsEnd` | `ConnectsEnd`, `DisconnectsEnd`, `FlagsClear` |
| `subs` | one subscription of `on()`, one of `on_hive()`, one stream, two sessions; links `native`, `keeping`, `clearing` | `NothingLeft` | no retired registration stays on the transport |
| | | `EachCalledOnce` | `AtMostOnce`, `EveryOneIsCalled`, `NoneRestored` |
| | | `LinkRespected` | the client uses the table only as `SyncLink` says |
| | | `Settles` | the lock comes free, the work under way ends |
| `asks` | two asks, a query, a send; two calls in all, two attempts each; one `close()` of the application | `VerdictIsItsOwn` | a refusal, an answer or a miss counts for the utterance it is of |
| | | `OnceAndOver` | published at most once; nothing listens after the end |
| | | `EveryCallEnds` | whatever the hub and the network do |
| `turns` | three turns of three conversations, seven ids, two remembered; a stream of four events with a buffer of two | `MemoryIsTrue` | what is carried is the latest turn's, by every id; the least recent goes |
| | | `StreamIsTrue` | `NoGap`, `CleanEndIsComplete`, `NothingStaysSubscribed` |
| | | `TimedStreamMoves` | who waits with a timeout gets an event or an end |
| `noise` | two programs, two hub keys, two passwords, one fault; two programs of one folder, two crashes; messages of one, two and four chunks, one network fault | `KeysAgree` | `OneTrust`; `OneKey`, `KnownKeyStays`, `KeyComesWithPin` |
| | | `MessagesAreWhole` | what is delivered was sent, whole, in order |
| | | `EveryoneIsTold` | `Converges`, `TrueVerdict` |
| `session` | threads: two callers, three clients, one failed close; asyncio: two links, any of their closes failing, two changes of the hub; home: three requests, one slot; two origins | `OneOfEach` | `OneSession`, `CallsAreLeftAlone`, `ClosedForGood`; `OneLink`, `ClosedStaysClosed`; `OneAttempt`, `ResolverRestored` |
| | | `HandlersAreCarried` | `Carries`, `CarriesWhatIsWanted` |
| | | `StuckHandlersAreBounded` | `SlotsAreThreads`, `StuckHandlersSilenceNothing` |
| | | `NothingActsLate` | `NeverHasty`, `OwnLinkOnly`, `TimeoutIsTrue`, `QuietAfterUnsubscribe` |
| | | `EverythingEnds` | `WarmEnds`, `RunEnds`, `RefusalsEnd`, `EveryRequestEnds` |
| `control` | a password sign-in, two pollers, two revokes; three writers; one wait of each kind; two creations, one deletion; two editors | `TokensAreRight` | `RevokedIsDead`, `IdNamesTheToken`, `SlowDownsAdd` |
| | | `CallsAreTrue` | `VerdictIsTheOperations`, `ReadyIsSeen`, `InTime`, `SlowDownKept`; `NoStrangerLeft`, `KindIsKept`, `DeletedIsGone` |
| | | `EditsAreKept` | what a caller changed is there, and nothing another one did is undone |
| | | `WaitsEnd` | `LoginEnds`, `WaitEnds` |
| | | `ImplementsAtomic` | `ConfigMerge` implements `AtomicConfig` |
| | | `KeepsTheRest` | a merge keeps every key it does not name |
| `hub` | five tags, six queries, five handlers, three loops, and the enumerated inputs of `MCHub` | `SaidIsRead` | `WireIsRead`, `AnswersAreRead`, `RefusalsAreRead`, `EventsBelong`, `HubIsDialled`, `LanguagesAreMatched`, `SentencesAreShown`: everything is read as it was said, and shown in the closest language |
| | | `ListingIsTrue` | rows are of the language they are shown under, and nothing a hub listed is exchanged for less |
| | | `AnswersAreKept` | what was heard in time is in the answer, and only silence is told as silence |
| | | `WorkIsDone` | `NoneLeftWaiting`, `InArrivalOrder` |
| `subs_mqtt` | expected to fail | `AtMostOnce` | see section 5 |

### Bounds, and why they are enough

A caller of the client may call again and again, so one caller already meets its
own earlier attempt and the redial's; two meet each other. Each close is one call,
and two are needed for `_closing` to exceed one. Three attempts on the transport
are the fewest in which a cleanup of the first can still run when the second has
failed and the third is up. Two paho clients are an old one and its successor; a
queue of one overflows with two frames. Two carriers let what the first left meet
the second; a second replica is what makes a cookie matter.

Two sessions let every kind of subscription be made before, during and between
them, and the second reconcile what the first left; five registrations are all
that two sessions, two subscriptions and a stream can make. Two calls overlap in
every way one refusal can be misread; a third turn is needed to evict one of two
remembered conversations; a buffer of two overflows with a third event.

A second hub key and password each change once, which is every order of a change
and a handshake; the second crash may hit the recovery from the first. Chunks of
two and a cap of six give messages that end in the middle of a chunk, at its end,
and beyond the cap. Three clients are one that died, its successor and one that
must not be built. Three grace steps and a ceiling of two let the ladder reach its
top before the grace is over. Timeouts of operations are longer than two polls and
one read, and no multiple of the interval. Three writers are two that conflict and
one that replaces. Patterns have up to five tokens, so that brackets nest.
Every hub resource meets every kind of `initial_identify`: none, and one without a
master, with an HTTPS one and with a WSS one.

`MaxAttempts`, `MaxClients`, `MaxCalls`, `MaxHeard`, `MaxFaults`, `MaxCrashes`,
`MaxNetworkFaults`, `MaxRestarts`, `MaxMoods`, `MaxVersion` and the other `Max`
constants that no code names are bounds of the model, in the guards of the actions
that would exceed them. `MaxTries`, `MaxBuffered`, `MaxAliases`, `MaxRemembered`,
`QueueSize`, `Attempts`, `Slots`, `Batch` and `ReassemblyCap` are limits of the code,
made small.

Symmetry is used where callers, closes, dialers, replicas or turns are
interchangeable and the property is not temporal; `turns` also has
`TimedStreamMoves`, about a part none of the permuted values occurs in.

Every module with variables of some complexity states its type invariant
(`TypeOK`, or its name followed by `TypeOK`). They hold in these instances and are
the first conjunct of the inductive invariants; the configurations list the
properties that could be wrong for a deeper reason.

### Fairness

Weak fairness of each task's own steps, never of what an application, a hub or a
network chooses to do. The loop runs every task that can go on; requests, cleanups
and handshakes have timeouts in the code (`send_timeout`, `handshake_timeout`, the
two seconds of the HTTPS disconnect) so each ends, one way or the other; a deadline
passes. Nobody has to call, no dial has to succeed, no answer has to come.
`DropIsRedialled` has its assumption about the hub, `HubReturns`, as its
hypothesis. `Converges`, `TrueVerdict` and `RefusalsEnd` are about a program that
keeps connecting to a hub that stays as it is. In `Subscriptions` the fairness is
of the threads and coroutines together and of the end of a connect. In `HomeLink`
and `OperationWait` the clock moves.

## 4. What is proved

Eight modules hold the theorems. Each names an inductive invariant, has a lemma
per group of actions that keeps it, and draws the properties from it. Constants
are arbitrary, under the `ASSUME`s of the component's module; "if" below is a
further hypothesis of the theorem. The theorems of `AllSpec`, `ControlSpec` and
the `Spec`s of `MCNoise` and `MCSession` are about the composition a run checks,
the others about the specification of one component.

| Module | Theorem | Says |
|---|---|---|
| `ClientLifecycle_proofs` | `TypeCorrect` | `[]TypeOK` |
| | `OwnershipIsExclusive` | `[]OneOwner` |
| | `ClosedMeansQuiet` | `[]ClosedIsQuiet` |
| | `CleanupIsOwned` | `CleanupStaysWithOwner` |
| | `NoDialOverCleanup` | `NoDialOverFailedCleanup` |
| | `CloseCanCancel`, `CloseIsFinal` | if `Native`: `[]CloseReachesOwner`, `NoReadyAfterClose` |
| `Subscriptions_proofs` | `NothingIsLeft`, `SubscriptionsLeaveNothing` | `[]NothingLeft`, of the table and of the client over it |
| | `LinkIsRespected` | `LinkRespected` |
| | `EventsReachEachOnce` | if no link is `mqtt` and only `clearing` ones refuse: `[]EachCalledOnce` |
| | `ListingsAreTrue` | if every hub spells a language in one way (`SpeltOnce`): `[]ListingIsTrue` |
| | `QueriesKeepAnswers` | `[]AnswersAreKept` |
| `Transports_proofs` | `HiveTypeCorrect` | `[]TypeOK` |
| | `DisconnectIsFinalIfKKHolds` | if `~KKMayFail`: `DisconnectIsFinal` |
| | `OnlyARetryOutlivesDisconnect` | what is left of it without that hypothesis |
| | `LinkIsCurrent` | if `~SameTurn`: `[]LiveIsCurrent` |
| | `HubHoldsNothingForgotten` | if `~SameTurn` and `~CleanupMayFail`: `[]NothingForgotten` |
| | `MqttSessionsAreWhole`, `MqttLinksEndTruly` | `[](NoStraySocket /\ NoFrameSkipped /\ ConnectedIsCurrent)`, `MqttEndsForAReason` |
| | `HttpsSessionsAreWhole` | `[](HeldIsKnown /\ NoFrameLost /\ EndIsHeard)` |
| | `FramesComeInOrder` | `[]FramesInOrder` |
| | `OnlyAFailedCleanupDrops` | if `~SameTurn`: `EndsForAReason` or a cleanup fails in that step |
| | `WhatIsOpenIsAccounted`, `LinksEndTruly` | if `~SameTurn` and `~CleanupMayFail`: `[]OpenIsAccounted`, `LinksEndForAReason` |
| `Asks_proofs` | `AskTypeCorrect`, `AskVerdictIsItsOwn`, `AskOnceAndOver` | `[]AskTypeOK`, `[]VerdictIsItsOwn`, `[]OnceAndOver` |
| | `TrueByInvariant`, `MemoryTellsTheTruth` | `[]MemoryIsTrue` |
| | `RequestsAreCorrelated` | `EventsAreCorrelated`, for contexts of any strings |
| | `ClosestIsFound` | `ClosestIsClosest`, for any tables and any list of languages |
| `Threads_proofs` | `NobodyWaitsOnAClosedLoop` | `[]NoneLeftWaiting` |
| | `HandlersRunInOrder` | `[]InArrivalOrder` |
| | `WorkGetsDone` | `[]WorkIsDone`, of both threads, as the run checks it |
| | `StreamsTellTheTruth` | `[]StreamIsTrue` |
| `Sessions_proofs` | `OneLinkOfEach` | `[]OneOfEach` |
| | `CurrentCarriesTheHandlers` | `[]HandlersAreCarried` |
| | `StuckHandlersStayBounded` | `[]StuckHandlersAreBounded` |
| | `NothingActsTooLate` | `NothingActsLate` |
| `Noise_proofs` | `TrustIsKept` | `[](OneTrust /\ KnownKeyStays /\ KeyComesWithPin)` |
| | `KeysAlwaysAgree` | if `LateNames \subseteq {Unnamed}`: `[]KeysAgree` |
| | `MessagesStayWhole` | `[]MessagesAreWhole` |
| `Control_proofs` | `TypeCorrect`, `OthersKept` | `[]TypeOK` of `ConfigMerge`, `KeepsTheRest` |
| | `Refinement` | `ImplementsAtomic`: every step is a step of `AtomicConfig` or a stutter |
| | `CredentialsAreRight` | `[]TokensAreRight` |
| | `WaitsReportTrue`, `ConnectionsReportTrue`, `CallsReportTrue` | `[]CallsAreTrue`, by component and as the run checks it |
| | `EditsStay` | `[]EditsAreKept` |

The hypotheses are the cases the passing runs leave out for the reasons of
section 5: each is a place where the code does not do what the property says.
`CloseIsFinal` is of `Native` links because a close during the second probe of a
synchronous one is not seen; `KKMayFail`, `SameTurn` and `CleanupMayFail` are the
retry, the turn and the failed cleanup described there; an old folder with a name
that meets the hub late ends with two keys; the two links of
`EventsReachEachOnce` are the finding `subs_mqtt` and the pass that forgets its
bindings (`client.py` 1101); and two spellings of one language can put one's sentences
under another. `RequestsAreCorrelated` is of contexts that hold no empty session id,
over which `build_client_context()` would not fill in the client's.

### The inductive invariants

**Client** (`IInv`). `TypeOK` is not inductive: that `cleanups` and `closing` stay
natural numbers needs them to equal the work they count. To the types it adds
`OneOwner`; `CallersApart` (where a caller is fits the state of its own attempt);
`AttemptsFit` (the step an attempt is at fits its outcome); `CountersFit`;
`ClosedFits`. `Reachable` is proved on top of it for `Native` links, where no state
lies between taking ownership and setting `_cancel_connect`: a pending attempt is
in the slot a close cancels. For `NoDialOverFailedCleanup` `CleanStart` says that
who has passed the check and not dialled has no failed cleanup before it; the owner
of such a cleanup would own the connection, which `OneOwner` excludes.

**Subscriptions** (`LinkInv`, `CalledInv`). `NothingLeft` says nothing of a
registration in flight; `LinkInv` adds that where its thread is tells whether it is
pending, and that none still being added or refused is on the transport. The client
uses the table only by steps of `SyncLink` (`LinkUse`), so its lemmas carry over.
`EachCalledOnce` counts, for each subscription, what the transport holds of it:
one registration while it is bound (`OneHeld`, `HeldIsBound`), none before
(`NotYet`), and the pass, which walks a snapshot between awaits, has either reached
a subscription or still will (`Covered`). The lock has one holder (`Locking`), and
tokens tell a session from its successor (`Tokens`).

**Transports**. `HiveInv`: attempts are numbered, one at most is going and it is the
current one, the carrier is the current attempt's. `OvertakenAreOut`: no attempt a
disconnect overtook is anybody's. `LiveInv`: while an old carrier is closed, a
disconnect waits or a reader is awaited, the link is down and nobody makes one.
`HeldInv`: a closed carrier is not held and is not opened again, no task is cancelled
before its first turn, and a cleanup somebody waits for was started. Each
action's effect on an attempt is summarised once (`AttBegins` to `AttEnds`), and
that only a link that came up has a read loop is `ReadersAreUp`. `GivenUpInv` says of
MQTT that a closing transport has no client and nobody who could install one
(`ClosingHasNone`), and that whoever cleans up a client no longer has the current
one (`ClientIsCurrents`), which is why a late cleanup cannot end a later link.
`MqttInv`: who works at a generation owns it and its paho client
(`OwnGeneration`, `OwnClient`); what is in the queue is what comes next
(`QueueIsNext`); a client cleaned up is shut (`CleanedIsShut`). `CarrierInv`: the
request that is out is one the carrier wants, what the hub did for it is known
(`HubHasActed`), and frames read, in an answer, queued and to come follow each
other (`FramesFollow`).

**Listings** (`ListingInv`). Each language that is settled has rows, which are at least
what the hub listed in it or in its usual form (`Settled`, `AllServed`); whatever is
under a key came from a language that was asked, from its usual form, or from one the
hub has (`FromTheHub`); what a retry could improve on is not yet sentences (`RowsFit`).
`NothingIsLost` is the step that needs `SpeltOnce`.

**Queries** (`QueryInv`). What was heard and says something is in the window or in those
before it (`HeardIsHeld`); who no longer waits hears nothing (`SilentIsDeaf`); a single
query is one window (`OneWindow`).

**Memory** (`MemoryInv`). A group of ids is of one conversation and holds the state of a
turn of it (`GroupsAreWhole`), two groups share nothing (`GroupsAreApart`); the state
of the last handled turn is there unless it was dropped for room (`FiledIsKept`). Where
a hub changes ids, a reply and the next ask of a conversation do not overlap
(`OwedInTurn`, `HandledIsLatest`, `OneAtATime`), which is what lets the memory know its
turns to be one. `LeastRecentGoes` needs that each group was used (`GroupsAreUsed`).
What the loops of the store return is proved first: `LoopRuns` shows that a loop over
`1..N` has a run and `EachStep` that what holds at 0 and passes from `n - 1` to `n` holds
to the end, by the least number at which it would fail (`Least`), so that no induction
theorem with an operator parameter is needed. `ClosestIsFound` rests on the same two.

**Asks** (`AskInv`). An ended call is decided; who has not published has nothing out;
a send the hub still owes a refusal to is among the recent ones that may own it.

**Threads**. `LoopInv`: a call posted early has become a task by the time the shutdown
of its loop runs, and a task is over when the loop is empty (`EarlyKeepsUp`).
`HandlerInv`: each queue is the rest of what its thread was given, its stop mark last
(`QueueIsRest`), and what was given to earlier threads came earlier
(`GivenInOrder`). `StreamInv`: what was accepted is yielded or buffered and is all
that was heard for as long as the stream accepts (`AcceptedIsKept`); a stream is
retired by its end, its deadline, its last event or an error it reports
(`WhyRetired`); only a registration under way outlives that (`RetiredIsSilent`).

**Sessions**. `SessionInv` and `AsyncInv`: who works has the lock, and then nobody else
has a client in hand (`WorksAlone`, `WorkersHold`); a client is held, retired, or in
the hands of that one (`HeldOrRetired`, `OpenIsHeld`); what is wired is what is
wanted, less, on asyncio, what came while that client settled (`Carries`, `Wired`), and
that is wanted still (`LateIsWanted`). `HomeInv`: the slots taken are the
threads running, counted as a cardinality (`SlotsCount`), and nothing is older than
its bound. `OriginInv`: the wrapper of the resolver is the one dial's.

**Noise**. `TrustInv`: an epoch's sessions are with its pin. `KnownInv`: a folder is
pinned before it has a key (`PinFirst`); a device known to the hub presents that key
and a new one cannot come to another (`KnownDevice`, `NewDevice`). `FramesInv` gives
each sealed message the place its frames begin at (a function that exists, not a
variable) and says that frames, what is read and what is delivered agree with it.

**Control plane**. `ConfigInv`: a body that can still arrive is the merge of its
writer's own snapshot (`Carries`), what was applied was answered as applied
(`Landed`), what a caller is told is what the API answered (`Truth`); the refinement
mapping is the identity on `config`, `landed` and `told`, and what makes it work is
that a conditional write lands only on what it was computed from. `SignInInv`: a token is
minted for one sign-in, which is over or about to hear of it (`GivenOnce`), an answered
code stays what the answer says (`CodesStay`), and what a revoke is answered is true of
its token from then on (`RevokesFit`). `WaitInv`: the clock, the next poll and the deadline bound each
other (`Clocks`, `Due`), so a wait sees what was ready an interval ago (`Seen`).
`ConnInv`: a reply fits what the API did (`RepliesFit`, `MadeOnce`), and an etag is
no older than the attempt it was read for (`VersionsFit`). `ChatInv`: the body under
way says what its caller meant (`BodyFits`), what an editor read is the bridge as it is
or as it was at a lower version (`Held`), so a guarded choice of chats that is still
current holds every chat there is.

### What the proofs asked of the model

Some assumptions had to be said: a replica is not `NoReplica`, a missing file is no
key, a handler has one kind, `None` is no task, code or number, and a value passed
to a bridge says what it is. `AddGranted` is of a subscription that waits.
`ListingShape`, `QueryShape`, `SteadyShape` and `DistancesAre` say what languages,
queries, conversations and tables are. Three properties are stated so that they need
no recursion over sequences (`InArrivalOrder`, `NoFrameLost`, `NothingLost`), and
say what they said. Loops whose result a theorem is about are recursive functions
where they were folds (`ConversationMemory`, `ClosestLang`), merged mappings are
written out where they used `@@`, which the provers cannot expand (`BusQuery`,
`Correlation`), and a changed context is written as a record of its fields
(`Rewritten`). A map or a list in `ChatApps` is what it holds at its leaves, which
is all `_holds_secret` looks for. The proof about streams brought up the two reads
of the clock in one turn of the consumer (`DeadlineBetween`): a deadline that passes
between them ends the stream cleanly even if its setup was not over.

### What is only model-checked

- Liveness (`CallsEnd`, `DropIsRedialled`, `Settles`, `EveryCallEnds`,
  `TimedStreamMoves`, `EveryoneIsTold`, `EverythingEnds`, `WaitsEnd`): fairness and
  `ENABLED` are out of TLAPS's reach.
- `SaidIsRead`, apart from `EventsAreCorrelated` and `ClosestIsClosest`: `Wire`, `Phrases`
  and `Answers` are about nested data and declare `RECURSIVE` operators, `Hubs` filters
  fixed lists of protocols, and `UsualIsNear` depends on what CLDR's tables hold; they
  are checked over bounded inputs.
- The compositions that no run makes (section 6).

## 5. Where the code does something else than it says

`subs_mqtt` is the run that is expected to fail. `HiveMindMQTTTransport` never clears
its handler lists when it makes a new session, while its `session_token` tells the
client that they are gone (`transport.py` 353-366, 577): after a reconnect every
subscription is registered twice, after the next three times, and closing it takes
off the newest registration only.

The following statements are in the modules, are about what a docstring or a comment
says, and TLC finds each violated under the constants named. No passing run lists
them; the passing runs leave out, by their constants or by what their properties
except, exactly what breaks them.

| Statement | Under | What happens |
|---|---|---|
| `ClientLifecycle!DropIsRedialled` | `ClientLive.cfg` with `RetireMayFail = TRUE` | over HTTPS one failed cleanup of a redial is kept in `_close_errors` (`client.py` 650) and refuses every later redial (596) until the application closes the client; `CHANGELOG.md` 46: "A link the hub drops comes back by itself" |
| `ClientLifecycle!NoReadyAfterClose` | `Native`, `AutoReconnect`, `RetireMayFail` all `FALSE` | a close during the second probe of a connect over a synchronous transport (`client.py` 629) is not seen; 622: "closed before it became ready" |
| `HiveTransport!StoppedTells` | all flags `FALSE` | a connect takes over a broken link and is then overtaken by a disconnect: `stopped`, "set whenever the live connection ends" (`_hive.py` 275), stays clear and the supervisor waits on |
| `HiveTransport!DisconnectIsFinal` | `KKMayFail = TRUE` | a disconnect during the cleanup of a refused KK attempt does not stop the XX attempt (`_hive.py` 574, 598) |
| `HiveTransport!SessionLastsALink` | `Transports.cfg` | a read loop that gave up its link closes the HTTP session after it has awaited its socket's close, without asking again whose that is (`_hive.py` 765-767): a connect made meanwhile loses its WebSocket to that; 323-327: "Close the HTTP session the SDK opened, if no connection is using it" |
| `HiveTransport!EndsForAReason` | `CleanupMayFail = TRUE` | the cleanup of an overtaken attempt fails late and marks the later, live link as down (`_hive.py` 811) |
| `NoiseNegotiation!ForgottenStaysForgotten` | `Noise.cfg` | a second program that loaded the old key before it was forgotten writes it back (`_noise_runtime.py` 800, 842); both are refused with the right password while they keep in step |
| `AsyncSession!OneConnection` | `Session.cfg` | `_retire()` suppresses what `close()` of a client raises and forgets the client (`session.py` 684-687), over HTTPS with its admission still held, and the next is dialled beside it; 428: "One long-lived hub connection ... `HubSession`'s twin", which keeps such a client (350). `OneLink` speaks of the clients whose close did not fail |
| `AsyncSession!WiredOntoEveryClient` | `Session.cfg` | `on()` while a new client settles wires neither that client nor a current one (`session.py` 432, 555, 601-608) |
| `OperationWait!FailedIsAnswered` | `Control.cfg` | a read whose answer lacks a field, or that could not be sent, ends `wait_for_admission()` with a `ThalovantAdmissionFailedError` that names neither a code of the operation nor a status, while the operation is pending (`control.py` 2405-2412); `errors.py` 443-449 knows two cases, the operation's and the refusal's |
| `Asks!ClosedStaysClosed` | `Asks.cfg` | an ask that is connecting when the application closes takes it for a failed attempt and dials again (`client.py` 762, 1818); `emit()` likewise (2247) |
| `LoopThreads!OneAtATime` | `Hub.cfg` | a handler submitted after `stop()` starts a second thread while the first drains (`_loop.py` 220, 230-256) |
| `Connections!NothingLeft` | `Control.cfg` | the API makes a connection of another kind and its answer has no `id`: nothing is deleted, and the error says nothing of what is left (`control.py` 2229-2239); 2138-2140: "after deleting that connection, which would otherwise be an ordinary satellite nobody asked for" |
| `MCHub!ReportedIsDialled` | `Hub.cfg` | a hub's resource has WSS on and an HTTPS endpoint only, and the API's `initial_identify` names a `wss://` master: the bootstrap reports HTTPS as the endpoint of its identity, and a client of that identity dials the master over WSS (`control.py` 2198-2203, `identity.py` 282-287, `client.py` 123-128); "the first enabled protocol that has a usable endpoint" (`protocols.py` 208). `BootstrapIsDialled` names this case and says what is dialled in it |
| `MCHub!SavedIdentityIsTheSame` | `Hub.cfg` | `as_dict(include_secrets=True)` omits `protocols` (`identity.py` 110), so an identity saved as `docs/quickstart.md` 67-83 shows is read back without them |

Also seen on the way:

- Client. A failed connect of the application does not end the redial ladder, as the
  docstring of `_redial_after_drops` says. `on()` on a client whose link was closed or
  retired finds `ready` still set (`client.py` 1030). Closing a subscription of `on()`
  before its background task has registered it leaves it in the registry, where its
  flag keeps it silent (1058). Over a transport without tokens that keeps its handlers,
  a refused registration fails the pass after it forgot the bindings (1101);
  `Refusing` lets only `clearing` transports refuse in `subs`.
- Transport. `_failed_cleanup` is one slot: a second failure overwrites the first
  (`_hive.py` 810). A disconnect in the turn that made an attempt loses the old carrier
  (see `SameTurn`). An HTTPS admission whose answer was lost stays on the hub.
- MQTT. A disconnect during the abort of a refused KK attempt does not stop the XX
  dial; the broker leaving between the handshake and `_finish_connection` leaves the
  phase ready on a dead link; after a timed-out send, a sender already past the check
  still publishes. `remove_mycroft` rebuilds the handler list while a thread may append
  to the old one (`transport.py` 806).
- Conversations. A turn that leaves nothing to carry drops every name of its
  conversation (`client.py` 1702); with a hub whose handled frame lacks the id, asks of
  one conversation that overlap can mix (`Steady`).
- Noise. A folder whose old name meets the hub only after another program made its key
  under the new one ends with two keys (`LateNames` leaves it out).
- Sessions. `AsyncHubSession.run()` looks at the client before it waits for the lock and
  then drops whatever is current. What a client given up was told to call stays on it
  until its `close()` is through, out of reach of the unsubscriber (`session.py` 685
  before 687). One handler subscribed twice to one event loses both bindings of the
  current client to the first unsubscriber (562-565).
- Control plane. A repeated `create_client_identity()` under one idempotency key makes
  fresh secrets (`control.py` 2183). `_default_master` raises after the connection was
  made and loses its secrets (3835). An answer with an odd `operation` is refused whole
  though the change was taken. An update of `allowed` without its etag may undo another
  editor's, as its doc says.
- Hubs. `_default_runtime_protocol` always falls to HTTPS (`client.py` 122-137);
  `_doctor_endpoint` refuses `wss://` masters that `endpoint_for` takes (2390).
- Intents. `_request_reply` can time out with its answer in hand; a describe window
  answered with `[]` followed by a silent one raises. Two spellings of one language, a
  failed retry and a failed listing of the hub's languages can put one language's
  sentences under another (`SpeltOnce` leaves it out). `usual_form` ignores scripts:
  `zh-TW` becomes `zh-cn`.
- Wire. A bus envelope without a payload is read as `{}` and, once relayed, as an empty
  message.
- Threads. A call posted between a loop's shutdown and its close can wait for ever.
- Context. `build_client_context` overrides `user["id"]` and only defaults `user_id`.

## 6. Not modelled

- Rebinding an idle client to another event loop (`_enter`), `_abandon`.
- `disconnect()` of the transport being cancelled by its caller. Calls made in the
  turns in which a disconnect waits for the reader it cancelled.
- `on_binary`; the background task of `on()`; and the transport's own `on_*` and
  `remove_*` overtaking each other, which are taken to be atomic.
- The second read of `entry.pending` in `unbind` and `discard`, after `_lock` is
  released: it can only repeat a removal.
- A custom transport with session tokens. An HTTP session the application gives the
  transport, which is then never closed by it.
- The composition of `Subscriptions` or `Asks` with `ClientLifecycle`: each holds a
  reduced connection (`BeginConnect`, `SessionOpens`, `ConnectFails`, `Drop`;
  `LinkDrops`, `AttemptFails`), because the product of the two is beyond TLC.
- Cryptography, timing values, TLS settings, and the strings of URLs and topics.
- `control.py`: plain list, get and update calls, which build a URL and read an answer
  (`Answers`), and the synchronous twins of every call.
- `home.py`: the clean-up of spoken text. `_yaml.py`: the parser of a YAML subset.
  `native_auth.py`: PKCE values and the callback parser. They are functions over the
  characters of strings, where a model would be a transliteration.
- `models.py`, `rich.py`, `cli.py`, `agent.py`, `hubs.py`, `_aiohttp.py`: records,
  rendering, the command line, session factories.

## 7. What is next

1. `AbstractLink`: what a link promises its client (down, dialling, up, closing);
   `HiveTransport` shown to implement it with the invariants of section 4, and
   `ClientLifecycle` over it.
2. An abstract queue for `EventStream` and `NoiseFrames`; `AcceptedIsKept` and
   `FramesInv` are most of the two refinements.
3. Functions over trees in place of the `RECURSIVE` operators of `Wire` and `Answers`,
   indexed by depth, so that `Least` serves for them too.
