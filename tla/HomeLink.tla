-------------------------------- MODULE HomeLink --------------------------------
(* Answering home requests (src/thalovant/home.py 205-426): each request has a *)
(* task of its own on the loop; plain handlers run on a few threads and may    *)
(* never return; the hub gives up after a bound.  The loop keeps up with the   *)
(* clock: it does what is due before the clock moves on.                       *)
EXTENDS Naturals, FiniteSets

CONSTANTS Requests,
          Plain,        \* requests whose handler is a plain function: it runs on a thread
          Slots,        \* _HANDLER_THREADS
          Timeout, Bound  \* the handler's time, the hub's

ASSUME HomeShape ==
  Plain \subseteq Requests /\ Slots \in Nat \ {0} /\ Timeout \in Nat /\ Bound \in Nat /\ Timeout < Bound

VARIABLES
  stage,     \* each request: "new", "starts", "handles", "queued", "writes", "sent", "silent", "cancelled"
  age,       \* time since its task began
  thread,    \* its handler's thread: "none", "runs", "returned"
  taken,     \* slots acquired
  saying,    \* what its reply says: "nothing", "answer", "timeout", "failed"
  off,       \* unsubscribed
  lane,      \* another frame holds the channel
  jammed     \* history: one ever did

homeVars == <<stage, age, thread, taken, saying, off, lane, jammed>>

HomeTypeOK ==
  /\ stage \in [Requests -> {"new", "starts", "handles", "queued", "writes", "sent", "silent", "cancelled"}]
  /\ age \in [Requests -> 0..Bound] /\ thread \in [Requests -> {"none", "runs", "returned"}]
  /\ taken \in 0..Slots /\ off \in BOOLEAN /\ lane \in BOOLEAN /\ jammed \in BOOLEAN
  /\ saying \in [Requests -> {"nothing", "answer", "timeout", "failed"}]
  /\ Cardinality({r \in Requests: stage[r] = "writes"}) <= 1

HomeInit ==
  /\ stage = [r \in Requests |-> "new"] /\ age = [r \in Requests |-> 0]
  /\ thread = [r \in Requests |-> "none"] /\ taken = 0
  /\ saying = [r \in Requests |-> "nothing"] /\ off = FALSE /\ lane = FALSE /\ jammed = FALSE

Stage(r, s) == stage' = [stage EXCEPT ![r] = s]
Says(r, what) == Stage(r, "queued") /\ saying' = [saying EXCEPT ![r] = what]

-----------------------------------------------------------------------------
Arrives(r) ==
  /\ ~off /\ stage[r] = "new" /\ Stage(r, "starts")
  /\ UNCHANGED <<age, thread, taken, saying, off, lane, jammed>>

\* mutant: the last thread is never given out.
BusySoon(r) == taken + 1 >= Slots /\ Says(r, "timeout") /\ UNCHANGED <<thread, taken>>

(* Every thread is taken: the answer is "timeout", at once.                    *)
Busy(r) == taken = Slots /\ Says(r, "timeout") /\ UNCHANGED <<thread, taken>>

Starts(r) ==
  /\ stage[r] = "starts" /\ UNCHANGED <<age, off, lane, jammed>>
  /\ \/ r \notin Plain /\ Stage(r, "handles") /\ UNCHANGED <<thread, taken, saying>>
     \/ /\ r \in Plain /\ taken < Slots /\ taken' = taken + 1
        /\ thread' = [thread EXCEPT ![r] = "runs"] /\ Stage(r, "handles") /\ UNCHANGED saying
     \/ r \in Plain /\ Busy(r)

(* A handler's thread returns or raises, whenever it does; the slot goes back  *)
(* first.  A request that was answered without it drops what it brought.       *)
ThreadReturns(r) ==
  /\ thread[r] = "runs" /\ thread' = [thread EXCEPT ![r] = "returned"] /\ taken' = taken - 1
  /\ UNCHANGED <<stage, age, saying, off, lane, jammed>>

(* What the handler returned; or, for a thread that returned an awaitable, what *)
(* that came to on the loop.                                                   *)
Handled(r) ==
  /\ stage[r] = "handles" /\ age[r] <= Timeout /\ (r \in Plain => thread[r] = "returned")
  /\ \E what \in {"answer", "failed"}: Says(r, what)
  /\ UNCHANGED <<age, thread, taken, off, lane, jammed>>

\* mutant: the time is up, and the slot is handed on.
GivesBack(r) ==
  /\ Says(r, "timeout") /\ taken' = IF thread[r] = "runs" THEN taken - 1 ELSE taken
  /\ thread' = thread

\* mutant: the handler has all the time the hub gives.
WholeBound == Bound

HandlerTime == Timeout

(* The handler's time is up: it is left to itself.                             *)
GivesUp(r) == Says(r, "timeout") /\ UNCHANGED <<thread, taken>>

HandlerTimeout(r) ==
  /\ stage[r] = "handles" /\ age[r] >= HandlerTime /\ GivesUp(r)
  /\ UNCHANGED <<age, off, lane, jammed>>

LaneFree == ~lane /\ \A q \in Requests: stage[q] # "writes"

(* reply(), behind whatever else is being written.                             *)
BeginsWriting(r) ==
  /\ stage[r] = "queued" /\ age[r] < Bound /\ LaneFree
  /\ Stage(r, "writes") /\ UNCHANGED <<age, thread, taken, saying, off, lane, jammed>>

Written(r) ==
  /\ stage[r] = "writes" /\ Stage(r, "sent")
  /\ UNCHANGED <<age, thread, taken, saying, off, lane, jammed>>

\* mutant: a reply is left in the queue when its time is up.
Stays(r) == FALSE /\ UNCHANGED stage

(* The bound has passed: a reply still queued is withdrawn.                    *)
Withdraws(r) == stage[r] = "queued" /\ age[r] >= Bound /\ Stage(r, "silent")

Withdrawn(r) == Withdraws(r) /\ UNCHANGED <<age, thread, taken, saying, off, lane, jammed>>

\* mutant: no more requests, but those in hand go on.
KeepsAnswering == UNCHANGED stage

CancelsTasks ==
  stage' = [r \in Requests |-> IF stage[r] \in {"starts", "handles", "queued"} THEN "cancelled"
                               ELSE stage[r]]

(* unsubscribe(): nothing waits for a handler that is stuck.                   *)
Unsubscribe ==
  /\ ~off /\ off' = TRUE /\ CancelsTasks /\ UNCHANGED <<age, thread, taken, saying, lane, jammed>>

(* Another frame takes the channel, for as long as it likes; once.             *)
Jam == ~jammed /\ (\A q \in Requests: stage[q] # "writes") /\ lane' = TRUE /\ jammed' = TRUE
       /\ UNCHANGED <<stage, age, thread, taken, saying, off>>
Clear == lane /\ lane' = FALSE /\ UNCHANGED <<stage, age, thread, taken, saying, off, jammed>>

Waiting == {r \in Requests: stage[r] \in {"handles", "queued"}}

Due(r) ==
  \/ stage[r] \in {"starts", "writes"}
  \/ stage[r] = "handles" /\ age[r] >= HandlerTime
  \/ stage[r] = "queued" /\ (age[r] >= Bound \/ ~lane)

Tick ==
  /\ Waiting # {} /\ ~\E r \in Requests: Due(r)
  /\ age' = [r \in Requests |-> IF r \in Waiting THEN age[r] + 1 ELSE age[r]]
  /\ UNCHANGED <<stage, thread, taken, saying, off, lane, jammed>>

LoopStep(r) ==
  \/ Starts(r) \/ HandlerTimeout(r) \/ BeginsWriting(r) \/ Written(r) \/ Withdrawn(r)

HomeNext ==
  \/ \E r \in Requests: Arrives(r) \/ ThreadReturns(r) \/ Handled(r) \/ LoopStep(r)
  \/ Unsubscribe \/ Jam \/ Clear \/ Tick

HomeFairness == WF_homeVars(Tick) /\ \A r \in Requests: WF_homeVars(LoopStep(r))
HomeSpec == HomeInit /\ [][HomeNext]_homeVars /\ HomeFairness

-----------------------------------------------------------------------------
(* A slot is taken exactly while a handler is on its thread, answered for or   *)
(* not: stuck handlers hold at most Slots threads, and a handler that returns  *)
(* late gives its own back (home.py 233-288).                                  *)
SlotsAreThreads == taken = Cardinality({r \in Requests: thread[r] = "runs"})

(* Every request comes to an end - sent, withdrawn or cancelled - though no    *)
(* handler ever returns and the channel stays jammed (338-391).                *)
EveryRequestEnds == \A r \in Requests: []<>(stage[r] \in {"new", "sent", "silent", "cancelled"})

(* Stuck handlers silence no request: while nothing else holds the channel, no *)
(* answer comes too late for the hub (346-387).                                *)
StuckHandlersSilenceNothing == (\E r \in Requests: stage[r] = "silent") => jammed

(* "timeout" is said only of a handler that had its time, or that found the    *)
(* threads full of handlers still running (353-375).                           *)
TimeoutIsTrue ==
  [][\A r \in Requests: saying[r] = "nothing" /\ saying'[r] = "timeout"
       => age[r] >= Timeout \/ Cardinality({q \in Requests: thread[q] = "runs"}) >= Slots]_homeVars

(* After unsubscribe() no handler is started and no reply begun (411-425).     *)
QuietAfterUnsubscribe ==
  [][off => \A r \in Requests: /\ stage'[r] = "writes" => stage[r] = "writes"
                               /\ thread'[r] = "runs" => thread[r] = "runs"]_homeVars

(* Handlers that never return hold their threads and no more: the slots count  *)
(* them exactly, and every request is still answered in time (233-288,         *)
(* 346-387).                                                                   *)
StuckHandlersAreBounded == SlotsAreThreads /\ StuckHandlersSilenceNothing
=============================================================================
