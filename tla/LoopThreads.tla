----------------------------- MODULE LoopThreads ------------------------------
(* The two threads behind a synchronous object (src/thalovant/_loop.py): the   *)
(* loop its calls run on and the thread its handlers run on.                   *)
EXTENDS Naturals, Sequences, SequencesExt

-----------------------------------------------------------------------------
(* LoopThread (src/thalovant/_loop.py 88-211): the private event loop behind a *)
(* synchronous object.  Calls are posted to it from other threads; stop() runs *)
(* a last coroutine on it, cancels what is left and closes it; the next call,  *)
(* or a call of a forked child, starts another.                                *)
CONSTANTS Callers,    \* threads that call; a caller is called once
          OnLoop,     \* the ones that are the loop's own thread
          MaxLoops    \* bound on the loops started

ASSUME LoopShape == OnLoop \subseteq Callers /\ MaxLoops \in Nat \ {0}

VARIABLES
  loops,      \* each loop: "up", "stopping" (shutdown() posted), "final" (it runs), "stopped", "cancelled", "closed", "gone"
  currentLoop,   \* _loop and _thread, 0 when there is none
  caller,     \* caller -> "idle", "holding" (it has a loop), "posted", "task", "done", "cancelled", "raised"
  on,         \* caller -> the loop it got
  early,      \* callers posted before the shutdown of their loop
  stopper,    \* "idle", "took" a loop out, "waits" for it
  taken       \* the loop stop() took out

loopVars == <<loops, currentLoop, caller, on, early, stopper, taken>>

LoopInit ==
  /\ loops = <<>> /\ currentLoop = 0 /\ caller = [c \in Callers |-> "idle"] /\ on = [c \in Callers |-> 0]
  /\ early = {} /\ stopper = "idle" /\ taken = 0

Alive(l) == loops[l] \notin {"closed", "gone"}
Turn(l, s) == loops' = [loops EXCEPT ![l] = s]
Becomes(c, s) == caller' = [caller EXCEPT ![c] = s]
ReadyOn(l) == {c \in Callers: on[c] = l /\ caller[c] = "posted"}
TasksOn(l) == {c \in Callers: on[c] = l /\ caller[c] = "task"}

(* loop(), under the lock: the loop there is, or a new one.                    *)
GetsLoop(c) ==
  /\ caller[c] = "idle" /\ c \notin OnLoop
  /\ IF currentLoop # 0 /\ Alive(currentLoop)
     THEN on' = [on EXCEPT ![c] = currentLoop] /\ UNCHANGED <<loops, currentLoop>>
     ELSE /\ Len(loops) < MaxLoops /\ loops' = Append(loops, "up") /\ currentLoop' = Len(loops')
          /\ on' = [on EXCEPT ![c] = Len(loops')]
  /\ Becomes(c, "holding") /\ UNCHANGED <<early, stopper, taken>>

(* A call made from the loop itself would wait on itself: refused.             *)
RefusedOnLoop(c) ==
  /\ caller[c] = "idle" /\ c \in OnLoop /\ Becomes(c, "raised")
  /\ UNCHANGED <<loops, currentLoop, on, early, stopper, taken>>

(* run_coroutine_threadsafe(): a closed loop raises.                           *)
Posts(c) ==
  /\ caller[c] = "holding"
  /\ Becomes(c, IF loops[on[c]] = "closed" THEN "raised" ELSE "posted")
  /\ early' = IF loops[on[c]] = "up" THEN early \cup {c} ELSE early
  /\ UNCHANGED <<loops, currentLoop, on, stopper, taken>>

(* The loop turns: a posted call becomes a task, a task ends.                  *)
LoopTurns(c) ==
  /\ on[c] # 0 /\ loops[on[c]] \in {"up", "stopping", "final"}
  /\ \/ caller[c] = "posted" /\ Becomes(c, "task")
     \/ caller[c] = "task" /\ Becomes(c, "done")
  /\ UNCHANGED <<loops, currentLoop, on, early, stopper, taken>>

StopTakes ==
  /\ stopper = "idle" /\ currentLoop # 0 /\ currentLoop' = 0
  /\ IF Alive(currentLoop) THEN stopper' = "took" /\ taken' = currentLoop ELSE UNCHANGED <<stopper, taken>>
  /\ UNCHANGED <<loops, caller, on, early>>

StopPosts ==
  /\ stopper = "took" /\ Turn(taken, "stopping") /\ stopper' = "waits"
  /\ UNCHANGED <<currentLoop, caller, on, early, taken>>

(* shutdown() is reached after every call posted before it.                    *)
ShutdownRuns(l) ==
  /\ loops[l] = "stopping" /\ ReadyOn(l) \cap early = {} /\ Turn(l, "final")
  /\ UNCHANGED <<currentLoop, caller, on, early, stopper, taken>>

LoopStops(l) ==
  /\ loops[l] = "final" /\ Turn(l, "stopped") /\ UNCHANGED <<currentLoop, caller, on, early, stopper, taken>>

\* mutant: the loop is closed over its tasks.
LeavesTasks(l) == loops[l] = "stopped" /\ Turn(l, "cancelled") /\ UNCHANGED <<currentLoop, caller, on, early, stopper, taken>>

(* _cancel_all(): the tasks there are now.                                     *)
CancelsAll(l) ==
  /\ loops[l] = "stopped" /\ Turn(l, "cancelled")
  /\ caller' = [c \in Callers |-> IF c \in TasksOn(l) THEN "cancelled" ELSE caller[c]]
  /\ UNCHANGED <<currentLoop, on, early, stopper, taken>>

Closes(l) ==
  /\ loops[l] = "cancelled" /\ Turn(l, "closed")
  /\ IF stopper = "waits" /\ taken = l THEN stopper' = "idle" /\ taken' = 0 ELSE UNCHANGED <<stopper, taken>>
  /\ UNCHANGED <<currentLoop, caller, on, early>>

(* stop() gives up waiting; the loop goes on stopping.                         *)
StopReturns ==
  /\ stopper = "waits" /\ stopper' = "idle" /\ taken' = 0 /\ UNCHANGED <<loops, currentLoop, caller, on, early>>

(* A child of fork() has the objects and none of the threads.                  *)
Fork ==
  /\ currentLoop # 0 /\ Alive(currentLoop)
  /\ loops' = [l \in DOMAIN loops |-> IF Alive(l) THEN "gone" ELSE loops[l]]
  /\ caller' = [c \in Callers |-> IF caller[c] \in {"holding", "posted", "task"} THEN "cancelled" ELSE caller[c]]
  /\ stopper' = "idle" /\ taken' = 0 /\ UNCHANGED <<currentLoop, on, early>>

LoopNext ==
  \/ \E c \in Callers: GetsLoop(c) \/ RefusedOnLoop(c) \/ Posts(c) \/ LoopTurns(c)
  \/ StopTakes \/ StopPosts \/ StopReturns \/ Fork
  \/ \E l \in DOMAIN loops: ShutdownRuns(l) \/ LoopStops(l) \/ CancelsAll(l) \/ Closes(l)

LoopSpec == LoopInit /\ [][LoopNext]_loopVars

-----------------------------------------------------------------------------
(* No caller is left waiting on a closed loop: what was posted before it was   *)
(* stopped ran or was cancelled, whenever the stop came (111-121, 163-194,     *)
(* 206-211); and one loop at a time takes new calls (103-110).                 *)
NoneLeftWaiting ==
  /\ \A c \in early: loops[on[c]] = "closed" => caller[c] \in {"done", "cancelled"}
  /\ \A l, k \in DOMAIN loops: loops[l] = "up" /\ loops[k] = "up" /\ k # l => taken \in {k, l}

-----------------------------------------------------------------------------
(* CallbackThread (src/thalovant/_loop.py 219-256): the handlers of a          *)
(* synchronous client, run off the loop.  stop() lets what is queued finish;   *)
(* a frame that arrives afterwards starts another thread, with its own queue.  *)
CONSTANTS MaxFrames,   \* bound on the handlers submitted
          MaxThreads   \* bound on the threads started

ASSUME HandlerBounds == MaxFrames \in Nat \ {0} /\ MaxThreads \in Nat \ {0}

VARIABLES
  posted,     \* handlers submitted so far
  handlerQ,   \* thread -> the work it has, "stop" included
  currentThread,    \* _thread, 0 when there is none
  handling,   \* thread -> the handler it runs, 0 when none
  gone,       \* threads that ended
  ran,        \* history: thread -> the handlers it started
  given       \* history: thread -> the handlers it was given

handlerVars == <<posted, handlerQ, currentThread, handling, gone, ran, given>>

STOP == 0
Threads == DOMAIN handlerQ

HandlerInit ==
  /\ posted = 0 /\ handlerQ = <<>> /\ currentThread = 0 /\ handling = <<>> /\ gone = {}
  /\ ran = <<>> /\ given = <<>>

PutWork(t, item) == handlerQ' = [handlerQ EXCEPT ![t] = Append(@, item)]

Submit ==
  /\ posted < MaxFrames /\ posted' = posted + 1
  /\ IF currentThread = 0 \/ currentThread \in gone
     THEN /\ Len(handlerQ) < MaxThreads /\ currentThread' = Len(handlerQ) + 1
          /\ handlerQ' = Append(handlerQ, <<posted'>>) /\ handling' = Append(handling, 0)
          /\ ran' = Append(ran, <<>>) /\ given' = Append(given, <<posted'>>)
     ELSE /\ PutWork(currentThread, posted') /\ given' = [given EXCEPT ![currentThread] = Append(@, posted')]
          /\ UNCHANGED <<currentThread, handling, ran>>
  /\ UNCHANGED gone

\* mutant: what waits behind the running handler is dropped.
StopNow ==
  /\ currentThread # 0 /\ handlerQ' = [handlerQ EXCEPT ![currentThread] = <<STOP>>] /\ currentThread' = 0
  /\ UNCHANGED <<posted, handling, gone, ran, given>>

StopHandlers ==
  /\ currentThread # 0 /\ PutWork(currentThread, STOP) /\ currentThread' = 0
  /\ UNCHANGED <<posted, handling, gone, ran, given>>

(* _run(): one item at a time; a handler that raises is only logged.           *)
TakesWork(t) ==
  /\ t \notin gone /\ handling[t] = 0 /\ handlerQ[t] # <<>>
  /\ LET item == Head(handlerQ[t])
     IN IF item = STOP THEN gone' = gone \cup {t} /\ UNCHANGED <<handling, ran>>
        ELSE /\ handling' = [handling EXCEPT ![t] = item]
             /\ ran' = [ran EXCEPT ![t] = Append(@, item)] /\ UNCHANGED gone
  /\ handlerQ' = [handlerQ EXCEPT ![t] = Tail(@)]
  /\ UNCHANGED <<posted, currentThread, given>>

HandlerReturns(t) ==
  /\ handling[t] # 0 /\ handling' = [handling EXCEPT ![t] = 0]
  /\ UNCHANGED <<posted, handlerQ, currentThread, gone, ran, given>>

HandlerNext == Submit \/ StopHandlers \/ \E t \in Threads: TakesWork(t) \/ HandlerReturns(t)
HandlerSpec == HandlerInit /\ [][HandlerNext]_handlerVars

-----------------------------------------------------------------------------
(* A thread runs what it was given in arrival order, and ends only once all of *)
(* it ran; threads share the frames out in order, each to one of them, and a second one is started  *)
(* only after the first was told to end (219-222, 230-238, 240-256).               *)
InArrivalOrder ==
  /\ \A t \in Threads: IsPrefix(ran[t], given[t]) /\ (t \in gone => ran[t] = given[t])
  /\ UNION {Range(given[t]): t \in Threads} = 1..posted
  /\ \A s, t \in Threads: \A i \in DOMAIN given[s], j \in DOMAIN given[t]:
       s < t \/ (s = t /\ i < j) => given[s][i] < given[t][j]
  /\ \A t \in Threads: t # currentThread => t \in gone \/ STOP \in Range(handlerQ[t])

(* What a synchronous client hands to its two threads is done: a call posted   *)
(* to a loop is not left behind by its stop, nor a handler by its thread's.    *)
WorkIsDone == NoneLeftWaiting /\ InArrivalOrder

(* "one at a time, in arrival order" (client.py 2430-2432, _loop.py 220).      *)
OneAtATime == \A s, t \in Threads: handling[s] # 0 /\ handling[t] # 0 => s = t
=============================================================================
