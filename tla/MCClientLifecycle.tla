------------------------- MODULE MCClientLifecycle -------------------------
(* Small instances of ClientLifecycle.  The two kinds of link, checked in one  *)
(* run: over the SDK's own transport one task of the application meets the     *)
(* redial and every close, over a synchronous one all tasks meet SyncCloses.   *)
EXTENDS ClientLifecycle, TLC
OverNative(who) == INSTANCE ClientLifecycle WITH Callers <- {who}, Native <- TRUE, AutoReconnect <- TRUE
OverSync == INSTANCE ClientLifecycle WITH Native <- FALSE, AutoReconnect <- FALSE

CONSTANT SyncCloses  \* bound on the closes over a synchronous transport
VARIABLE link  \* the one task that calls over the SDK's own transport, or "sync"
EitherInit == link \in Callers \cup {"sync"} /\ Init
EitherNext ==
  \/ \E c \in Callers: link = c /\ OverNative(c)!Next /\ UNCHANGED link
  \/ link = "sync" /\ OverSync!Next /\ UNCHANGED link
     /\ Cardinality({k \in Closers: closer'[k] # "new"}) <= SyncCloses
EitherSpec == EitherInit /\ [][EitherNext]_<<link, vars>>

(* The fairness of ClientLifecycle, of the link the behaviour is over.         *)
EitherFairness ==
  /\ \A c \in Callers: \A d \in {c, Redial}:
       /\ WF_vars(link = c /\ OverNative(c)!CallerStep(d)) /\ WF_vars(link = c /\ OverNative(c)!TaskStep(d))
       /\ WF_vars(link = c /\ OverNative(c)!LinkStep(d)) /\ WF_vars(link = c /\ OverNative(c)!DeadlinePasses(d))
  /\ \A k \in Closers: WF_vars(link # "sync" /\ CloserStep(k)) /\ WF_vars(link = "sync" /\ OverSync!CloserStep(k))
  /\ WF_vars(link # "sync" /\ SupervisorStep)
  /\ \A c \in Callers:
       /\ WF_vars(link = "sync" /\ OverSync!CallerStep(c)) /\ WF_vars(link = "sync" /\ OverSync!TaskStep(c))
       /\ WF_vars(link = "sync" /\ OverSync!LinkStep(c)) /\ WF_vars(link = "sync" /\ OverSync!DeadlinePasses(c))
EitherFair == EitherSpec /\ EitherFairness

\* Callers and closes are alike: a permutation of either changes nothing.
Interchangeable == Permutations(Callers) \cup Permutations(Closers)
=============================================================================
