---------------------------- MODULE OriginPreference ----------------------------
(* OriginPreference (src/thalovant/session.py 775-893): a client through a LAN *)
(* address first, then through the public path; the process's resolver is      *)
(* replaced while the first is dialled.  Each preference serves one thread.    *)
EXTENDS Naturals, FiniteSets

CONSTANTS Preferences,
          Nowhere,        \* the system's own resolver; nobody
          MaxAttempts, MaxRetireFailures

ASSUME OriginShape ==
  Nowhere \notin Preferences /\ MaxAttempts \in Nat /\ MaxRetireFailures \in Nat

VARIABLES
  dialling,     \* each preference: "idle", "lan", "public"
  left,         \* _retired: the failed attempt it could not close
  open,         \* attempts that have not been closed and were handed to nobody
  quiet,        \* the cooldown runs
  resolver,     \* whose wrapper socket.getaddrinfo is
  resolverLock, \* _RESOLVER_LOCK
  attempts, retireFailures

originVars == <<dialling, left, open, quiet, resolver, resolverLock, attempts, retireFailures>>

OriginTypeOK ==
  /\ dialling \in [Preferences -> {"idle", "lan", "public"}]
  /\ left \in [Preferences -> BOOLEAN] /\ open \in [Preferences -> 0..MaxAttempts]
  /\ quiet \in [Preferences -> BOOLEAN]
  /\ resolver \in Preferences \cup {Nowhere} /\ resolverLock \in Preferences \cup {Nowhere}
  /\ attempts \in 0..MaxAttempts /\ retireFailures \in 0..MaxRetireFailures
  /\ \A p \in Preferences: left[p] => open[p] = 1 /\ dialling[p] = "idle"

OriginInit ==
  /\ dialling = [p \in Preferences |-> "idle"] /\ left = [p \in Preferences |-> FALSE]
  /\ open = [p \in Preferences |-> 0] /\ quiet = [p \in Preferences |-> FALSE]
  /\ resolver = Nowhere /\ resolverLock = Nowhere /\ attempts = 0 /\ retireFailures = 0

Dial(p, path) ==
  /\ attempts < MaxAttempts /\ attempts' = attempts + 1
  /\ dialling' = [dialling EXCEPT ![p] = path]

\* mutant: an attempt that could not be closed is forgotten.
Forgotten(p) == left' = [left EXCEPT ![p] = FALSE]

Kept(p) == left' = [left EXCEPT ![p] = TRUE]

RetireFails(p) == retireFailures < MaxRetireFailures /\ retireFailures' = retireFailures + 1

(* connect(): what is left over is closed first, or nothing is dialled.        *)
ConnectRaises(p) ==
  /\ dialling[p] = "idle" /\ left[p] /\ RetireFails(p)
  /\ UNCHANGED <<dialling, left, open, quiet, resolver, resolverLock, attempts>>

\* mutant: the wrapper is put in without the lock.
TakesNoLock(p) == UNCHANGED resolverLock

TakesLock(p) == resolverLock = Nowhere /\ resolverLock' = p

ConnectFirst(p) ==
  /\ dialling[p] = "idle" /\ left' = [left EXCEPT ![p] = FALSE]
  /\ \/ quiet[p] /\ Dial(p, "public") /\ UNCHANGED <<resolver, resolverLock>>
     \/ ~quiet[p] /\ Dial(p, "lan") /\ TakesLock(p) /\ resolver' = p
  /\ open' = [open EXCEPT ![p] = (IF left[p] THEN @ - 1 ELSE @) + 1]
  /\ UNCHANGED <<quiet, retireFailures>>

Restores(p) == resolver' = Nowhere /\ resolverLock' = Nowhere

(* The client is connected and the caller's.                                   *)
Answers(p) ==
  /\ dialling[p] # "idle" /\ dialling' = [dialling EXCEPT ![p] = "idle"]
  /\ open' = [open EXCEPT ![p] = @ - 1]
  /\ IF dialling[p] = "lan" THEN Restores(p) /\ quiet' = [quiet EXCEPT ![p] = FALSE]
     ELSE UNCHANGED <<resolver, resolverLock, quiet>>
  /\ UNCHANGED <<left, attempts, retireFailures>>

(* The LAN did not answer: the public path, and the cooldown.                  *)
LanFails(p) ==
  /\ dialling[p] = "lan" /\ Restores(p)
  /\ \/ /\ Dial(p, "public") /\ quiet' = [quiet EXCEPT ![p] = TRUE]
        /\ UNCHANGED <<left, open, retireFailures>>
     \/ /\ RetireFails(p) /\ Kept(p) /\ dialling' = [dialling EXCEPT ![p] = "idle"]
        /\ UNCHANGED <<quiet, open, attempts>>

PublicFails(p) ==
  /\ dialling[p] = "public" /\ dialling' = [dialling EXCEPT ![p] = "idle"]
  /\ \/ open' = [open EXCEPT ![p] = @ - 1] /\ UNCHANGED <<left, retireFailures>>
     \/ RetireFails(p) /\ Kept(p) /\ UNCHANGED open
  /\ UNCHANGED <<quiet, resolver, resolverLock, attempts>>

Cleaned(p) == left' = [left EXCEPT ![p] = FALSE]

(* close() retries what a failed attempt left; nothing else is its own.        *)
CloseLeft(p) ==
  /\ dialling[p] = "idle" /\ left[p]
  /\ Cleaned(p) /\ open' = [open EXCEPT ![p] = 0]
  /\ UNCHANGED <<dialling, quiet, resolver, resolverLock, attempts, retireFailures>>

CoolsDown(p) ==
  /\ quiet[p] /\ quiet' = [quiet EXCEPT ![p] = FALSE]
  /\ UNCHANGED <<dialling, left, open, resolver, resolverLock, attempts, retireFailures>>

OriginNext ==
  \E p \in Preferences:
    \/ ConnectRaises(p) \/ ConnectFirst(p) \/ Answers(p) \/ LanFails(p) \/ PublicFails(p)
    \/ CloseLeft(p) \/ CoolsDown(p)

OriginSpec == OriginInit /\ [][OriginNext]_originVars

-----------------------------------------------------------------------------
(* An attempt is open only while it is dialled or kept for its close(): however*)
(* dials and closes fail, none is forgotten and no second one is opened beside *)
(* it (854-887).                                                               *)
OneAttempt ==
  \A p \in Preferences: open[p] = IF dialling[p] # "idle" \/ left[p] THEN 1 ELSE 0

(* The process resolves names its own way whenever no LAN address is dialled,  *)
(* though dials of several preferences overlap and fail (787-800).             *)
ResolverRestored == resolver = Nowhere <=> \A p \in Preferences: dialling[p] # "lan"

=============================================================================
