------------------------------ MODULE ConfigMerge ------------------------------
(* update_runtime_group_config() (src/thalovant/control.py 1365-1456): writers *)
(* read the stored configuration with its revision, merge their change into it *)
(* and put it back under that revision, up to Attempts times; or replace it.   *)
(* Requests and answers may be lost, and a lost request may still arrive.      *)
(*                                                                             *)
(* A configuration maps every key to a value, to nothing, or to a mapping of   *)
(* its own.  Its revision is a digest of it: two are equal when their          *)
(* configurations are.                                                         *)
EXTENDS Naturals

CONSTANTS Writers,      \* calls of update_runtime_group_config()
          Replacers,    \* those with merge=False
          Keys, SubKeys, Values,
          Delta,        \* Delta[w]: the change of w, a configuration
          Starts,       \* the configurations there may be at first
          Attempts,     \* of a guarded call: 3 in the code
          Absent

Leaf == Values \cup {Absent}
Mappings == [SubKeys -> Leaf]
Configs == [Keys -> Leaf \cup Mappings]

ASSUME MergeShape ==
  /\ Replacers \subseteq Writers /\ Absent \notin Values
  /\ Delta \in [Writers -> Configs] /\ Starts \subseteq Configs
  /\ Attempts \in Nat \ {0}

VARIABLES
  config,    \* what the API stores
  phase,     \* each writer: "new", "reading", "putting", "over"
  snapshot,  \* the configuration it read
  body,      \* the configuration it puts
  attempt,   \* attempts begun
  answered,  \* its put: "unsent", "none" in flight, "applied", "conflict"
  told,      \* how the call ended
  landed     \* history: writers whose change was applied

mergeVars == <<config, phase, snapshot, body, attempt, answered, told, landed>>

Told == {"none", "ok", "conflict", "failed"}

TypeOK ==
  /\ config \in Configs
  /\ phase \in [Writers -> {"new", "reading", "putting", "over"}]
  /\ snapshot \in [Writers -> Configs] /\ body \in [Writers -> Configs]
  /\ attempt \in [Writers -> 0..Attempts]
  /\ answered \in [Writers -> {"unsent", "none", "applied", "conflict"}]
  /\ told \in [Writers -> Told] /\ landed \subseteq Writers

Nothing == [k \in Keys |-> Absent]

Init ==
  /\ config \in Starts /\ landed = {}
  /\ phase = [w \in Writers |-> "new"]
  /\ snapshot = [w \in Writers |-> Nothing] /\ body = [w \in Writers |-> Nothing]
  /\ attempt = [w \in Writers |-> 0]
  /\ answered = [w \in Writers |-> "unsent"] /\ told = [w \in Writers |-> "none"]

-----------------------------------------------------------------------------
\* mutant: a mapping of the change replaces the stored one.
ShallowMerge(base, incoming) ==
  [k \in Keys |-> IF incoming[k] = Absent THEN base[k] ELSE incoming[k]]

(* _deep_merge(): mappings are merged key by key, all else is replaced.        *)
DeepMerge(base, incoming) ==
  [k \in Keys |->
     IF incoming[k] = Absent THEN base[k]
     ELSE IF base[k] \in Mappings /\ incoming[k] \in Mappings
     THEN [s \in SubKeys |-> IF incoming[k][s] = Absent THEN base[k][s] ELSE incoming[k][s]]
     ELSE incoming[k]]

Changed(w, c) == IF w \in Replacers THEN Delta[w] ELSE DeepMerge(c, Delta[w])

Over(w, how) == phase' = [phase EXCEPT ![w] = "over"] /\ told' = [told EXCEPT ![w] = how]
Put(w, what) ==
  /\ phase' = [phase EXCEPT ![w] = "putting"]
  /\ body' = [body EXCEPT ![w] = what]
  /\ answered' = [answered EXCEPT ![w] = "none"]

(* The call: a replacing one puts its configuration as it is, once.            *)
Start(w) ==
  /\ phase[w] = "new"
  /\ attempt' = [attempt EXCEPT ![w] = 1]
  /\ IF w \in Replacers THEN Put(w, Delta[w])
     ELSE phase' = [phase EXCEPT ![w] = "reading"] /\ UNCHANGED <<body, answered>>
  /\ UNCHANGED <<config, snapshot, told, landed>>

(* The configuration is read, and the change merged into it.                   *)
ReadAnswered(w) ==
  /\ phase[w] = "reading"
  /\ snapshot' = [snapshot EXCEPT ![w] = config]
  /\ Put(w, DeepMerge(config, Delta[w]))
  /\ UNCHANGED <<config, attempt, told, landed>>

\* mutant: the put carries no revision.
Unconditional(w) == TRUE

(* The put is conditional: its revision is still the stored one.               *)
Matches(w) == w \in Replacers \/ snapshot[w] = config

(* The API takes a put, or refuses it: one given up may still arrive.          *)
PutArrives(w) ==
  /\ phase[w] \in {"putting", "over"} /\ answered[w] = "none"
  /\ IF Matches(w)
     THEN /\ config' = body[w] /\ landed' = landed \cup {w}
          /\ answered' = [answered EXCEPT ![w] = "applied"]
     ELSE /\ answered' = [answered EXCEPT ![w] = "conflict"] /\ UNCHANGED <<config, landed>>
  /\ UNCHANGED <<phase, snapshot, body, attempt, told>>

PutAnswered(w) ==
  /\ phase[w] = "putting" /\ answered[w] = "applied" /\ Over(w, "ok")
  /\ UNCHANGED <<config, snapshot, body, attempt, answered, landed>>

(* Only a conflict is tried again, with a new read.                            *)
Conflict(w) ==
  /\ phase[w] = "putting" /\ answered[w] = "conflict"
  /\ IF attempt[w] = Attempts THEN Over(w, "conflict") /\ UNCHANGED attempt
     ELSE /\ phase' = [phase EXCEPT ![w] = "reading"]
          /\ attempt' = [attempt EXCEPT ![w] = @ + 1] /\ UNCHANGED told
  /\ UNCHANGED <<config, snapshot, body, answered, landed>>

(* A request or an answer is lost, or the API has no revisions.                *)
Fails(w) ==
  /\ phase[w] \in {"reading", "putting"} /\ Over(w, "failed")
  /\ UNCHANGED <<config, snapshot, body, attempt, answered, landed>>

Next ==
  \E w \in Writers :
    Start(w) \/ ReadAnswered(w) \/ PutArrives(w) \/ PutAnswered(w) \/ Conflict(w) \/ Fails(w)

Spec == Init /\ [][Next]_mergeVars

-----------------------------------------------------------------------------
(* Properties                                                                  *)

(* Each call is one atomic change of the configuration, told truthfully, in    *)
(* whatever way reads and puts of several writers interleave or get lost       *)
(* (1394-1410): nothing another writer stored meanwhile is overwritten, as it  *)
(* once was.                                                                   *)
Atomic == INSTANCE AtomicConfig
ImplementsAtomic == Atomic!AtomicSpec

(* A guarded writer that was told of success changed no key its change does    *)
(* not name: the step that applied it kept every other (1402-1405).            *)
KeepsTheRest ==
  [][\A w \in (landed' \ landed) \ Replacers : \A k \in Keys :
       /\ Delta[w][k] = Absent => config'[k] = config[k]
       /\ config[k] \in Mappings /\ Delta[w][k] \in Mappings =>
            \A s \in SubKeys : Delta[w][k][s] = Absent => config'[k][s] = config[k][s]]_mergeVars
=============================================================================
