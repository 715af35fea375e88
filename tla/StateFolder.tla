------------------------------ MODULE StateFolder ------------------------------
(* noise_identity() and prepare_noise_key() (src/thalovant/_noise_runtime.py   *)
(* 332-483): programs that read one identity file find or make its static key  *)
(* in the folder beside it, taking over, the first time, the key and the pins  *)
(* the old shared folder holds.  A program may die at any step.                *)
EXTENDS Naturals, FiniteSets

CONSTANTS Devices,      \* the programs
          Names,        \* a key is stored under the name of its identity
          Unnamed,      \* "unnamed-node"
          LateNames,    \* old folders of these names may meet the hub only now
          Missing, MaxCrashes

Old == "old"
Own == "own"

ASSUME FolderShape ==
  /\ Unnamed \in Names /\ LateNames \subseteq Names /\ Missing \notin Names \cup {Old, Own}
  /\ MaxCrashes \in Nat /\ {Old, Own, Missing} \cap Devices = {}

VARIABLES
  oldName, qualified, \* the old folder: its name, and whether it knows the hub
  knew,               \* history: it did before any program began
  name,               \* in _identity.json, Missing before it is written
  hubPin,             \* the hub's pin there: the old folder's, its own, or none
  keyFile,            \* for each name the key stored, fresh ones by their maker
  lock,               \* who holds the lock of _identity.json
  at,                 \* where each program stands
  readName,           \* the name it read when it opened the store
  presented,          \* history: the keys programs have gone on with
  crashes

folderVars == <<oldName, qualified, knew, name, hubPin, keyFile, lock, at, readName,
                presented, crashes>>

FolderTypeOK ==
  /\ oldName \in Names /\ qualified \in BOOLEAN /\ knew \in BOOLEAN
  /\ name \in Names \cup {Missing} /\ hubPin \in {Old, Own, Missing}
  /\ keyFile \in [Names -> {Old, Missing} \cup Devices]
  /\ lock \in Devices \cup {Missing}
  /\ at \in [Devices -> {"start", "lock", "pins", "copy", "open", "prepare", "link", "read", "in"}]
  /\ readName \in [Devices -> Names]
  /\ \A d \in Devices: at[d] \in {"pins", "copy"} <=> lock = d
  /\ \A d \in Devices: at[d] \in {"read", "in"} => keyFile[readName[d]] # Missing
  /\ presented \subseteq {Old} \cup Devices /\ crashes \in 0..MaxCrashes

FolderInit ==
  /\ oldName \in Names /\ qualified \in BOOLEAN /\ knew = qualified
  /\ name = Missing /\ hubPin \in {Missing, Own}
  /\ keyFile = [n \in Names |-> Missing] /\ lock = Missing
  /\ at = [d \in Devices |-> "start"] /\ readName = [d \in Devices |-> Unnamed]
  /\ presented = {} /\ crashes = 0

Moves(d, to) == at' = [at EXCEPT ![d] = to]

\* mutant: an identity file there stops the copy as a key does.
AnyTrace == name # Missing \/ \E n \in Names: keyFile[n] # Missing

HasKey == \E n \in Names: keyFile[n] # Missing

-----------------------------------------------------------------------------
(* adopt_legacy_key() up to the lock: a key here, or an old folder that never  *)
(* met this hub, leaves nothing to take over.                                  *)
Look(d) ==
  /\ at[d] = "start"
  /\ Moves(d, IF HasKey \/ ~qualified THEN "open" ELSE "lock")
  /\ UNCHANGED <<oldName, qualified, knew, name, hubPin, keyFile, lock, readName, presented, crashes>>

TakeLock(d) ==
  /\ at[d] = "lock" /\ lock = Missing
  /\ IF HasKey THEN Moves(d, "open") /\ UNCHANGED lock
               ELSE Moves(d, "pins") /\ lock' = d
  /\ UNCHANGED <<oldName, qualified, knew, name, hubPin, keyFile, readName, presented, crashes>>

\* mutant: the pins here are the only ones kept.
OwnPin == hubPin

KeptPin == IF hubPin = Missing THEN Old ELSE hubPin

(* The pins first, those already here kept, and the key last.                  *)
WritePins(d) ==
  /\ at[d] = "pins" /\ Moves(d, "copy") /\ name' = oldName
  /\ hubPin' = KeptPin
  /\ UNCHANGED <<oldName, qualified, knew, keyFile, lock, readName, presented, crashes>>

\* mutant: the rename replaces what another program linked meanwhile.
Replaces(n, key) == [keyFile EXCEPT ![n] = key]

(* os.link() never replaces.                                                   *)
Linked(n, key) == [keyFile EXCEPT ![n] = IF @ = Missing THEN key ELSE @]

CopyKey(d) ==
  /\ at[d] = "copy" /\ Moves(d, "open") /\ lock' = Missing
  /\ keyFile' = Linked(oldName, Old)
  /\ UNCHANGED <<oldName, qualified, knew, name, hubPin, readName, presented, crashes>>

(* NoiseIdentityStore(): what _identity.json says now is kept in memory.       *)
OpenStore(d) ==
  /\ at[d] = "open" /\ Moves(d, "prepare")
  /\ readName' = [readName EXCEPT ![d] = IF name = Missing THEN Unnamed ELSE name]
  /\ UNCHANGED <<oldName, qualified, knew, name, hubPin, keyFile, lock, presented, crashes>>

NeedsKey(d) == keyFile[readName[d]] = Missing

(* prepare_noise_key(), which takes no lock other programs see.                *)
Prepare(d) ==
  /\ at[d] = "prepare"
  /\ Moves(d, IF NeedsKey(d) THEN "link" ELSE "read")
  /\ UNCHANGED <<oldName, qualified, knew, name, hubPin, keyFile, lock, readName, presented, crashes>>

MakeKey(d) ==
  /\ at[d] = "link" /\ Moves(d, "read") /\ keyFile' = Linked(readName[d], d)
  /\ UNCHANGED <<oldName, qualified, knew, name, hubPin, lock, readName, presented, crashes>>

ReadKey(d) ==
  /\ at[d] = "read" /\ Moves(d, "in")
  /\ presented' = presented \cup {keyFile[readName[d]]}
  /\ UNCHANGED <<oldName, qualified, knew, name, hubPin, keyFile, lock, readName, crashes>>

-----------------------------------------------------------------------------
(* A program dies, and the lock the system held for it goes with it.           *)
Dies(d) ==
  /\ crashes < MaxCrashes /\ at[d] # "start" /\ crashes' = crashes + 1
  /\ Moves(d, "start") /\ lock' = IF lock = d THEN Missing ELSE lock
  /\ readName' = [readName EXCEPT ![d] = Unnamed]
  /\ UNCHANGED <<oldName, qualified, knew, name, hubPin, keyFile, presented>>

(* A program that still uses the old folder pins the hub there.                *)
OldFolderMeetsHub ==
  /\ ~qualified /\ oldName \in LateNames /\ qualified' = TRUE
  /\ UNCHANGED <<oldName, knew, name, hubPin, keyFile, lock, at, readName, presented, crashes>>

FolderStep(d) ==
  \/ Look(d) \/ TakeLock(d) \/ WritePins(d) \/ CopyKey(d) \/ OpenStore(d) \/ Prepare(d)
  \/ MakeKey(d) \/ ReadKey(d)

FolderNext == (\E d \in Devices: FolderStep(d) \/ Dies(d)) \/ OldFolderMeetsHub

FolderSpec == FolderInit /\ [][FolderNext]_folderVars

-----------------------------------------------------------------------------
(* All programs that read one identity file present one static key to the hub, *)
(* which pins the first it sees (277-287).                                     *)
OneKey == Cardinality(presented) <= 1

(* A device whose key the hub already knows is never given another, wherever   *)
(* the programs that copy it were interrupted (332-345).                       *)
KnownKeyStays == knew => presented \subseteq {Old}

(* The old key is never here without a pin that checks its hub (381-383).      *)
KeyComesWithPin == (\E n \in Names: keyFile[n] = Old) => hubPin # Missing

=============================================================================
