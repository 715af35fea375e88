------------------------------- MODULE Noise_proofs -------------------------------
(* What the two ends of a session, and the programs of a state folder, agree on:  *)
(* for any number of programs, names, keys, callers and messages of any size.     *)
EXTENDS MCNoise, SequenceTheorems, FiniteSetTheorems, TLAPS

-----------------------------------------------------------------------------
(* NoiseNegotiation: a session's key was the pin when its epoch was.            *)
TrustInv ==
  /\ epoch \in Nat /\ trusts \in [Programs -> [key: HubKeys \cup {None}, epoch: Nat]]
  /\ answer \in [Programs -> [key: HubKeys \cup {None}, password: Passwords \cup {None}]]
  /\ hubKey \in HubKeys /\ hubPassword \in Passwords
  /\ \A p \in Programs : trusts[p].epoch <= epoch
  /\ OneTrust

LEMMA TrustInitial == NegotiationInit => TrustInv
BY NegotiationShape DEF NegotiationInit, TrustInv, OneTrust, NoTrust, Nothing

(* What a step does to the trust: nothing, forgets it, gives it to the pinned   *)
(* key or to the one it pins, or begins another epoch.                          *)
Distrusts(p) == UNCHANGED <<pin, epoch>> /\ trusts' = [trusts EXCEPT ![p] = NoTrust]
Trusts(p) ==
  /\ pin \in {None, answer[p].key} /\ pin' = answer[p].key /\ epoch' = epoch
  /\ trusts' = [trusts EXCEPT ![p] = [key |-> answer[p].key, epoch |-> epoch]]
Begins == epoch' = epoch + 1 /\ trusts' = trusts

LEMMA TrustKept ==
  ASSUME TrustInv, answer' \in [Programs -> [key: HubKeys \cup {None}, password: Passwords \cup {None}]],
         hubKey' \in HubKeys, hubPassword' \in Passwords,
         UNCHANGED <<pin, epoch, trusts>> \/ Begins \/ \E p \in Programs : Distrusts(p) \/ Trusts(p)
  PROVE  TrustInv'
<1> USE DEF TrustInv, OneTrust
<1>1. CASE UNCHANGED <<pin, epoch, trusts>>
  BY <1>1
<1>2. ASSUME NEW p \in Programs, Distrusts(p)  PROVE TrustInv'
  <2>1. trusts' \in [Programs -> [key: HubKeys \cup {None}, epoch: Nat]]
    BY <1>2 DEF Distrusts, NoTrust
  <2> QED  BY <1>2, <2>1 DEF Distrusts, NoTrust
<1>3. ASSUME NEW p \in Programs, Trusts(p)  PROVE TrustInv'
  <2>1. trusts' \in [Programs -> [key: HubKeys \cup {None}, epoch: Nat]]
    BY <1>3 DEF Trusts
  <2>2. \A q \in Programs \ {p} : trusts'[q] = trusts[q]
    BY <1>3 DEF Trusts
  <2>3. trusts'[p].key = pin' /\ trusts'[p].epoch = epoch /\ epoch' = epoch
    BY <1>3 DEF Trusts
  <2>4. OneTrust'
    BY <1>3, <2>2, <2>3 DEF Trusts
  <2> QED  BY <2>1, <2>2, <2>3, <2>4
<1>4. CASE Begins
  BY <1>4 DEF Begins
<1> QED  BY <1>1, <1>2, <1>3, <1>4

LEMMA TrustKeeps ==
  ASSUME TrustInv, [NegotiationNext]_negotiationVars
  PROVE  TrustInv'
<1> DEFINE Told == answer' \in [Programs -> [key: HubKeys \cup {None}, password: Passwords \cup {None}]]
           Hub == hubKey' \in HubKeys /\ hubPassword' \in Passwords
           Moved == UNCHANGED <<pin, epoch, trusts>> \/ Begins \/ \E p \in Programs : Distrusts(p) \/ Trusts(p)
<1>a. /\ answer \in [Programs -> [key: HubKeys \cup {None}, password: Passwords \cup {None}]]
      /\ hubKey \in HubKeys /\ hubPassword \in Passwords
      /\ Nothing \in [key: HubKeys \cup {None}, password: Passwords \cup {None}]
  BY DEF TrustInv, Nothing
<1>0. SUFFICES ASSUME NegotiationNext PROVE TrustInv'
  <2>1. CASE UNCHANGED negotiationVars
    BY <2>1 DEF TrustInv, OneTrust, negotiationVars
  <2> QED  BY <2>1
<1>1. ASSUME NEW p \in Programs, Connect(p)  PROVE Told /\ Hub /\ Moved
  BY <1>a, <1>1 DEF Connect, Attempt, Set, Distrusts, hub, env
<1>2. ASSUME NEW p \in Programs, Offered(p) \/ Derive(p) \/ Begin(p) \/ ReadAnswer(p) \/ Drop(p)
      PROVE Told /\ Hub /\ Moved
  BY <1>a, <1>2 DEF Offered, Derive, Begin, ReadAnswer, Drop, hub, env
<1>3. ASSUME NEW p \in Programs, HubAnswers(p)  PROVE Told /\ Hub /\ Moved
  BY <1>a, <1>3 DEF HubAnswers, Set, hub, env
<1>4. ASSUME NEW p \in Programs, HubRefuses(p) \/ ReadFails(p)  PROVE Told /\ Hub /\ Moved
  <2>1. Refused(p)  BY <1>4 DEF HubRefuses, ReadFails
  <2>2. UNCHANGED <<hubKey, hubPassword, pin, epoch>>  BY <2>1 DEF Refused, hub, env
  <2>3. CASE Attempt(p, TRUE)
    BY <1>a, <2>2, <2>3 DEF Attempt, Set, Distrusts
  <2>4. CASE Ends(p, "refused") /\ UNCHANGED trusts
    BY <1>a, <2>2, <2>4 DEF Ends, Cleared, Set
  <2> QED  BY <2>1, <2>3, <2>4 DEF Refused
<1>5. ASSUME NEW p \in Programs, CheckPin(p)  PROVE Told /\ Hub /\ Moved
  <2>1. UNCHANGED <<hubKey, hubPassword, pin, epoch>>  BY <1>5 DEF CheckPin, hub, env
  <2>2. CASE UNCHANGED <<trusts, answer>>
    BY <1>a, <2>1, <2>2
  <2>3. CASE pin = answer[p].key /\ Accepts(p)
    BY <1>a, <2>1, <2>3 DEF Accepts, Cleared, Set, Trusts
  <2>4. CASE Ends(p, "keyChanged") /\ UNCHANGED trusts
    BY <1>a, <2>1, <2>4 DEF Ends, Cleared, Set
  <2> QED  BY <1>5, <2>2, <2>3, <2>4 DEF CheckPin, Kept
<1>6. ASSUME NEW p \in Programs, WritePin(p)  PROVE Told /\ Hub /\ Moved
  <2>1. UNCHANGED <<hubKey, hubPassword, epoch>>  BY <1>6 DEF WritePin, hub, env
  <2>2. CASE MayPin(p) /\ pin' = answer[p].key /\ Accepts(p)
    BY <1>a, <2>1, <2>2 DEF Accepts, Cleared, Set, Trusts, MayPin
  <2>3. CASE Ends(p, "keyChanged") /\ UNCHANGED <<pin, trusts>>
    BY <1>a, <2>1, <2>3 DEF Ends, Cleared, Set
  <2> QED  BY <1>6, <2>2, <2>3 DEF WritePin
<1>7. ASSUME NEW p \in Programs, Notices(p) \/ Disconnect(p)  PROVE Told /\ Hub /\ Moved
  BY <1>a, <1>7 DEF Notices, Disconnect, Ends, Cleared, Set, hub, env
<1>8. ASSUME NEW p \in Programs, Restart(p)  PROVE Told /\ Hub /\ Moved
  BY <1>a, <1>8 DEF Restart, Cleared, Set, Distrusts, hub
<1>9. ASSUME Forget \/ HubChangesKey \/ HubChangesPassword  PROVE Told /\ Hub /\ Moved
  BY <1>a, <1>9, NegotiationShape DEF Forget, HubChangesKey, HubChangesPassword, hub, env, Begins
<1>b. ASSUME Told, Hub, Moved  PROVE TrustInv'
  BY <1>b, TrustKept
<1>c. CASE \E p \in Programs : Connect(p) \/ Negotiates(p) \/ Drop(p) \/ Disconnect(p) \/ Restart(p)
  <2>1. PICK p \in Programs : Connect(p) \/ Negotiates(p) \/ Drop(p) \/ Disconnect(p) \/ Restart(p)
    BY <1>c
  <2>2. Told /\ Hub /\ Moved
    BY <2>1, <1>1, <1>2, <1>3, <1>4, <1>5, <1>6, <1>7, <1>8 DEF Negotiates
  <2> QED  BY <2>2, <1>b
<1>d. CASE Forget \/ HubChangesKey \/ HubChangesPassword
  BY <1>d, <1>9, <1>b
<1> QED  BY <1>0, <1>c, <1>d DEF NegotiationNext

-----------------------------------------------------------------------------
(* StateFolder.                                                                 *)
HasLock == {"pins", "copy"}
FolderTables ==
  /\ oldName \in Names /\ qualified \in BOOLEAN /\ knew \in BOOLEAN
  /\ hubPin \in {Old, Own, Missing} /\ name \in Names \cup {Missing}
  /\ keyFile \in [Names -> {Old, Missing} \cup Devices]
  /\ at \in [Devices -> {"start", "lock", "pins", "copy", "open", "prepare", "link", "read", "in"}]
  /\ readName \in [Devices -> Names]

(* The old key is copied only once the pin is there.                            *)
PinFirst ==
  /\ \A d \in Devices : at[d] = "copy" => hubPin # Missing
  /\ KeyComesWithPin

Adopts == \A d \in Devices : at[d] \in {"lock", "pins", "copy"} => qualified

(* A known device: its key is at the old name or nowhere yet, and a program that *)
(* opens the store finds it there.                                              *)
KnownDevice ==
  knew =>
    /\ qualified /\ name \in {Missing, oldName}
    /\ \A n \in Names : keyFile[n] = Missing \/ (n = oldName /\ keyFile[n] = Old)
    /\ keyFile[oldName] # Missing => name = oldName
    /\ \A d \in Devices :
         /\ at[d] = "copy" => name = oldName
         /\ at[d] \in {"open", "prepare", "read", "in"} => keyFile[oldName] # Missing
         /\ at[d] \in {"prepare", "read", "in"} => readName[d] = oldName
         /\ at[d] # "link"
    /\ presented \subseteq {Old}

(* An unknown one: every program works at Unnamed.                              *)
NewDevice ==
  ~knew =>
    /\ qualified => oldName = Unnamed
    /\ name \in {Missing, Unnamed}
    /\ \A n \in Names \ {Unnamed} : keyFile[n] = Missing
    /\ \A d \in Devices :
         /\ readName[d] = Unnamed
         /\ at[d] \in {"read", "in"} => keyFile[Unnamed] # Missing
    /\ presented \subseteq {keyFile[Unnamed]} \ {Missing}

KnownInv == FolderTables /\ PinFirst /\ Adopts /\ KnownDevice

LEMMA KnownInitial == FolderInit => KnownInv
BY FolderShape DEF FolderInit, KnownInv, FolderTables, PinFirst, KeyComesWithPin, Adopts, KnownDevice, Old, Own

LEMMA NewInitial == FolderInit => (oldName = Unnamed \/ ~qualified \/ knew) /\ NewDevice
BY FolderShape DEF FolderInit, NewDevice

LEMMA KnownKeeps ==
  ASSUME KnownInv, [FolderNext]_folderVars
  PROVE  KnownInv'
<1> USE FolderShape DEF KnownInv, FolderTables, PinFirst, KeyComesWithPin, Adopts, KnownDevice, HasKey, Moves
<1>1. ASSUME NEW d \in Devices, Look(d)  PROVE KnownInv'
  BY <1>1 DEF Look
<1>2. ASSUME NEW d \in Devices, TakeLock(d)  PROVE KnownInv'
  BY <1>2 DEF TakeLock
<1>3. ASSUME NEW d \in Devices, WritePins(d)  PROVE KnownInv'
  BY <1>3 DEF WritePins, KeptPin, Old, Own
<1>4. ASSUME NEW d \in Devices, CopyKey(d)  PROVE KnownInv'
  <2>1. /\ keyFile' = [keyFile EXCEPT ![oldName] = IF @ = Missing THEN Old ELSE @]
        /\ at' = [at EXCEPT ![d] = "open"] /\ at[d] = "copy"
        /\ UNCHANGED <<oldName, qualified, knew, name, hubPin, readName, presented>>
    BY <1>4 DEF CopyKey, Linked
  <2>2. keyFile'[oldName] # Missing /\ \A n \in Names \ {oldName} : keyFile'[n] = keyFile[n]
    BY <2>1 DEF Old
  <2>3. keyFile' \in [Names -> {Old, Missing} \cup Devices]  BY <2>1
  <2>4. keyFile'[oldName] \in {keyFile[oldName], Old}  BY <2>1
  <2>5. KnownDevice'  BY <2>1, <2>2, <2>4
  <2>6. PinFirst'  BY <2>1
  <2>7. FolderTables'  BY <2>1, <2>3
  <2>8. Adopts'  BY <2>1
  <2> HIDE DEF FolderTables, PinFirst, Adopts, KnownDevice
  <2> QED  BY <2>5, <2>6, <2>7, <2>8
<1>5. ASSUME NEW d \in Devices, OpenStore(d)  PROVE KnownInv'
  <2>1. /\ readName' = [readName EXCEPT ![d] = IF name = Missing THEN Unnamed ELSE name]
        /\ at' = [at EXCEPT ![d] = "prepare"] /\ at[d] = "open"
        /\ UNCHANGED <<oldName, qualified, knew, name, hubPin, keyFile, presented>>
    BY <1>5 DEF OpenStore
  <2>2. readName' \in [Devices -> Names]
    <3>1. (IF name = Missing THEN Unnamed ELSE name) \in Names  BY <1>5 DEF OpenStore
    <3> QED  BY <2>1, <3>1
  <2>3. knew => readName' = [readName EXCEPT ![d] = oldName]
    <3>1. knew => name = oldName  BY <2>1
    <3> QED  BY <2>1, <3>1
  <2>4. KnownDevice'  BY <2>1, <2>2, <2>3
  <2> QED  BY <2>1, <2>2, <2>4
<1>6. ASSUME NEW d \in Devices, Prepare(d)  PROVE KnownInv'
  BY <1>6 DEF Prepare, NeedsKey
<1>7. ASSUME NEW d \in Devices, MakeKey(d)  PROVE KnownInv'
  BY <1>7 DEF MakeKey, Linked, Old
<1>8. ASSUME NEW d \in Devices, ReadKey(d)  PROVE KnownInv'
  BY <1>8 DEF ReadKey
<1>9. ASSUME NEW d \in Devices, Dies(d)  PROVE KnownInv'
  BY <1>9 DEF Dies
<1>10. CASE OldFolderMeetsHub
  BY <1>10 DEF OldFolderMeetsHub
<1>11. CASE UNCHANGED folderVars
  BY <1>11 DEF folderVars
<1> QED  BY <1>1, <1>2, <1>3, <1>4, <1>5, <1>6, <1>7, <1>8, <1>9, <1>10, <1>11 DEF FolderNext, FolderStep

LEMMA NewKeeps ==
  ASSUME LateNames \subseteq {Unnamed}, KnownInv, NewDevice, [FolderNext]_folderVars
  PROVE  NewDevice'
<1> USE FolderShape DEF FolderTables, Adopts, NewDevice, HasKey, Moves
<1>0. FolderTables /\ Adopts  BY DEF KnownInv
<1>1. ASSUME NEW d \in Devices, Look(d) \/ TakeLock(d)  PROVE NewDevice'
  BY <1>0, <1>1 DEF Look, TakeLock
<1>3. ASSUME NEW d \in Devices, WritePins(d)  PROVE NewDevice'
  BY <1>0, <1>3 DEF WritePins
<1>4. ASSUME NEW d \in Devices, CopyKey(d)  PROVE NewDevice'
  BY <1>0, <1>4 DEF CopyKey, Linked, Old
<1>5. ASSUME NEW d \in Devices, OpenStore(d)  PROVE NewDevice'
  BY <1>0, <1>5 DEF OpenStore
<1>6. ASSUME NEW d \in Devices, Prepare(d)  PROVE NewDevice'
  BY <1>0, <1>6 DEF Prepare, NeedsKey
<1>7. ASSUME NEW d \in Devices, MakeKey(d)  PROVE NewDevice'
  BY <1>0, <1>7 DEF MakeKey, Linked, Old
<1>8. ASSUME NEW d \in Devices, ReadKey(d)  PROVE NewDevice'
  BY <1>0, <1>8 DEF ReadKey
<1>9. ASSUME NEW d \in Devices, Dies(d)  PROVE NewDevice'
  BY <1>0, <1>9 DEF Dies
<1>10. CASE OldFolderMeetsHub
  BY <1>0, <1>10 DEF OldFolderMeetsHub
<1>11. CASE UNCHANGED folderVars
  BY <1>11 DEF folderVars
<1> QED  BY <1>1, <1>3, <1>4, <1>5, <1>6, <1>7, <1>8, <1>9, <1>10, <1>11 DEF FolderNext, FolderStep

(* At most one key was presented: the old one, or the one at Unnamed.           *)
LEMMA OneKeyPresented == KnownInv /\ NewDevice => OneKey
<1> SUFFICES ASSUME KnownInv, NewDevice PROVE OneKey  OBVIOUS
<1> DEFINE key == IF knew THEN Old ELSE keyFile[Unnamed]
<1>1. presented \subseteq {key}  BY DEF KnownInv, KnownDevice, NewDevice, FolderTables
<1>2. IsFiniteSet({key}) /\ Cardinality({key}) = 1  BY FS_Singleton
<1>3. Cardinality(presented) <= Cardinality({key})  BY <1>1, <1>2, FS_Subset
<1> QED  BY <1>2, <1>3 DEF OneKey

-----------------------------------------------------------------------------
(* NoiseFrames: how a message is cut into chunks.                               *)
LEMMA MinOfTwo == ASSUME NEW a \in Int, NEW b \in Int PROVE Min({a, b}) = IF a <= b THEN a ELSE b
BY DEF Min
LEMMA MaxOfTwo == ASSUME NEW a \in Int, NEW b \in Int PROVE Max({a, b}) = IF a >= b THEN a ELSE b
BY DEF Max
LEMMA Times == ASSUME NEW a \in Nat, NEW b \in Nat, NEW c \in Nat, a <= b PROVE a * c <= b * c /\ a * c \in Nat
OBVIOUS
LEMMA Division == ASSUME NEW a \in Nat, NEW c \in Nat \ {0} PROVE (a \div c) \in Nat /\ c * (a \div c) <= a /\ a < c * (a \div c) + c
OBVIOUS
LEMMA ChunksCover ==
  ASSUME NEW size \in Nat
  PROVE  /\ Chunks(size) \in Nat \ {0} /\ (size <= ChunkSize <=> Chunks(size) = 1)
         /\ size <= Chunks(size) * ChunkSize
         /\ \A i \in Nat \ {0} : i < Chunks(size) => i * ChunkSize < size
<1> USE FrameShape
<1>1. CASE size <= ChunkSize
  BY <1>1 DEF Chunks
<1>2. CASE size > ChunkSize
  <2> DEFINE n == (size + ChunkSize - 1) \div ChunkSize
  <2>1. Chunks(size) = n  BY <1>2 DEF Chunks
  <2>2. n \in Nat /\ ChunkSize * n <= size + ChunkSize - 1 /\ size + ChunkSize - 1 < ChunkSize * n + ChunkSize
    <3>1. size + ChunkSize - 1 \in Nat  OBVIOUS
    <3> QED  BY <3>1, Division
  <2> HIDE DEF n
  <2>3. n > 1
    <3>1. CASE n = 0  BY <2>2, <3>1, <1>2
    <3>2. CASE n = 1  BY <2>2, <3>2, <1>2
    <3> QED  BY <2>2, <3>1, <3>2
  <2>4. n * ChunkSize = ChunkSize * n  BY <2>2
  <2>5. ASSUME NEW i \in Nat \ {0}, i < n  PROVE i * ChunkSize < size
    <3>1. (i + 1) * ChunkSize <= n * ChunkSize  BY <2>2, <2>5, Times
    <3>2. (i + 1) * ChunkSize = i * ChunkSize + ChunkSize  OBVIOUS
    <3>3. i * ChunkSize \in Int /\ n * ChunkSize \in Int  BY <2>2
    <3> QED  BY <2>2, <2>4, <3>1, <3>2, <3>3
  <2> QED  BY <1>2, <2>1, <2>2, <2>3, <2>4, <2>5
<1> QED  BY <1>1, <1>2

(* The marker of chunk i, from 1, tells whether it is the first or the last.    *)
LEMMA Markings ==
  ASSUME NEW size \in Nat, NEW i \in 1..Chunks(size)
  PROVE  /\ Chunks(size) = 1 => MarkerOf(i - 1, size) = "whole"
         /\ Chunks(size) # 1 /\ i = 1 => MarkerOf(i - 1, size) = "first"
         /\ i # 1 /\ i < Chunks(size) => MarkerOf(i - 1, size) = "more"
         /\ i # 1 /\ i = Chunks(size) => MarkerOf(i - 1, size) = "last"
<1> USE FrameShape
<1>0. Chunks(size) \in Nat \ {0} /\ i \in Nat /\ i - 1 \in Nat /\ i * ChunkSize \in Int /\ (i - 1) * ChunkSize \in Int
  BY ChunksCover
<1>1. (i - 1) * ChunkSize = i * ChunkSize - ChunkSize  BY <1>0
<1>2. CASE Chunks(size) = 1
  BY <1>2, ChunksCover DEF MarkerOf
<1>3. CASE Chunks(size) # 1
  <2>1. size > ChunkSize  BY <1>3, ChunksCover
  <2>2. i < Chunks(size) => i * ChunkSize < size  BY <1>0, ChunksCover
  <2>3. i = Chunks(size) => i * ChunkSize >= size  BY <1>0, ChunksCover
  <2> QED  BY <1>0, <1>1, <1>3, <2>1, <2>2, <2>3 DEF MarkerOf
<1> QED  BY <1>2, <1>3

Ending(c, i) == IF i < Chunks(SizeOf[c]) THEN i * ChunkSize ELSE SizeOf[c]
PartOf(c, start, i) ==
  [nonce |-> start + i - 1, marker |-> MarkerOf(i - 1, SizeOf[c]), json |-> IsJson[c],
   body |-> SubSeq(Bytes(c), (i - 1) * ChunkSize + 1, Ending(c, i))]

Octets == Seq(Senders \X Nat)
Frame == [nonce: Nat, marker: Markers, json: BOOLEAN, body: Octets]

LEMMA BytesAre ==
  ASSUME NEW c \in Senders
  PROVE  Bytes(c) \in Octets /\ Len(Bytes(c)) = SizeOf[c] /\ SubSeq(Bytes(c), 1, SizeOf[c]) = Bytes(c)
<1>1. SizeOf[c] \in Nat  BY FrameShape
<1>2. Bytes(c) \in [1..SizeOf[c] -> Senders \X Nat]  BY <1>1 DEF Bytes
<1>3. Bytes(c) \in Octets /\ Len(Bytes(c)) = SizeOf[c]  BY <1>1, <1>2 DEF Octets
<1> HIDE DEF Octets
<1>4. SubSeq(Bytes(c), 1, SizeOf[c]) = Bytes(c)  BY <1>3, SubSeqFull DEF Octets
<1> QED  BY <1>3, <1>4

(* Where a chunk begins and ends within its message.                            *)
LEMMA Bounds ==
  ASSUME NEW c \in Senders, NEW i \in 1..Chunks(SizeOf[c])
  PROVE  /\ (i - 1) * ChunkSize \in 0..Ending(c, i) /\ Ending(c, i) \in 0..SizeOf[c]
         /\ Ending(c, i) = Min({i * ChunkSize, SizeOf[c]})
         /\ i = Chunks(SizeOf[c]) => Ending(c, i) = SizeOf[c]
         /\ Chunks(SizeOf[c]) # 1 => SizeOf[c] > ChunkSize
<1> DEFINE size == SizeOf[c]  n == Chunks(size)  lo == (i - 1) * ChunkSize  hi == i * ChunkSize
<1>1. size \in Nat /\ n \in Nat \ {0} /\ i \in Nat \ {0} /\ i <= n /\ ChunkSize \in Nat \ {0}
  BY FrameShape, ChunksCover
<1>2. lo \in Nat /\ hi \in Nat /\ lo <= hi  BY <1>1, Times
<1>3. i < n => hi < size  BY <1>1, ChunksCover
<1>4. i = n => hi >= size  BY <1>1, ChunksCover
<1>5. lo <= size
  <2>1. CASE i = 1  BY <1>1, <2>1
  <2>2. CASE i # 1
    <3>1. i - 1 \in Nat \ {0} /\ i - 1 < n  BY <1>1, <2>2
    <3>2. (i - 1) * ChunkSize < size  BY <1>1, <3>1, ChunksCover
    <3> QED  BY <1>1, <1>2, <3>2
  <2> QED  BY <2>1, <2>2
<1>6. n # 1 => size > ChunkSize  BY <1>1, ChunksCover
<1>7. Min({hi, size}) = IF hi <= size THEN hi ELSE size  BY <1>1, <1>2, MinOfTwo
<1>8. Ending(c, i) = IF i < n THEN hi ELSE size  BY DEF Ending
<1>9. Min({i * ChunkSize, SizeOf[c]}) = Min({hi, size}) /\ (n = Chunks(SizeOf[c])) /\ size = SizeOf[c] /\ lo = (i - 1) * ChunkSize
  OBVIOUS
<1> HIDE DEF size, n, lo, hi
<1>10. /\ lo \in 0..Ending(c, i) /\ Ending(c, i) \in 0..size /\ Ending(c, i) = Min({hi, size})
       /\ i = n => Ending(c, i) = size
  BY <1>1, <1>2, <1>3, <1>4, <1>5, <1>7, <1>8
<1> QED  BY <1>6, <1>9, <1>10

LEMMA PartIsAFrame ==
  ASSUME NEW c \in Senders, NEW start \in Nat, NEW i \in 1..Chunks(SizeOf[c])
  PROVE  PartOf(c, start, i) \in Frame
<1>1. SizeOf[c] \in Nat /\ i - 1 \in Nat /\ start + i - 1 \in Nat /\ IsJson[c] \in BOOLEAN
  BY FrameShape, ChunksCover
<1>2. MarkerOf(i - 1, SizeOf[c]) \in Markers  BY DEF MarkerOf, Markers
<1>3. SubSeq(Bytes(c), (i - 1) * ChunkSize + 1, Ending(c, i)) \in Octets
  <2>1. (i - 1) * ChunkSize + 1 \in 1..(SizeOf[c] + 1) /\ Ending(c, i) \in 0..SizeOf[c]
    <3>1. (i - 1) * ChunkSize \in 0..Ending(c, i) /\ Ending(c, i) \in 0..SizeOf[c]  BY Bounds
    <3> DEFINE lo == (i - 1) * ChunkSize
    <3>2. lo \in 0..Ending(c, i) /\ Ending(c, i) \in 0..SizeOf[c]  BY <3>1
    <3> HIDE DEF lo
    <3>3. lo + 1 \in 1..(SizeOf[c] + 1)  BY <1>1, <3>2
    <3> QED  BY <3>1, <3>3 DEF lo
  <2>2. \A j \in ((i - 1) * ChunkSize + 1)..Ending(c, i) : Bytes(c)[j] \in Senders \X Nat
    BY <1>1, <2>1 DEF Bytes
  <2> QED  BY <1>1, <2>1, <2>2, SubSeqProperties DEF Octets
<1> QED  BY <1>1, <1>2, <1>3 DEF PartOf, Frame

LEMMA SealedParts ==
  ASSUME NEW c \in Senders
  PROVE  Sealed(c) = [i \in 1..Chunks(SizeOf[c]) |-> PartOf(c, sendNonce, i)]
BY Bounds DEF Sealed, PartOf

(* A chunk put after those before it.                                           *)
LEMMA Grows ==
  ASSUME NEW c \in Senders, NEW i \in 1..Chunks(SizeOf[c])
  PROVE  SubSeq(Bytes(c), 1, (i - 1) * ChunkSize) \o SubSeq(Bytes(c), (i - 1) * ChunkSize + 1, Ending(c, i))
           = SubSeq(Bytes(c), 1, Ending(c, i))
<1>1. (i - 1) * ChunkSize \in 0..Ending(c, i) /\ Ending(c, i) \in 0..SizeOf[c] /\ SizeOf[c] \in Nat
  BY Bounds, FrameShape
<1>2. Bytes(c) \in Seq(Senders \X Nat) /\ Len(Bytes(c)) = SizeOf[c]  BY BytesAre DEF Octets
<1>3. (i - 1) * ChunkSize \in 0..Len(Bytes(c)) /\ Ending(c, i) \in ((i - 1) * ChunkSize)..Len(Bytes(c))
  BY <1>1, <1>2
<1> QED
  <2> DEFINE k == (i - 1) * ChunkSize
  <2>1. k \in 0..Len(Bytes(c)) /\ Ending(c, i) \in k..Len(Bytes(c))  BY <1>3
  <2> HIDE DEF k
  <2>2. SubSeq(Bytes(c), 1, k) \o SubSeq(Bytes(c), k + 1, Ending(c, i)) = SubSeq(Bytes(c), 1, Ending(c, i))
    <3>1. 1 \in 1..(Len(Bytes(c)) + 1) /\ k \in (1 - 1)..Len(Bytes(c))  BY <1>1, <1>2, <2>1
    <3> QED  BY <1>2, <2>1, <3>1, ConcatAdjacentSubSeq
  <2> QED  BY <2>2 DEF k

-----------------------------------------------------------------------------
(* What is on the wire, and where its reader stands.  S gives the nonce at which *)
(* the frames of each message start.                                            *)
Count == Len(sealedBy)
Parts(c) == Chunks(SizeOf[c])
Starts(S) ==
  /\ S \in [1..(Count + 1) -> Nat] /\ S[1] = 0 /\ S[Count + 1] = sendNonce
  /\ \A k \in 1..Count : S[k + 1] = S[k] + Parts(sealedBy[k])
  /\ \A j, k \in 1..(Count + 1) : j < k => S[j] < S[k]

SealedAt(S, f) == \E k \in 1..Count : \E i \in 1..Parts(sealedBy[k]) : f = PartOf(sealedBy[k], S[k], i)
OnlySealed(S) ==
  /\ \A j \in 1..Len(wire) : SealedAt(S, wire[j])
  /\ \A j \in 1..Len(frames) : SealedAt(S, frames[j])

Reading == Len(delivered) + 1
ReadSoFar ==
  /\ Len(delivered) <= Count
  /\ \A j \in 1..Len(delivered) : delivered[j] = Message(sealedBy[j])
Reads(S) ==
  ~dead =>
    \/ open = NoMessage /\ receiveNonce = S[Reading]
    \/ /\ Len(delivered) < Count /\ S[Reading] < receiveNonce /\ receiveNonce < S[Reading + 1]
       /\ open = [bytes |-> SubSeq(Bytes(sealedBy[Reading]), 1, (receiveNonce - S[Reading]) * ChunkSize),
                  json |-> IsJson[sealedBy[Reading]], busy |-> TRUE]

(* On a network that did nothing the frames come in their order, and only the   *)
(* cap stops the reader.                                                        *)
Untouched == tampered = 0 /\ ~broken
InLine ==
  Untouched /\ ~dead =>
    /\ receiveNonce + Len(wire) + Len(frames) = sendNonce
    /\ \A j \in 1..Len(wire) : wire[j].nonce = receiveNonce + j - 1
    /\ \A j \in 1..Len(frames) : frames[j].nonce = receiveNonce + Len(wire) + j - 1
DiesOfTheCap == Untouched /\ dead => Len(delivered) < Count /\ TooBig(sealedBy[Reading])
HolderWrites == holder = Nobody => frames = <<>>

Packet == [bytes: Octets, json: BOOLEAN]
FrameTables ==
  /\ sealedBy \in Seq(Senders) /\ wire \in Seq(Frame) /\ frames \in Seq(Frame) /\ delivered \in Seq(Packet)
  /\ sendNonce \in Nat /\ receiveNonce \in Nat /\ tampered \in Nat

FramesInvAt(S) == Starts(S) /\ OnlySealed(S) /\ ReadSoFar /\ Reads(S) /\ InLine /\ DiesOfTheCap
FramesInv == FrameTables /\ HolderWrites /\ \E S \in [1..(Count + 1) -> Nat] : FramesInvAt(S)

LEMMA FramesInitial == FramesInit => FramesInv
<1> SUFFICES ASSUME FramesInit PROVE FramesInv  OBVIOUS
<1> DEFINE S == [k \in 1..1 |-> 0]
<1>1. /\ sealedBy = <<>> /\ wire = <<>> /\ frames = <<>> /\ delivered = <<>> /\ sendNonce = 0 /\ receiveNonce = 0
      /\ tampered = 0 /\ open = NoMessage /\ dead = FALSE
  BY DEF FramesInit
<1>2. Count = 0 /\ Len(delivered) = 0 /\ Len(wire) = 0 /\ Len(frames) = 0  BY <1>1 DEF Count
<1>3. <<>> \in Seq(Senders) /\ <<>> \in Seq(Frame) /\ <<>> \in Seq(Packet)  OBVIOUS
<1>4. FrameTables /\ HolderWrites  BY <1>1, <1>3 DEF FrameTables, HolderWrites
<1>5. Starts(S) /\ OnlySealed(S) /\ ReadSoFar /\ Reads(S) /\ InLine /\ DiesOfTheCap
  BY <1>1, <1>2 DEF Starts, OnlySealed, ReadSoFar, Reads, InLine, DiesOfTheCap, Reading
<1>6. S \in [1..(Count + 1) -> Nat]  BY <1>2
<1> QED  BY <1>4, <1>5, <1>6 DEF FramesInv, FramesInvAt

(* Calls that wait or are withdrawn leave the frames as they are.               *)
LEMMA FramesAlone ==
  ASSUME FramesInv,
         UNCHANGED <<holder, frames, sealedBy, sendNonce, wire, receiveNonce, open, delivered, dead, broken, tampered>>
  PROVE  FramesInv'
BY DEF FramesInv, FramesInvAt, FrameTables, HolderWrites, Starts, OnlySealed, SealedAt, ReadSoFar, Reads, InLine,
       DiesOfTheCap, Reading, Count, Parts, Untouched

LEMMA SealedStays ==
  ASSUME NEW S, sealedBy' = sealedBy, sendNonce' = sendNonce
  PROVE  /\ Starts(S)' <=> Starts(S)
         /\ \A f : SealedAt(S, f)' <=> SealedAt(S, f)
BY DEF Starts, SealedAt, Count, Parts

(* The holder's next frame goes on the wire, or its write fails.                *)
LEMMA FrameWritten ==
  ASSUME FrameTables, HolderWrites, NEW S, FramesInvAt(S), frames # <<>>, tampered' = tampered,
         UNCHANGED <<sealedBy, sendNonce, receiveNonce, open, delivered, dead>>,
         \/ /\ wire' = Append(wire, Head(frames)) /\ frames' = Tail(frames) /\ broken' = broken
         \/ /\ wire' \in {wire, Append(wire, Head(frames))} /\ frames' = <<>> /\ broken' = TRUE,
         holder' = Nobody => frames' = <<>>
  PROVE  FrameTables' /\ HolderWrites' /\ FramesInvAt(S)'
<1> DEFINE f == Head(frames)
<1>1. /\ f \in Frame /\ Tail(frames) \in Seq(Frame) /\ Len(Tail(frames)) = Len(frames) - 1 /\ Len(frames) \in Nat \ {0}
      /\ f = frames[1] /\ \A j \in 1..(Len(frames) - 1) : Tail(frames)[j] = frames[j + 1]
  BY HeadTailProperties, EmptySeq, LenProperties DEF FrameTables
<1>2. /\ Append(wire, f) \in Seq(Frame) /\ Len(Append(wire, f)) = Len(wire) + 1 /\ Len(wire) \in Nat
      /\ \A j \in 1..Len(wire) : Append(wire, f)[j] = wire[j]
      /\ Append(wire, f)[Len(wire) + 1] = f
  BY <1>1, AppendProperties, LenProperties DEF FrameTables
<1>3. <<>> \in Seq(Frame) /\ Len(<<>>) = 0  OBVIOUS
<1> HIDE DEF f
<1>4. FrameTables' /\ HolderWrites'
  BY <1>1, <1>2, <1>3 DEF FrameTables, HolderWrites, f
<1>5. Starts(S)' /\ ReadSoFar' /\ Reads(S)'
  BY SealedStays DEF FramesInvAt, ReadSoFar, Reads, Reading, Count
<1>6. OnlySealed(S)'
  <2>1. SealedAt(S, f)  BY <1>1 DEF FramesInvAt, OnlySealed
  <2>2. \A j \in 1..Len(wire') : SealedAt(S, wire'[j])
    <3>1. \A j \in 1..Len(wire) : SealedAt(S, wire[j])  BY DEF FramesInvAt, OnlySealed
    <3>2. CASE wire' = wire  BY <3>1, <3>2
    <3>3. CASE wire' = Append(wire, f)
      <4>1. ASSUME NEW j \in 1..(Len(wire) + 1)  PROVE SealedAt(S, Append(wire, f)[j])
        <5>1. CASE j = Len(wire) + 1  BY <1>2, <2>1, <5>1
        <5>2. CASE j \in 1..Len(wire)  BY <1>2, <3>1, <5>2
        <5> QED  BY <1>2, <5>1, <5>2
      <4> QED  BY <1>2, <3>3, <4>1
    <3> QED  BY <3>2, <3>3 DEF f
  <2>3. \A j \in 1..Len(frames') : SealedAt(S, frames'[j])
    BY SMTT(30), <1>1, <1>3 DEF FramesInvAt, OnlySealed
  <2> QED  BY <2>2, <2>3, SealedStays DEF OnlySealed
<1>7. InLine'
  <2>1. CASE broken'  BY <2>1 DEF InLine, Untouched
  <2>2. CASE wire' = Append(wire, f) /\ frames' = Tail(frames) /\ broken' = broken
    <3> SUFFICES ASSUME (Untouched /\ ~dead)'  PROVE /\ (receiveNonce + Len(wire) + Len(frames) = sendNonce)'
                  /\ (\A j \in 1..Len(wire) : wire[j].nonce = receiveNonce + j - 1)'
                  /\ (\A j \in 1..Len(frames) : frames[j].nonce = receiveNonce + Len(wire) + j - 1)'
      BY DEF InLine
    <3>1. /\ receiveNonce + Len(wire) + Len(frames) = sendNonce
          /\ \A j \in 1..Len(wire) : wire[j].nonce = receiveNonce + j - 1
          /\ \A j \in 1..Len(frames) : frames[j].nonce = receiveNonce + Len(wire) + j - 1
      BY <2>2 DEF FramesInvAt, InLine, Untouched
    <3>2. f.nonce = receiveNonce + Len(wire)  BY <1>1, <1>2, <3>1 DEF FrameTables
    <3>3. Len(wire') = Len(wire) + 1 /\ Len(frames') = Len(frames) - 1  BY <1>1, <1>2, <2>2
    <3>a. receiveNonce \in Nat /\ Len(wire) \in Nat /\ Len(frames) \in Nat  BY <1>1, <1>2 DEF FrameTables
    <3>4. receiveNonce + Len(wire') + Len(frames') = sendNonce
      <4>1. receiveNonce + (Len(wire) + 1) + (Len(frames) - 1) = receiveNonce + Len(wire) + Len(frames)  BY <3>a
      <4> QED  BY <3>1, <3>3, <4>1
    <3>5. \A j \in 1..Len(wire') : wire'[j].nonce = receiveNonce + j - 1
      <4>1. wire'[Len(wire) + 1] = f /\ \A j \in 1..Len(wire) : wire'[j] = wire[j]
        BY <1>2, <2>2, AppendProperties DEF FrameTables
      <4>2. ASSUME NEW j \in 1..Len(wire') PROVE wire'[j].nonce = receiveNonce + j - 1
        <5>1. j \in 1..Len(wire) \/ j = Len(wire) + 1  BY <3>3, <3>a
        <5>2. CASE j \in 1..Len(wire)  BY <3>1, <4>1, <5>2
        <5>3. CASE j = Len(wire) + 1
          <6>1. receiveNonce + j - 1 = receiveNonce + Len(wire)  BY <3>a, <5>3
          <6> QED  BY <3>2, <4>1, <5>3, <6>1
        <5> QED  BY <5>1, <5>2, <5>3
      <4> QED  BY <4>2
    <3>6. \A j \in 1..Len(frames') : frames'[j].nonce = receiveNonce + Len(wire') + j - 1
      BY <1>1, <1>2, <2>2, <3>1, <3>3 DEF FrameTables
    <3> QED  BY <3>4, <3>5, <3>6
  <2> QED  BY <2>1, <2>2 DEF f
<1>8. DiesOfTheCap'
  BY DEF FramesInvAt, DiesOfTheCap, Untouched, Count, Reading
<1> QED  BY <1>4, <1>5, <1>6, <1>7, <1>8 DEF FramesInvAt

(* A message is sealed: its frames follow those sealed before.                  *)
LEMMA MessageSealed ==
  ASSUME FrameTables, HolderWrites, NEW S, FramesInvAt(S), NEW c \in Senders, holder = Nobody, holder' = c,
         frames' = Sealed(c), sendNonce' = sendNonce + Chunks(SizeOf[c]), sealedBy' = Append(sealedBy, c),
         UNCHANGED <<wire, receiveNonce, open, delivered, dead, broken, tampered>>,
         NEW T, T = [k \in 1..(Count + 2) |-> IF k <= Count + 1 THEN S[k] ELSE sendNonce + Chunks(SizeOf[c])]
  PROVE  FrameTables' /\ HolderWrites' /\ FramesInvAt(T)' /\ T \in [1..(Count' + 1) -> Nat]
<1> DEFINE n == Chunks(SizeOf[c])
<1>1. n \in Nat \ {0} /\ sendNonce \in Nat /\ receiveNonce \in Nat /\ Len(wire) \in Nat /\ Count \in Nat
  BY ChunksCover, FrameShape, LenProperties DEF FrameTables, Count
<1>2. frames = <<>>  BY DEF HolderWrites
<1>3. /\ frames' = [i \in 1..n |-> PartOf(c, sendNonce, i)]
      /\ \A i \in 1..n : PartOf(c, sendNonce, i) \in Frame /\ PartOf(c, sendNonce, i).nonce = sendNonce + i - 1
  BY <1>1, SealedParts, PartIsAFrame DEF PartOf
<1>4. frames' \in Seq(Frame) /\ Len(frames') = n
  BY <1>1, <1>3
<1>5. /\ sealedBy' \in Seq(Senders) /\ Count' = Count + 1 /\ sealedBy'[Count + 1] = c
      /\ \A k \in 1..Count : sealedBy'[k] = sealedBy[k]
  BY AppendProperties DEF FrameTables, Count
<1>6. sendNonce' = sendNonce + n /\ T = [k \in 1..(Count + 2) |-> IF k <= Count + 1 THEN S[k] ELSE sendNonce + n]
  OBVIOUS
<1>7. (\A k \in 1..Count : Parts(sealedBy'[k]) = Parts(sealedBy[k])) /\ Parts(sealedBy'[Count + 1]) = n
  BY <1>5 DEF Parts
<1> HIDE DEF n
<1>8. /\ S \in [1..(Count + 1) -> Nat] /\ S[1] = 0 /\ S[Count + 1] = sendNonce
      /\ \A k \in 1..Count : S[k + 1] = S[k] + Parts(sealedBy[k])
      /\ \A j, k \in 1..(Count + 1) : j < k => S[j] < S[k]
  BY DEF FramesInvAt, Starts
<1>9. T \in [1..(Count' + 1) -> Nat]  BY SMTT(30), <1>1, <1>5, <1>6, <1>8
<1>10. (\A k \in 1..(Count + 1) : T[k] = S[k]) /\ T[Count + 2] = sendNonce + n
  BY <1>1, <1>6
<1>11. Starts(T)'
  <2>1. T[1] = 0 /\ T[Count' + 1] = sendNonce'  BY <1>1, <1>5, <1>6, <1>8, <1>10
  <2>2. \A k \in 1..Count' : T[k + 1] = T[k] + Parts(sealedBy'[k])
    <3>1. ASSUME NEW k \in 1..Count  PROVE T[k + 1] = T[k] + Parts(sealedBy'[k])
      <4>1. k \in 1..(Count + 1) /\ k + 1 \in 1..(Count + 1)  BY <1>1
      <4>2. T[k] = S[k] /\ T[k + 1] = S[k + 1]  BY <4>1, <1>10
      <4>3. S[k + 1] = S[k] + Parts(sealedBy[k]) /\ Parts(sealedBy'[k]) = Parts(sealedBy[k])  BY <1>7, <1>8
      <4> QED  BY <4>2, <4>3
    <3>2. T[(Count + 1) + 1] = T[Count + 1] + Parts(sealedBy'[Count + 1])
      <4>1. (Count + 1) + 1 = Count + 2 /\ Count + 1 \in 1..(Count + 1)  BY <1>1
      <4> QED  BY <4>1, <1>7, <1>8, <1>10
    <3>3. \A k \in 1..(Count + 1) : k = Count + 1 \/ k \in 1..Count  BY <1>1
    <3> QED  BY <1>5, <3>1, <3>2, <3>3
  <2>3. \A j, k \in 1..(Count' + 1) : j < k => T[j] < T[k]
    <3>1. ASSUME NEW j \in 1..(Count + 1)  PROVE S[j] \in Nat /\ S[j] <= sendNonce
      <4>1. S[j] \in Nat  BY <1>8
      <4>2. CASE j = Count + 1  BY <4>2, <1>1, <1>8
      <4>3. CASE j < Count + 1
        <5>1. Count + 1 \in 1..(Count + 1)  BY <1>1
        <5>2. S[j] < S[Count + 1]  BY <4>3, <5>1, <1>8
        <5> QED  BY <4>1, <5>2, <1>1, <1>8
      <4> QED  BY <1>1, <4>1, <4>2, <4>3
    <3>2. \A j, k \in 1..(Count + 1) : j < k => T[j] < T[k]  BY <1>8, <1>10
    <3>3. ASSUME NEW j \in 1..(Count + 1)  PROVE T[j] < T[Count + 2]
      <4>1. T[j] = S[j] /\ T[Count + 2] = sendNonce + n  BY <1>10
      <4> QED  BY <1>1, <3>1, <4>1
    <3>4. ASSUME NEW j \in 1..(Count' + 1), NEW k \in 1..(Count' + 1), j < k  PROVE T[j] < T[k]
      <4>1. j \in 1..(Count + 1) /\ (k = Count + 2 \/ k \in 1..(Count + 1))  BY <1>1, <1>5, <3>4
      <4> QED  BY <3>2, <3>3, <3>4, <4>1
    <3> QED  BY <3>4
  <2> QED  BY <1>9, <2>1, <2>2, <2>3 DEF Starts
<1>12. OnlySealed(T)'
  <2>1. ASSUME NEW f, SealedAt(S, f)  PROVE SealedAt(T, f)'
    <3>1. PICK k \in 1..Count : \E i \in 1..Parts(sealedBy[k]) : f = PartOf(sealedBy[k], S[k], i)  BY <2>1 DEF SealedAt
    <3>2. PICK i \in 1..Parts(sealedBy[k]) : f = PartOf(sealedBy[k], S[k], i)  BY <3>1
    <3>3. k \in 1..Count' /\ i \in 1..Parts(sealedBy'[k]) /\ f = PartOf(sealedBy'[k], T[k], i)
      <4>1. k \in 1..(Count + 1) /\ k \in 1..Count'  BY <1>1, <1>5
      <4>2. T[k] = S[k] /\ sealedBy'[k] = sealedBy[k]  BY <4>1, <1>5, <1>10
      <4> QED  BY <3>2, <4>1, <4>2
    <3> QED  BY <3>3 DEF SealedAt, PartOf
  <2>2. \A j \in 1..Len(wire) : SealedAt(T, wire[j])'  BY <2>1 DEF FramesInvAt, OnlySealed
  <2>3. ASSUME NEW i \in 1..n  PROVE SealedAt(T, frames[i])'
    <3>0. Count + 1 \in 1..(Count + 1) /\ Count + 1 \in 1..Count'  BY <1>1, <1>5
    <3>1. T[Count + 1] = sendNonce /\ sealedBy'[Count + 1] = c  BY <3>0, <1>5, <1>8, <1>10
    <3>2. frames'[i] = PartOf(c, sendNonce, i)  BY <1>3
    <3>3. i \in 1..Parts(sealedBy'[Count + 1])  BY <1>7
    <3>4. \E i_1 \in 1..Parts(sealedBy'[Count + 1]) : frames'[i] = PartOf(sealedBy'[Count + 1], T[Count + 1], i_1)
      BY <3>1, <3>2, <3>3
    <3> QED  BY <3>0, <3>4 DEF SealedAt, PartOf
  <2> QED  BY <1>4, <2>2, <2>3 DEF OnlySealed, SealedAt, PartOf
<1>13. ReadSoFar' /\ DiesOfTheCap'
  <2>1. Len(delivered) \in Nat /\ Len(delivered') = Len(delivered)  BY LenProperties DEF FrameTables
  <2>2. ReadSoFar'
    <3>1. Len(delivered) <= Count /\ \A j \in 1..Len(delivered) : delivered[j] = Message(sealedBy[j])
      BY DEF FramesInvAt, ReadSoFar
    <3>2. \A j \in 1..Len(delivered) : j \in 1..Count  BY <1>1, <2>1, <3>1
    <3>3. \A j \in 1..Len(delivered) : delivered'[j] = Message(sealedBy'[j])  BY <1>5, <3>1, <3>2
    <3>4. Len(delivered') <= Count'  BY <1>1, <1>5, <2>1, <3>1
    <3> QED  BY <2>1, <3>3, <3>4 DEF ReadSoFar, Message
  <2>3. DiesOfTheCap'
    <3>1. SUFFICES ASSUME (Untouched /\ dead)' PROVE Len(delivered') < Count' /\ TooBig(sealedBy'[Len(delivered') + 1])
      BY DEF DiesOfTheCap, Reading, TooBig
    <3>2. Len(delivered) < Count /\ TooBig(sealedBy[Len(delivered) + 1])
      BY <3>1 DEF FramesInvAt, DiesOfTheCap, Reading, Untouched
    <3>3. Len(delivered) + 1 \in 1..Count  BY <1>1, <2>1, <3>2
    <3>4. sealedBy'[Len(delivered) + 1] = sealedBy[Len(delivered) + 1]  BY <1>5, <3>3
    <3>5. Len(delivered) < Count'  BY <1>1, <1>5, <2>1, <3>2
    <3> QED  BY <2>1, <3>2, <3>4, <3>5
  <2> QED  BY <2>2, <2>3
<1>14. Reads(T)'
  <2>1. Len(delivered) \in Nat /\ Len(delivered) <= Count  BY LenProperties DEF FrameTables, FramesInvAt, ReadSoFar
  <2>2. T[Reading] = S[Reading] /\ (Len(delivered) < Count => T[Reading + 1] = S[Reading + 1]
          /\ sealedBy'[Reading] = sealedBy[Reading])
    <3>1. Reading \in 1..(Count + 1)  BY <1>1, <2>1 DEF Reading
    <3>2. Len(delivered) < Count => Reading + 1 \in 1..(Count + 1) /\ Reading \in 1..Count  BY <1>1, <2>1 DEF Reading
    <3> QED  BY <1>5, <1>10, <3>1, <3>2
  <2>3. Reading' = Reading /\ (Len(delivered) < Count => Len(delivered') < Count')  BY <1>1, <1>5, <2>1 DEF Reading
  <2>4. SUFFICES ASSUME ~dead
        PROVE \/ open' = NoMessage /\ receiveNonce' = T[Reading']
              \/ /\ Len(delivered') < Count' /\ T[Reading'] < receiveNonce' /\ receiveNonce' < T[Reading' + 1]
                 /\ open' = [bytes |-> SubSeq(Bytes(sealedBy'[Reading']), 1, (receiveNonce' - T[Reading']) * ChunkSize),
                             json |-> IsJson[sealedBy'[Reading']], busy |-> TRUE]
    BY DEF Reads, NoMessage, Bytes
  <2>5. CASE open = NoMessage /\ receiveNonce = S[Reading]
    BY <2>2, <2>3, <2>5
  <2>6. CASE /\ Len(delivered) < Count /\ S[Reading] < receiveNonce /\ receiveNonce < S[Reading + 1]
             /\ open = [bytes |-> SubSeq(Bytes(sealedBy[Reading]), 1, (receiveNonce - S[Reading]) * ChunkSize),
                        json |-> IsJson[sealedBy[Reading]], busy |-> TRUE]
    BY <2>2, <2>3, <2>6
  <2> QED  BY <2>4, <2>5, <2>6 DEF FramesInvAt, Reads
<1>15. InLine'
  <2>1. SUFFICES ASSUME Untouched, ~dead
        PROVE /\ receiveNonce + Len(wire) + Len(frames') = sendNonce'
              /\ \A j \in 1..Len(wire) : wire[j].nonce = receiveNonce + j - 1
              /\ \A j \in 1..Len(frames') : frames'[j].nonce = receiveNonce + Len(wire) + j - 1
    BY DEF InLine, Untouched
  <2>2. Len(frames) = 0  BY <1>2
  <2>3. receiveNonce + Len(wire) = sendNonce /\ \A j \in 1..Len(wire) : wire[j].nonce = receiveNonce + j - 1
    BY <1>1, <2>1, <2>2 DEF FramesInvAt, InLine
  <2>4. \A j \in 1..n : frames'[j].nonce = sendNonce + j - 1  BY <1>3
  <2> QED  BY <1>1, <1>4, <1>6, <2>3, <2>4
<1>16. HolderWrites' /\ FrameTables'
  BY <1>1, <1>4, <1>5, <1>6, FrameShape DEF HolderWrites, FrameTables
<1> QED  BY <1>9, <1>11, <1>12, <1>13, <1>14, <1>15, <1>16 DEF FramesInvAt

(* A frame lost, repeated or swapped with another is still one that was sealed.  *)
LEMMA WireTampered ==
  ASSUME FrameTables, HolderWrites, NEW S, FramesInvAt(S), Tamper
  PROVE  FrameTables' /\ HolderWrites' /\ FramesInvAt(S)'
<1> DEFINE Kin == {f \in Frame : SealedAt(S, f)}
<1>1. wire \in Seq(Kin)
  <2>1. \A j \in 1..Len(wire) : wire[j] \in Kin  BY DEF FrameTables, FramesInvAt, OnlySealed
  <2>2. wire \in Seq(Frame)  BY DEF FrameTables
  <2> HIDE DEF Kin
  <2> QED  BY <2>1, <2>2
<1> HIDE DEF Kin
<1>2. wire' \in Seq(Kin)
  <2>1. PICK i \in DOMAIN wire :
          wire' \in {RemoveAt(wire, i), InsertAt(wire, i, wire[i])}
                    \cup {[wire EXCEPT ![i] = wire[j], ![j] = wire[i]] : j \in DOMAIN wire \ {i}}
    BY DEF Tamper
  <2>2. i \in 1..Len(wire) /\ Len(wire) \in Nat /\ DOMAIN wire = 1..Len(wire) /\ \A j \in 1..Len(wire) : wire[j] \in Kin
    BY <1>1, LenProperties, ElementOfSeq
  <2>3. SubSeq(wire, 1, i - 1) \in Seq(Kin) /\ SubSeq(wire, i + 1, Len(wire)) \in Seq(Kin)
        /\ SubSeq(wire, i, Len(wire)) \in Seq(Kin)
    <3>1. SubSeq(wire, 1, i - 1) \in Seq(Kin)  BY <2>2, SubSeqProperties
    <3>2. SubSeq(wire, i + 1, Len(wire)) \in Seq(Kin)  BY <2>2, SubSeqProperties
    <3>3. SubSeq(wire, i, Len(wire)) \in Seq(Kin)  BY <2>2, SubSeqProperties
    <3> QED  BY <3>1, <3>2, <3>3
  <2>4. CASE wire' = RemoveAt(wire, i)
    BY <2>3, <2>4, ConcatProperties DEF RemoveAt
  <2>5. CASE wire' = InsertAt(wire, i, wire[i])
    <3>1. <<wire[i]>> \in Seq(Kin)  BY <2>2
    <3>2. SubSeq(wire, 1, i - 1) \o <<wire[i]>> \in Seq(Kin)  BY <2>3, <3>1, ConcatProperties
    <3> QED  BY <2>3, <2>5, <3>2, ConcatProperties DEF InsertAt
  <2>6. ASSUME NEW j \in DOMAIN wire \ {i}, wire' = [wire EXCEPT ![i] = wire[j], ![j] = wire[i]]
        PROVE  wire' \in Seq(Kin)
    <3>1. [wire EXCEPT ![i] = wire[j]] \in Seq(Kin)  BY <1>1, <2>2, <2>6, ExceptSeq
    <3> QED  BY <1>1, <2>2, <2>6
  <2> QED  BY <2>1, <2>4, <2>5, <2>6
<1>3. wire' \in Seq(Frame) /\ \A j \in 1..Len(wire') : SealedAt(S, wire'[j])
  <2>1. \A j \in 1..Len(wire') : wire'[j] \in Kin  BY <1>2
  <2>2. wire' \in Seq(Frame)  BY <1>2 DEF Kin
  <2> QED  BY <2>1, <2>2 DEF Kin
<1>4. tampered' = tampered + 1 /\ tampered \in Nat
      /\ UNCHANGED <<holder, frames, sealedBy, sendNonce, receiveNonce, open, delivered, dead, broken>>
  BY DEF Tamper, FrameTables
<1>5. FrameTables' /\ HolderWrites'  BY <1>3, <1>4 DEF FrameTables, HolderWrites
<1>6. Starts(S)' /\ OnlySealed(S)'  BY <1>3, <1>4, SealedStays DEF OnlySealed, FramesInvAt
<1>7. ReadSoFar' /\ Reads(S)'  BY <1>4 DEF ReadSoFar, Reads, Reading, Count, FramesInvAt
<1>8. InLine' /\ DiesOfTheCap'  BY <1>4 DEF InLine, DiesOfTheCap, Untouched
<1> QED  BY <1>5, <1>6, <1>7, <1>8 DEF FramesInvAt

(* The frame that opens next is the one its reader needs: part i of the message  *)
(* being read, after exactly the parts before it.                               *)
Place(S) == receiveNonce - S[Reading] + 1

LEMMA NextPart ==
  ASSUME FrameTables, NEW S, FramesInvAt(S), ~dead, NEW f, SealedAt(S, f), f.nonce = receiveNonce
  PROVE  /\ Len(delivered) < Count /\ sealedBy[Reading] \in Senders /\ Place(S) \in 1..Parts(sealedBy[Reading])
         /\ f = PartOf(sealedBy[Reading], S[Reading], Place(S))
<1>1. /\ receiveNonce \in Nat /\ Count \in Nat /\ Len(delivered) \in Nat /\ Len(delivered) <= Count
      /\ Reading = Len(delivered) + 1 /\ \A k \in 1..Count : sealedBy[k] \in Senders
  BY LenProperties, ElementOfSeq DEF FrameTables, Count, Reading, FramesInvAt, ReadSoFar
<1>2. /\ S \in [1..(Count + 1) -> Nat]
      /\ \A k \in 1..Count : S[k + 1] = S[k] + Parts(sealedBy[k])
      /\ \A j, k \in 1..(Count + 1) : j < k => S[j] < S[k]
  BY DEF FramesInvAt, Starts
<1>3. PICK k \in 1..Count : \E i \in 1..Parts(sealedBy[k]) : f = PartOf(sealedBy[k], S[k], i)
  BY DEF SealedAt
<1>4. PICK i \in 1..Parts(sealedBy[k]) : f = PartOf(sealedBy[k], S[k], i)
  BY <1>3
<1>5. Parts(sealedBy[k]) \in Nat \ {0}  BY <1>1, ChunksCover, FrameShape DEF Parts
<1>6. /\ k \in 1..(Count + 1) /\ k + 1 \in 1..(Count + 1) /\ S[k] \in Nat /\ S[k + 1] \in Nat
      /\ Reading \in 1..(Count + 1) /\ S[Reading] \in Nat
  BY <1>1, <1>2
<1>7. receiveNonce = S[k] + i - 1
  BY <1>4 DEF PartOf
<1>8. S[k] <= receiveNonce /\ receiveNonce < S[k + 1]
  <2>1. S[k + 1] = S[k] + Parts(sealedBy[k])  BY <1>2
  <2>2. S[k] \in Nat /\ Parts(sealedBy[k]) \in Nat /\ receiveNonce \in Nat  BY <1>1, <1>5, <1>6
  <2> QED  BY <1>7, <2>1, <2>2
<1>9. S[Reading] <= receiveNonce
      /\ (receiveNonce = S[Reading] \/ (Len(delivered) < Count /\ receiveNonce < S[Reading + 1]))
  BY <1>1, <1>6 DEF FramesInvAt, Reads
<1>10. k = Reading
  <2>1. CASE k < Reading
    <3>1. k + 1 = Reading \/ k + 1 < Reading  BY <1>1, <2>1
    <3>2. S[k + 1] <= S[Reading]  BY <1>2, <1>6, <3>1
    <3> QED  BY <1>1, <1>6, <1>8, <1>9, <3>2
  <2>2. CASE k > Reading
    <3>1. S[Reading] < S[k]  BY <1>2, <1>6, <2>2
    <3>2. Reading + 1 \in 1..(Count + 1) /\ (k = Reading + 1 \/ Reading + 1 < k)  BY <1>1, <1>6, <2>2
    <3>3. S[Reading + 1] <= S[k]  BY <1>2, <1>6, <3>2
    <3>4. S[Reading + 1] \in Nat  BY <1>2, <3>2
    <3> QED  BY <1>1, <1>6, <1>8, <1>9, <3>1, <3>3, <3>4
  <2> QED  BY <1>1, <1>6, <2>1, <2>2
<1>11. i = Place(S)  BY <1>1, <1>6, <1>7, <1>10, <1>5 DEF Place
<1> QED  BY <1>1, <1>4, <1>10, <1>11

LEMMA Gathered ==
  ASSUME FrameTables, NEW S, FramesInvAt(S), ~dead, Len(delivered) < Count, sealedBy[Reading] \in Senders,
         Place(S) \in 1..Parts(sealedBy[Reading]), NEW f, f = PartOf(sealedBy[Reading], S[Reading], Place(S))
  PROVE  /\ open.busy \in BOOLEAN /\ (open.busy <=> Place(S) # 1)
         /\ Place(S) # 1 => open.json = IsJson[sealedBy[Reading]]
         /\ ~open.busy => open = NoMessage
         /\ Grown(f) = SubSeq(Bytes(sealedBy[Reading]), 1, Ending(sealedBy[Reading], Place(S)))
         /\ Len(Grown(f)) = Ending(sealedBy[Reading], Place(S))
<1> DEFINE c == sealedBy[Reading]  i == Place(S)
<1>1. receiveNonce \in Nat /\ S[Reading] \in Nat
  <2>1. Count \in Nat /\ Len(delivered) \in Nat  BY LenProperties DEF FrameTables, Count
  <2> QED  BY SMTT(30), <2>1 DEF FrameTables, FramesInvAt, Starts, Reading
<1>2. c \in Senders /\ i \in 1..Chunks(SizeOf[c]) /\ receiveNonce - S[Reading] = i - 1
  <2>1. receiveNonce - S[Reading] = Place(S) - 1  BY <1>1 DEF Place
  <2> QED  BY <2>1 DEF Parts
<1>3. f.body = SubSeq(Bytes(c), (i - 1) * ChunkSize + 1, Ending(c, i))
  BY DEF PartOf
<1>4. SubSeq(Bytes(c), 1, (i - 1) * ChunkSize) \o f.body = SubSeq(Bytes(c), 1, Ending(c, i))
  BY <1>2, <1>3, Grows
<1>5. Len(SubSeq(Bytes(c), 1, Ending(c, i))) = Ending(c, i)
  <2>1. Ending(c, i) \in 0..SizeOf[c] /\ SizeOf[c] \in Nat  BY <1>2, Bounds, FrameShape
  <2>2. \A j \in 1..Ending(c, i) : Bytes(c)[j] \in Senders \X Nat  BY <1>2, <2>1 DEF Bytes
  <2> QED  BY <2>1, <2>2, SubSeqProperties
<1>6. CASE open = NoMessage /\ receiveNonce = S[Reading]
  <2>1. i = 1 /\ open.bytes = <<>> /\ open.busy = FALSE  BY <1>1, <1>6 DEF Place, NoMessage
  <2>2. (i - 1) * ChunkSize = 0  BY <2>1, FrameShape
  <2>3. SubSeq(Bytes(c), 1, (i - 1) * ChunkSize) = <<>>  BY <2>2, SubSeqEmpty
  <2>4. Grown(f) = SubSeq(Bytes(c), 1, Ending(c, i))  BY <1>4, <2>1, <2>3 DEF Grown
  <2> QED  BY <1>5, <1>6, <2>1, <2>4
<1>7. CASE /\ S[Reading] < receiveNonce
           /\ open = [bytes |-> SubSeq(Bytes(c), 1, (receiveNonce - S[Reading]) * ChunkSize),
                      json |-> IsJson[c], busy |-> TRUE]
  <2>0. (receiveNonce - S[Reading]) * ChunkSize = (i - 1) * ChunkSize  BY <1>2
  <2>1. i # 1 /\ open.busy = TRUE /\ open.json = IsJson[c] /\ open.bytes = SubSeq(Bytes(c), 1, (i - 1) * ChunkSize)
    <3>1. open.busy = TRUE /\ open.json = IsJson[c] /\ open.bytes = SubSeq(Bytes(c), 1, (receiveNonce - S[Reading]) * ChunkSize)
      BY <1>7
    <3>2. i # 1  BY <1>1, <1>7 DEF Place
    <3> HIDE DEF i, c
    <3> QED  BY <2>0, <3>1, <3>2
  <2>2. Grown(f) = SubSeq(Bytes(c), 1, Ending(c, i))  BY <1>4, <2>1 DEF Grown
  <2> QED  BY <1>5, <2>1, <2>2
<1> QED  BY <1>6, <1>7 DEF FramesInvAt, Reads

(* What reading it does: the cap ends it, the message is whole, or it has grown.  *)
StopsAt(c) == dead' /\ delivered' = delivered /\ TooBig(c)
Delivers(S, c) ==
  /\ ~dead' /\ delivered' = Append(delivered, Message(c)) /\ open' = NoMessage
  /\ Place(S) = Parts(c)
Lengthens(S, c) ==
  /\ ~dead' /\ delivered' = delivered /\ Place(S) < Parts(c)
  /\ open' = [bytes |-> SubSeq(Bytes(c), 1, Place(S) * ChunkSize), json |-> IsJson[c], busy |-> TRUE]

LEMMA PartRead ==
  ASSUME FrameTables, NEW S, FramesInvAt(S), Receive, NEW f, f = Head(wire), SealedAt(S, f), Opens(f)
  PROVE  StopsAt(sealedBy[Reading]) \/ Delivers(S, sealedBy[Reading]) \/ Lengthens(S, sealedBy[Reading])
<1> DEFINE c == sealedBy[Reading]  i == Place(S)  n == Chunks(SizeOf[c])
<1>1. ~dead /\ f.nonce = receiveNonce  BY DEF Receive, Opens
<1>2. /\ Len(delivered) < Count /\ c \in Senders /\ i \in 1..Parts(c)
      /\ f = PartOf(c, S[Reading], i)
  BY <1>1, NextPart
<1>3. i \in 1..n /\ n \in Nat \ {0} /\ SizeOf[c] \in Nat  BY <1>2, ChunksCover, FrameShape DEF Parts
<1>4. /\ open.busy \in BOOLEAN /\ (open.busy <=> i # 1) /\ (i # 1 => open.json = IsJson[c])
      /\ ~open.busy => open = NoMessage
      /\ Grown(f) = SubSeq(Bytes(c), 1, Ending(c, i)) /\ Len(Grown(f)) = Ending(c, i)
  BY <1>1, <1>2, Gathered
<1>5. f.json = IsJson[c] /\ f.body = SubSeq(Bytes(c), (i - 1) * ChunkSize + 1, Ending(c, i))
      /\ f.marker = MarkerOf(i - 1, SizeOf[c])
  BY <1>2 DEF PartOf
<1>6. /\ n = 1 => f.marker = "whole"
      /\ n # 1 /\ i = 1 => f.marker = "first"
      /\ i # 1 /\ i < n => f.marker = "more"
      /\ i # 1 /\ i = n => f.marker = "last"
  BY <1>3, <1>5, Markings
<1>7. /\ Ending(c, i) \in 0..SizeOf[c] /\ (i = n => Ending(c, i) = SizeOf[c]) /\ (n # 1 => SizeOf[c] > ChunkSize)
      /\ i < n => Ending(c, i) = i * ChunkSize
  BY <1>2, <1>3, Bounds DEF Ending
<1>8. SubSeq(Bytes(c), 1, SizeOf[c]) = Bytes(c)  BY <1>2, BytesAre
<1>9. i = 1 => f.body = SubSeq(Bytes(c), 1, Ending(c, i))
  <2>1. i = 1 => (i - 1) * ChunkSize + 1 = 1  BY FrameShape
  <2> QED  BY <1>5, <2>1
<1>10. Parts(c) = n  BY DEF Parts
<1> HIDE DEF c, i, n
<1>11. Continues(f) <=> open.busy
  BY <1>3, <1>4, <1>6 DEF Continues
<1>12. Continues(f) = open.busy  BY <1>4, <1>11 DEF Continues
<1>13. Wrong(f) <=> f.marker # "whole" /\ Len(Grown(f)) > ReassemblyCap
  BY <1>12 DEF Wrong
<1>14. (dead' <=> Wrong(f)) /\ (Wrong(f) => delivered' = delivered)
       /\ (~Wrong(f) =>
             CASE f.marker = "whole" ->
                    /\ delivered' = Append(delivered, [bytes |-> f.body, json |-> f.json])
                    /\ UNCHANGED open
               [] f.marker = "first" ->
                    open' = [bytes |-> f.body, json |-> f.json, busy |-> TRUE] /\ UNCHANGED delivered
               [] f.marker = "more" ->
                    open' = [open EXCEPT !.bytes = Grown(f)] /\ UNCHANGED delivered
               [] f.marker = "last" ->
                    /\ delivered' = Append(delivered, [bytes |-> Grown(f), json |-> open.json])
                    /\ open' = NoMessage)
  BY DEF Receive
<1>15. CASE Wrong(f)
  <2>1. n # 1 /\ Ending(c, i) > ReassemblyCap  BY <1>4, <1>6, <1>13, <1>15
  <2>2. SizeOf[c] > ChunkSize /\ SizeOf[c] > ReassemblyCap  BY <1>3, <1>7, <2>1, FrameShape
  <2>3. TooBig(c)  BY <1>3, <2>2, MaxOfTwo, FrameShape DEF TooBig
  <2> QED  BY <1>14, <1>15, <2>3 DEF StopsAt, c
<1>16. CASE ~Wrong(f) /\ n = 1
  <2>1. i = 1 /\ i = n /\ f.body = Bytes(c)  BY <1>3, <1>7, <1>8, <1>9, <1>16
  <2>2. delivered' = Append(delivered, [bytes |-> f.body, json |-> f.json]) /\ open' = open
    BY <1>6, <1>14, <1>16
  <2>3. open' = NoMessage  BY <1>4, <2>1, <2>2
  <2> QED  BY <1>5, <1>10, <1>14, <1>16, <2>1, <2>2, <2>3 DEF Delivers, Message, c, i
<1>17. CASE ~Wrong(f) /\ n # 1 /\ i = 1
  <2>1. open' = [bytes |-> f.body, json |-> f.json, busy |-> TRUE] /\ delivered' = delivered
    BY <1>6, <1>14, <1>17
  <2>2. i < n /\ f.body = SubSeq(Bytes(c), 1, i * ChunkSize)  BY <1>3, <1>7, <1>9, <1>17
  <2> QED  BY <1>5, <1>10, <1>14, <1>17, <2>1, <2>2 DEF Lengthens, c, i
<1>18. CASE ~Wrong(f) /\ i # 1 /\ i < n
  <2>1. open' = [open EXCEPT !.bytes = Grown(f)] /\ delivered' = delivered
    BY <1>6, <1>14, <1>18
  <2>2. open \in [bytes: {open.bytes}, json: {IsJson[c]}, busy: {TRUE}]
    <3>1. S[Reading] < receiveNonce \/ open = NoMessage  BY <1>1 DEF FramesInvAt, Reads
    <3>2. open.busy  BY <1>4, <1>18
    <3> QED  BY <1>1, <1>4, <1>18, <3>2 DEF FramesInvAt, Reads, NoMessage, c
  <2>3. open' = [bytes |-> Grown(f), json |-> IsJson[c], busy |-> TRUE]  BY <2>1, <2>2
  <2> QED  BY <1>4, <1>7, <1>10, <1>14, <1>18, <2>1, <2>3 DEF Lengthens, c, i
<1>19. CASE ~Wrong(f) /\ i # 1 /\ i = n
  <2>1. delivered' = Append(delivered, [bytes |-> Grown(f), json |-> open.json]) /\ open' = NoMessage
    BY <1>6, <1>14, <1>19
  <2>2. Grown(f) = Bytes(c)  BY <1>4, <1>7, <1>8, <1>19
  <2> QED  BY <1>4, <1>10, <1>14, <1>19, <2>1, <2>2 DEF Delivers, Message, c, i
<1> QED  BY <1>3, <1>15, <1>16, <1>17, <1>18, <1>19

LEMMA MessageIsAPacket ==
  ASSUME NEW c \in Senders
  PROVE  Message(c) \in Packet
BY BytesAre, FrameShape DEF Message, Packet

(* A frame read.                                                                *)
LEMMA FrameRead ==
  ASSUME FrameTables, HolderWrites, NEW S, FramesInvAt(S), Receive
  PROVE  FrameTables' /\ HolderWrites' /\ FramesInvAt(S)'
<1> DEFINE f == Head(wire)
<1>1. /\ wire # <<>> /\ ~dead /\ wire' = Tail(wire)
      /\ UNCHANGED <<holder, frames, sealedBy, sendNonce, broken, tampered>>
      /\ receiveNonce' = IF Opens(f) THEN f.nonce + 1 ELSE receiveNonce
  BY DEF Receive
<1>2. /\ f \in Frame /\ Tail(wire) \in Seq(Frame) /\ Len(Tail(wire)) = Len(wire) - 1 /\ Len(wire) \in Nat \ {0}
      /\ f = wire[1] /\ \A j \in 1..(Len(wire) - 1) : Tail(wire)[j] = wire[j + 1]
  BY <1>1, HeadTailProperties, EmptySeq, LenProperties DEF FrameTables
<1>3. SealedAt(S, f)  BY <1>2 DEF FramesInvAt, OnlySealed
<1>4. Starts(S)' /\ OnlySealed(S)' /\ HolderWrites'
  <2>1. \A j \in 1..Len(wire') : SealedAt(S, wire'[j])
    BY <1>1, <1>2 DEF FramesInvAt, OnlySealed
  <2> QED  BY <1>1, <2>1, SealedStays DEF FramesInvAt, OnlySealed, HolderWrites
<1>5. f.nonce \in Nat /\ receiveNonce \in Nat /\ Len(frames) \in Nat /\ Len(delivered) \in Nat /\ sendNonce \in Nat
  BY <1>2, LenProperties DEF FrameTables, Frame
<1> HIDE DEF f
<1>6. CASE ~Opens(f)
  <2>1. dead' /\ open' = NoMessage /\ delivered' = delivered /\ receiveNonce' = receiveNonce
    BY <1>1, <1>6 DEF Receive, Wrong, f
  <2>2. ~Untouched'
    <3>1. Untouched => wire[1].nonce = receiveNonce
      BY <1>1, <1>2, <1>5 DEF FramesInvAt, InLine
    <3> QED  BY <1>1, <1>2, <1>6, <3>1 DEF Opens, Untouched
  <2>3. FrameTables'  BY <1>1, <1>2, <2>1 DEF FrameTables
  <2>4. ReadSoFar'  BY <1>1, <2>1 DEF FramesInvAt, ReadSoFar, Count
  <2>5. Reads(S)' /\ InLine' /\ DiesOfTheCap'  BY <2>1, <2>2 DEF Reads, InLine, DiesOfTheCap
  <2> QED  BY <1>4, <2>3, <2>4, <2>5 DEF FramesInvAt
<1>7. CASE Opens(f)
  <2> DEFINE c == sealedBy[Reading]
  <2>1. /\ Len(delivered) < Count /\ c \in Senders /\ Place(S) \in 1..Parts(c)
    BY <1>1, <1>3, <1>7, NextPart DEF Opens
  <2>2. f.nonce = receiveNonce /\ receiveNonce' = receiveNonce + 1  BY <1>1, <1>7 DEF Opens
  <2>3. /\ Count \in Nat /\ Reading = Len(delivered) + 1 /\ Reading \in 1..Count /\ Count' = Count
        /\ S[Reading] \in Nat /\ S[Reading + 1] \in Nat /\ S[Reading + 1] = S[Reading] + Parts(c) /\ Parts(c) \in Nat \ {0}
        /\ Reading \in 1..(Count + 1) /\ Reading + 1 \in 1..(Count + 1)
    <3>1. Count \in Nat /\ Reading = Len(delivered) + 1 /\ Count' = Count
      BY <1>1, LenProperties DEF FrameTables, Count, Reading
    <3>2. Reading \in 1..Count /\ Reading \in 1..(Count + 1) /\ Reading + 1 \in 1..(Count + 1)
      BY <1>5, <2>1, <3>1
    <3>3. S[Reading] \in Nat /\ S[Reading + 1] \in Nat /\ S[Reading + 1] = S[Reading] + Parts(c)
      BY <3>2 DEF FramesInvAt, Starts
    <3>4. Parts(c) \in Nat \ {0}  BY <2>1, ChunksCover, FrameShape DEF Parts
    <3> QED  BY <3>1, <3>2, <3>3, <3>4
  <2>4. Place(S) = receiveNonce - S[Reading] + 1  BY DEF Place
  <2>5. ReadSoFar  BY DEF FramesInvAt
  <2>6. ~dead' => InLine'
    <3>1. SUFFICES ASSUME Untouched
          PROVE  /\ receiveNonce' + Len(wire') + Len(frames) = sendNonce
                 /\ \A j \in 1..Len(wire') : wire'[j].nonce = receiveNonce' + j - 1
                 /\ \A j \in 1..Len(frames) : frames[j].nonce = receiveNonce' + Len(wire') + j - 1
      BY <1>1 DEF InLine, Untouched
    <3>2. /\ receiveNonce + Len(wire) + Len(frames) = sendNonce
          /\ \A j \in 1..Len(wire) : wire[j].nonce = receiveNonce + j - 1
          /\ \A j \in 1..Len(frames) : frames[j].nonce = receiveNonce + Len(wire) + j - 1
      BY <1>1, <3>1 DEF FramesInvAt, InLine
    <3>3. Len(wire') = Len(wire) - 1  BY <1>1, <1>2
    <3>4. ASSUME NEW j \in 1..Len(wire')  PROVE wire'[j].nonce = receiveNonce' + j - 1
      <4>1. wire'[j] = wire[j + 1] /\ j + 1 \in 1..Len(wire)  BY <1>1, <1>2, <3>3
      <4>2. wire[j + 1].nonce = receiveNonce + (j + 1) - 1  BY <3>2, <4>1
      <4>3. receiveNonce + (j + 1) - 1 = receiveNonce' + j - 1  BY <1>5, <2>2, <3>3, <1>2
      <4> QED  BY <4>1, <4>2, <4>3
    <3>5. receiveNonce' + Len(wire') = receiveNonce + Len(wire)  BY <1>2, <1>5, <2>2, <3>3
    <3> QED  BY <3>2, <3>4, <3>5
  <2>7. wire' \in Seq(Frame) /\ receiveNonce' \in Nat  BY <1>1, <1>2, <1>5, <2>2
  <2>8. StopsAt(c) \/ Delivers(S, c) \/ Lengthens(S, c)  BY <1>3, <1>7, PartRead DEF f
  <2>9. CASE StopsAt(c)
    <3>1. dead' /\ delivered' = delivered /\ TooBig(c)  BY <2>9 DEF StopsAt
    <3>2. ReadSoFar'  BY <1>1, <2>3, <2>5, <3>1 DEF ReadSoFar
    <3>3. Reads(S)' /\ InLine'  BY <3>1 DEF Reads, InLine
    <3>4. DiesOfTheCap'  BY <1>1, <2>1, <2>3, <3>1 DEF DiesOfTheCap, Reading, TooBig
    <3>5. FrameTables'  BY <1>1, <2>7, <3>1 DEF FrameTables
    <3> QED  BY <1>4, <3>2, <3>3, <3>4, <3>5 DEF FramesInvAt
  <2>10. CASE Lengthens(S, c)
    <3>1. /\ ~dead' /\ delivered' = delivered /\ Place(S) < Parts(c)
          /\ open' = [bytes |-> SubSeq(Bytes(c), 1, Place(S) * ChunkSize), json |-> IsJson[c], busy |-> TRUE]
      BY <2>10 DEF Lengthens
    <3>2. ReadSoFar'  BY <1>1, <2>3, <2>5, <3>1 DEF ReadSoFar
    <3>3. Reading' = Reading /\ sealedBy'[Reading'] = c  BY <1>1, <3>1 DEF Reading
    <3>4. receiveNonce' - S[Reading] = Place(S)  BY SMTT(30), <1>5, <2>2, <2>3, <2>4
    <3>5. S[Reading] < receiveNonce' /\ receiveNonce' < S[Reading + 1]
      BY <1>5, <2>1, <2>2, <2>3, <3>1, <3>4
    <3>6. Reads(S)'
      <4>1. open' = [bytes |-> SubSeq(Bytes(c), 1, (receiveNonce' - S[Reading]) * ChunkSize), json |-> IsJson[c],
                     busy |-> TRUE]
        BY <3>1, <3>4
      <4>2. Len(delivered') < Count'  BY <2>1, <2>3, <3>1
      <4> QED  BY <3>3, <3>5, <4>1, <4>2 DEF Reads, Bytes
    <3>7. DiesOfTheCap'  BY <3>1 DEF DiesOfTheCap
    <3>8. FrameTables'  BY <1>1, <2>7, <3>1 DEF FrameTables
    <3> QED  BY <1>4, <2>6, <3>1, <3>2, <3>6, <3>7, <3>8 DEF FramesInvAt
  <2>11. CASE Delivers(S, c)
    <3>1. ~dead' /\ delivered' = Append(delivered, Message(c)) /\ open' = NoMessage /\ Place(S) = Parts(c)
      BY <2>11 DEF Delivers
    <3>2. /\ delivered' \in Seq(Packet) /\ Len(delivered') = Len(delivered) + 1 /\ delivered'[Len(delivered) + 1] = Message(c)
          /\ \A j \in 1..Len(delivered) : delivered'[j] = delivered[j]
      BY <2>1, <3>1, MessageIsAPacket, AppendProperties DEF FrameTables
    <3>3. ReadSoFar'
      <4>1. \A j \in 1..Len(delivered) : delivered'[j] = Message(sealedBy[j])  BY <2>5, <3>2 DEF ReadSoFar
      <4>2. delivered'[Len(delivered) + 1] = Message(sealedBy[Len(delivered) + 1])  BY <2>3, <3>2
      <4>3. \A j \in 1..Len(delivered') : delivered'[j] = Message(sealedBy[j])  BY <1>5, <3>2, <4>1, <4>2
      <4>4. Len(delivered') <= Count'  BY <1>5, <2>1, <2>3, <3>2
      <4> QED  BY <1>1, <4>3, <4>4 DEF ReadSoFar, Message, Bytes
    <3>4. Reads(S)'
      <4>1. Reading' = Reading + 1  BY <2>3, <3>2 DEF Reading
      <4>2. receiveNonce' = S[Reading + 1]  BY <1>5, <2>2, <2>3, <2>4, <3>1
      <4> QED  BY <3>1, <4>1, <4>2 DEF Reads, NoMessage
    <3>5. DiesOfTheCap'  BY <3>1 DEF DiesOfTheCap
    <3>6. FrameTables'  BY <1>1, <2>7, <3>2 DEF FrameTables
    <3> QED  BY <1>4, <2>6, <3>1, <3>3, <3>4, <3>5, <3>6 DEF FramesInvAt
  <2> QED  BY <2>8, <2>9, <2>10, <2>11
<1> QED  BY <1>6, <1>7

LEMMA FramesKeep ==
  ASSUME FramesInv, [FramesNext]_frameVars
  PROVE  FramesInv'
<1>1. CASE UNCHANGED frameVars
  BY <1>1, FramesAlone DEF frameVars
<1>2. ASSUME NEW c \in Senders, Send(c) \/ Cancel(c)  PROVE FramesInv'
  BY <1>2, FramesAlone DEF Send, Cancel
<1> SUFFICES ASSUME NEW S \in [1..(Count + 1) -> Nat], FramesInvAt(S), FrameTables, HolderWrites,
                    ~UNCHANGED frameVars,
                    (\E c \in Senders : Seal(c) \/ WriteFrame(c) \/ WriteFails(c)) \/ Receive \/ Tamper
             PROVE  FramesInv'
  BY <1>1, <1>2 DEF FramesInv, FramesNext
<1>3. ASSUME FrameTables' /\ HolderWrites' /\ FramesInvAt(S)'  PROVE FramesInv'
  <2>1. S \in [1..(Count' + 1) -> Nat]  BY <1>3 DEF FramesInvAt, Starts
  <2> QED  BY <1>3, <2>1 DEF FramesInv
<1>4. ASSUME NEW c \in Senders, Seal(c)  PROVE FramesInv'
  <2>1. PICK T : T = [k \in 1..(Count + 2) |-> IF k <= Count + 1 THEN S[k] ELSE sendNonce + Chunks(SizeOf[c])]
    OBVIOUS
  <2>2. /\ holder = Nobody /\ holder' = c /\ frames' = Sealed(c) /\ sendNonce' = sendNonce + Chunks(SizeOf[c])
        /\ sealedBy' = Append(sealedBy, c)
        /\ UNCHANGED <<wire, receiveNonce, open, delivered, dead, broken, tampered>>
    BY <1>4 DEF Seal
  <2>3. FrameTables' /\ HolderWrites' /\ FramesInvAt(T)' /\ T \in [1..(Count' + 1) -> Nat]
    BY <2>1, <2>2, MessageSealed
  <2> QED  BY <2>3 DEF FramesInv
<1>5. ASSUME NEW c \in Senders, WriteFrame(c)  PROVE FramesInv'
  <2>1. frames # <<>> /\ wire' = Append(wire, Head(frames)) /\ frames' = Tail(frames) /\ broken' = broken
        /\ UNCHANGED <<sealedBy, sendNonce, receiveNonce, open, delivered, dead, tampered>>
    BY <1>5 DEF WriteFrame
  <2>2. holder' = Nobody => frames' = <<>>
    <3>1. Len(frames) = 1 => Len(Tail(frames)) = 0 /\ Tail(frames) \in Seq(Frame)
      BY <2>1, HeadTailProperties DEF FrameTables
    <3>2. Len(frames) # 1 => holder' = c /\ c # Nobody
      BY <1>5, FrameShape DEF WriteFrame
    <3> QED  BY <2>1, <3>1, <3>2, EmptySeq
  <2> QED  BY <1>3, <2>1, <2>2, FrameWritten
<1>6. ASSUME NEW c \in Senders, WriteFails(c)  PROVE FramesInv'
  <2>1. frames # <<>> /\ wire' \in {wire, Append(wire, Head(frames))} /\ frames' = <<>> /\ broken' = TRUE
        /\ UNCHANGED <<sealedBy, sendNonce, receiveNonce, open, delivered, dead, tampered>>
    BY <1>6 DEF WriteFails
  <2> QED  BY <1>3, <2>1, FrameWritten
<1>7. CASE Receive  BY <1>3, <1>7, FrameRead
<1>8. CASE Tamper  BY <1>3, <1>8, WireTampered
<1> QED  BY <1>4, <1>5, <1>6, <1>7, <1>8

(* What was delivered is a prefix, and with everything read nothing is missing.  *)
LEMMA FramesAreRight == FramesInv => MessagesAreWhole
<1> SUFFICES ASSUME FramesInv PROVE MessagesAreWhole  OBVIOUS
<1>0. PICK S \in [1..(Count + 1) -> Nat] : FramesInvAt(S)  BY DEF FramesInv
<1>1. /\ FrameTables /\ HolderWrites /\ Starts(S) /\ ReadSoFar /\ Reads(S) /\ InLine /\ DiesOfTheCap
  BY <1>0 DEF FramesInv, FramesInvAt
<1>2. /\ Count = Len(sealedBy) /\ Count \in Nat /\ Len(delivered) \in Nat /\ Len(delivered) <= Count
      /\ \A j \in 1..Count : sealedBy[j] \in Senders
  BY <1>1, LenProperties, ElementOfSeq DEF FrameTables, Count, ReadSoFar
<1>3. ReadAsSealed
  <2> DEFINE all == [i \in 1..Len(sealedBy) |-> Message(sealedBy[i])]
             m == Len(delivered)
  <2>1. all \in Seq(Packet) /\ Len(all) = Count  BY <1>2, MessageIsAPacket
  <2>2. /\ SubSeq(delivered, 1, m) \in Seq(Packet) /\ Len(SubSeq(delivered, 1, m)) = m
        /\ \A j \in 1..m : SubSeq(delivered, 1, m)[j] = delivered[j]
    <3>1. \A j \in 1..m : delivered[j] \in Packet  BY <1>1, ElementOfSeq DEF FrameTables
    <3> QED  BY <1>2, <3>1, SubSeqProperties
  <2>3. /\ SubSeq(all, 1, m) \in Seq(Packet) /\ Len(SubSeq(all, 1, m)) = m
        /\ \A j \in 1..m : SubSeq(all, 1, m)[j] = all[j]
    <3>1. \A j \in 1..m : all[j] \in Packet  BY <1>2, <2>1, ElementOfSeq
    <3> HIDE DEF all
    <3> QED  BY <1>2, <3>1, SubSeqProperties
  <2>4. \A j \in 1..m : delivered[j] = all[j]  BY <1>1, <1>2 DEF ReadSoFar
  <2> HIDE DEF all, m
  <2>5. SubSeq(delivered, 1, m) = SubSeq(all, 1, m)  BY <2>2, <2>3, <2>4, SeqEqual
  <2> QED  BY <1>2, <2>1, <2>5 DEF ReadAsSealed, IsPrefix, all, m
<1>4. NothingLost
  <2> SUFFICES ASSUME tampered = 0, ~broken, holder = Nobody, wire = <<>> \/ dead, Len(delivered) < Len(sealedBy)
               PROVE  TooBig(sealedBy[Len(delivered) + 1])
    BY DEF NothingLost
  <2>1. CASE dead  BY <1>1, <2>1 DEF DiesOfTheCap, Untouched, Reading
  <2>2. CASE ~dead
    <3>1. Len(wire) = 0 /\ Len(frames) = 0  BY <1>1, <2>2 DEF HolderWrites
    <3>2. receiveNonce = sendNonce  BY <1>1, <2>2, <3>1 DEF InLine, Untouched, FrameTables
    <3>3. /\ Reading = Len(delivered) + 1 /\ Reading \in 1..Count /\ Count + 1 \in 1..(Count + 1)
          /\ Reading \in 1..(Count + 1) /\ Reading + 1 \in 1..(Count + 1)
      BY <1>2 DEF Reading
    <3>4. S[Count + 1] = sendNonce /\ S[Reading] < S[Count + 1] /\ S[Reading] \in Nat /\ S[Reading + 1] \in Nat
      BY <1>1, <1>2, <3>3 DEF Starts
    <3>5. S[Reading + 1] <= S[Count + 1]
      <4>1. Reading + 1 = Count + 1 \/ Reading + 1 < Count + 1  BY <1>2, <3>3
      <4> QED  BY <1>1, <3>3, <3>4, <4>1 DEF Starts
    <3>6. receiveNonce \in Nat  BY <1>1 DEF FrameTables
    <3> QED  BY <1>1, <2>2, <3>2, <3>4, <3>5, <3>6 DEF Reads
  <2> QED  BY <2>1, <2>2
<1> QED  BY <1>3, <1>4 DEF MessagesAreWhole

-----------------------------------------------------------------------------
(* A behaviour of MCNoise is one of the three; the others rest.                  *)
NoiseInv == TrustInv /\ KnownInv /\ FramesInv

LEMMA NoiseStarts == Init => NoiseInv /\ NewDevice
BY TrustInitial, KnownInitial, NewInitial, FramesInitial DEF Init, NoiseInv

LEMMA EachPartSteps ==
  ASSUME [Next]_vars
  PROVE  [NegotiationNext]_negotiationVars /\ [FolderNext]_folderVars /\ [FramesNext]_frameVars
BY DEF Next, vars

LEMMA NoiseKeeps == NoiseInv /\ [Next]_vars => NoiseInv'
BY EachPartSteps, TrustKeeps, KnownKeeps, FramesKeep DEF NoiseInv

(* Every session of every program, between two calls of forget_noise_key(), is    *)
(* with the pinned hub key; a device the hub knows presents the key it is known   *)
(* by and no other; and the old key is never there without a pin: for any         *)
(* programs, keys and names, however they interleave and wherever they die        *)
(* (_noise_runtime.py 236-251, 332-383, 815-826).                                 *)
THEOREM TrustIsKept == Spec => [](OneTrust /\ KnownKeyStays /\ KeyComesWithPin)
<1>1. Init => NoiseInv  BY NoiseStarts
<1>2. NoiseInv /\ [Next]_vars => NoiseInv'  BY NoiseKeeps
<1>3. NoiseInv => OneTrust /\ KnownKeyStays /\ KeyComesWithPin
  BY DEF NoiseInv, TrustInv, KnownInv, KnownDevice, KnownKeyStays, PinFirst
<1> QED  BY <1>1, <1>2, <1>3, PTL DEF Spec

(* The ends agree on the keys, one static key for one folder included, unless an  *)
(* old folder of another name than the new one's first meets the hub while its    *)
(* key is being made anew (_noise_runtime.py 236-383).                            *)
THEOREM KeysAlwaysAgree == ASSUME LateNames \subseteq {Unnamed} PROVE Spec => []KeysAgree
<1> DEFINE Inv == NoiseInv /\ NewDevice
<1>1. Init => Inv  BY NoiseStarts
<1>2. Inv /\ [Next]_vars => Inv'
  BY NoiseKeeps, NewKeeps, EachPartSteps DEF NoiseInv
<1>3. Inv => KeysAgree
  BY OneKeyPresented DEF NoiseInv, TrustInv, KnownInv, KnownDevice, KnownKeyStays, PinFirst, KeysAgree
<1> HIDE DEF Inv
<1> QED  BY <1>1, <1>2, <1>3, PTL DEF Spec

(* What decrypt_frame() returns is a prefix of what was sealed, whole messages    *)
(* in the order they were sealed, whatever the network did; on a network that did *)
(* nothing reading stops at a message past the cap and nowhere else: for any      *)
(* callers, messages of any size and chunks of any size (_noise.py 478-532,       *)
(* _hive.py 875-919).                                                             *)
THEOREM MessagesStayWhole == Spec => []MessagesAreWhole
<1>1. Init => NoiseInv  BY NoiseStarts
<1>2. NoiseInv /\ [Next]_vars => NoiseInv'  BY NoiseKeeps
<1>3. NoiseInv => MessagesAreWhole  BY FramesAreRight DEF NoiseInv
<1> QED  BY <1>1, <1>2, <1>3, PTL DEF Spec

==============================================================================
