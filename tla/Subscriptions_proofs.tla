------------------------- MODULE Subscriptions_proofs -------------------------
(* The subscriptions use the link as SyncLink describes, for any handlers and *)
(* any number of sessions; so what is proved of its table holds of it here.   *)
(* And what a client hears of a hub's skills: its listings (HubListing) and   *)
(* the answers to its queries (BusQuery).                                     *)
EXTENDS Subscriptions, HubListing, BusQuery, SequenceTheorems, FiniteSetTheorems, TLAPS

-----------------------------------------------------------------------------
(* What holds of SyncLink's registration table for any handlers and any      *)
(* number of registrations.                                                  *)
(* Where a registration stands, as told by its thread: it is pending exactly  *)
(* until it is settled; what was settled as retired is being taken off; what  *)
(* the table no longer lists is retired.                                      *)
Stands(e) ==
  /\ e.thread \in {"adding", "landed"} => e.pending
  /\ e.thread \in {"taking", "over"} => ~e.pending
  /\ e.thread = "taking" => e.discarded
  /\ ~e.listed => e.discarded

Retired(r) == reg[r].discarded => reg[r].thread \in {"landed", "taking"}

LinkInv ==
  /\ LinkTypeOK
  /\ \A r \in DOMAIN reg : Stands(reg[r])
  /\ \A r \in attached : Retired(r) /\ reg[r].thread \notin {"adding", "failed"}

-----------------------------------------------------------------------------
(* The steps come in three shapes.                                           *)

(* A new registration, on the transport at once or not.                       *)
LEMMA NewEntry ==
  ASSUME LinkInv, NEW e \in Registration, Stands(e), reg' = Append(reg, e),
         attached' = attached
           \/ (attached' = attached \cup {Len(reg) + 1} /\ e.thread = "over" /\ ~e.discarded)
  PROVE  LinkInv'
<1>1. reg \in Seq(Registration) /\ Len(reg) \in Nat /\ DOMAIN reg = 1..Len(reg)
  BY LenProperties DEF LinkInv, LinkTypeOK
<1>2. /\ reg' \in Seq(Registration)
      /\ DOMAIN reg' = 1..(Len(reg) + 1)
      /\ reg'[Len(reg) + 1] = e
      /\ \A r \in DOMAIN reg : r \in DOMAIN reg' /\ reg'[r] = reg[r]
  <2>1. /\ reg' \in Seq(Registration) /\ Len(reg') = Len(reg) + 1
        /\ \A n \in 1..Len(reg) : reg'[n] = reg[n]
        /\ reg'[Len(reg) + 1] = e
    BY <1>1, AppendProperties
  <2> QED  BY <1>1, <2>1, LenProperties
<1>3. attached' \subseteq DOMAIN reg' /\ LinkTypeOK'
  BY <1>1, <1>2 DEF LinkInv, LinkTypeOK
<1>4. \A r \in DOMAIN reg' : Stands(reg'[r])
  BY <1>1, <1>2 DEF LinkInv
<1>5. ASSUME NEW r \in attached'
      PROVE  Retired(r)' /\ reg'[r].thread \notin {"adding", "failed"}
  <2>1. CASE r \in attached  BY <2>1, <1>2 DEF LinkInv, LinkTypeOK, Retired
  <2>2. CASE r \notin attached  BY <2>2, <1>2, <1>5 DEF Retired
  <2> QED  BY <2>1, <2>2
<1> QED  BY <1>3, <1>4, <1>5 DEF LinkInv, Stands

(* Registrations change in place; whatever of them stays on the transport or  *)
(* comes onto it is rightly there.                                            *)
LEMMA InPlace ==
  ASSUME LinkInv, DOMAIN reg' = DOMAIN reg, reg' \in Seq(Registration),
         attached' \subseteq DOMAIN reg,
         \A r \in DOMAIN reg : reg'[r] = reg[r] \/ Stands(reg'[r]),
         \A r \in attached' :
           \/ r \in attached /\ reg'[r] = reg[r]
           \/ /\ reg'[r].discarded => reg'[r].thread \in {"landed", "taking"}
              /\ reg'[r].thread \notin {"adding", "failed"}
  PROVE  LinkInv'
BY DEF LinkInv, LinkTypeOK, Retired, Stands

(* One registration changes.                                                  *)
LEMMA OneChanges ==
  ASSUME LinkInv, NEW r \in DOMAIN reg, NEW e \in Registration, Stands(e),
         reg' = [reg EXCEPT ![r] = e],
         attached' \subseteq attached \cup {r},
         r \in attached' => /\ e.discarded => e.thread \in {"landed", "taking"}
                            /\ e.thread \notin {"adding", "failed"}
  PROVE  LinkInv'
<1>1. reg \in Seq(Registration) /\ attached \subseteq DOMAIN reg
  BY DEF LinkInv, LinkTypeOK
<1>2. reg' \in Seq(Registration) /\ DOMAIN reg' = DOMAIN reg
  BY <1>1, ExceptSeq, LenProperties
<1>3. reg'[r] = e /\ \A q \in DOMAIN reg : q # r => reg'[q] = reg[q]
  BY <1>1
<1> QED
  BY <1>1, <1>2, <1>3, InPlace

-----------------------------------------------------------------------------
(* Every step of the table preserves the invariant.                           *)
LEMMA LinkStep ==
  ASSUME LinkInv, [LinkNext]_linkVars
  PROVE  LinkInv'
<1>0. /\ reg \in Seq(Registration) /\ attached \subseteq DOMAIN reg
      /\ \A r \in DOMAIN reg : reg[r] \in Registration /\ Stands(reg[r])
  BY ElementOfSeq, LenProperties DEF LinkInv, LinkTypeOK
<1>1. ASSUME NEW h \in Handlers, Register(h)
      PROVE  LinkInv'
  BY <1>1, NewEntry DEF Register, Registration, Threads, Stands
<1>2. ASSUME NEW h \in Handlers, RegisterNow(h)
      PROVE  LinkInv'
  BY <1>2, NewEntry DEF RegisterNow, Registration, Threads, Stands
<1>3. ASSUME NEW r \in DOMAIN reg, Land(r)
      PROVE  LinkInv'
  <2> DEFINE e == [reg[r] EXCEPT !.thread = "landed"]
  <2>1. e \in Registration /\ Stands(e) /\ e.thread = "landed"
    BY <1>0, <1>3 DEF Land, Registration, Threads, Stands
  <2>2. reg' = [reg EXCEPT ![r] = e] /\ attached' = attached \cup {r}
    BY <1>3 DEF Land
  <2> QED  BY <2>1, <2>2, OneChanges
<1>4. ASSUME NEW r \in DOMAIN reg, Refuse(r)
      PROVE  LinkInv'
  <2> DEFINE e == [reg[r] EXCEPT !.thread = "failed"]
  <2>1. e \in Registration /\ Stands(e) /\ r \notin attached
    BY <1>0, <1>4 DEF Refuse, Registration, Threads, Stands, LinkInv
  <2>2. reg' = [reg EXCEPT ![r] = e] /\ attached' = attached
    BY <1>4 DEF Refuse
  <2> QED  BY <2>1, <2>2, OneChanges
<1>5. ASSUME NEW r \in DOMAIN reg, Settle(r)
      PROVE  LinkInv'
  <2> DEFINE t == IF reg[r].discarded THEN "taking" ELSE "over"
             e == [reg[r] EXCEPT !.pending = FALSE, !.thread = t]
  <2>1. /\ e \in Registration /\ Stands(e)
        /\ e.thread \in {"taking", "over"} /\ (e.discarded => e.thread = "taking")
    BY <1>0, <1>5 DEF Settle, Registration, Threads, Stands
  <2>2. reg' = [reg EXCEPT ![r] = e] /\ attached' = attached
    BY <1>5 DEF Settle
  <2> HIDE DEF e
  <2> QED  BY <2>1, <2>2, OneChanges
<1>6. ASSUME NEW r \in DOMAIN reg, TakeBack(r)
      PROVE  LinkInv'
  <2> DEFINE e == [reg[r] EXCEPT !.thread = "over"]
  <2>1. e \in Registration /\ Stands(e)
    BY <1>0, <1>6 DEF TakeBack, Registration, Threads, Stands
  <2>2. reg' = [reg EXCEPT ![r] = e] /\ attached' = attached \ {r}
    BY <1>6 DEF TakeBack
  <2> QED  BY <2>1, <2>2, OneChanges
<1>7. ASSUME NEW r \in DOMAIN reg, Returned(r)
      PROVE  LinkInv'
  <2> DEFINE e == [reg[r] EXCEPT !.awaited = FALSE,
                                 !.listed = reg[r].listed /\ ~reg[r].discarded]
  <2>1. /\ e \in Registration /\ Stands(e)
        /\ e.thread = reg[r].thread /\ e.discarded = reg[r].discarded
    BY <1>0, <1>7 DEF Returned, Registration, Threads, Stands
  <2>2. reg' = [reg EXCEPT ![r] = e] /\ attached' = attached
    BY <1>7 DEF Returned
  <2> QED  BY <2>1, <2>2, OneChanges DEF LinkInv, Retired
<1>8. ASSUME NEW r \in DOMAIN reg, Withdrawn(r)
      PROVE  LinkInv'
  <2> DEFINE e == [reg[r] EXCEPT !.awaited = FALSE, !.discarded = TRUE, !.listed = FALSE]
  <2>1. e \in Registration /\ Stands(e) /\ e.thread = reg[r].thread
    BY <1>0 DEF Registration, Threads, Stands
  <2>2. reg' = [reg EXCEPT ![r] = e]
    BY <1>8 DEF Withdrawn
  <2>3. CASE reg[r].pending
    <3>1. attached' = attached  BY <1>8, <2>3 DEF Withdrawn
    <3>2. r \in attached => reg[r].thread = "landed"
      BY <1>0, <2>3 DEF LinkInv, Stands, Registration, Threads
    <3> QED  BY <2>1, <2>2, <3>1, <3>2, OneChanges
  <2>4. CASE ~reg[r].pending
    <3>1. attached' = attached \ {r}  BY <1>8, <2>4 DEF Withdrawn
    <3> QED  BY <2>1, <2>2, <3>1, OneChanges
  <2> QED  BY <2>3, <2>4
<1>9. ASSUME NEW H \in SUBSET Handlers, Retire(H)
      PROVE  LinkInv'
  <2> DEFINE gone(r) == [reg[r] EXCEPT !.discarded = TRUE, !.listed = reg[r].pending]
  <2>1. /\ DOMAIN reg' = DOMAIN reg
        /\ \A r \in DOMAIN reg : reg'[r] = IF r \in Taken(H) THEN gone(r) ELSE reg[r]
        /\ attached' = attached \ {r \in Taken(H) : ~reg[r].pending}
    BY <1>9 DEF Retire
  <2>2. ASSUME NEW r \in DOMAIN reg
        PROVE  /\ gone(r) \in Registration /\ Stands(gone(r))
               /\ gone(r).thread = reg[r].thread
    BY <1>0 DEF Registration, Threads, Stands
  <2>3. reg' \in Seq(Registration)
    <3>1. DOMAIN reg = 1..Len(reg) /\ Len(reg) \in Nat  BY <1>0, LenProperties
    <3>2. reg' \in [1..Len(reg) -> Registration]
      BY <1>0, <1>9, <2>1, <2>2, <3>1 DEF Retire
    <3> QED  BY <3>1, <3>2, SeqDef
  <2>4. ASSUME NEW r \in attached'
        PROVE  \/ r \in attached /\ reg'[r] = reg[r]
               \/ /\ reg'[r].discarded => reg'[r].thread \in {"landed", "taking"}
                  /\ reg'[r].thread \notin {"adding", "failed"}
    <3>1. r \in DOMAIN reg /\ r \in attached  BY <1>0, <2>1
    <3>2. CASE r \in Taken(H)
      <4>1. reg[r].pending /\ reg'[r].thread = reg[r].thread
        BY <2>1, <2>2, <3>1, <3>2
      <4>2. reg[r].thread = "landed"
        BY <1>0, <3>1, <4>1 DEF LinkInv, Stands, Registration, Threads
      <4> QED  BY <4>1, <4>2
    <3>3. CASE r \notin Taken(H)  BY <2>1, <3>1, <3>3
    <3> QED  BY <3>2, <3>3
  <2>5. \A r \in DOMAIN reg : reg'[r] = reg[r] \/ Stands(reg'[r])
    BY <2>1, <2>2
  <2>6. attached' \subseteq DOMAIN reg  BY <1>0, <2>1
  <2> QED  BY <2>1, <2>3, <2>4, <2>5, <2>6, InPlace
<1>10. CASE Cleared
  BY <1>0, <1>10, InPlace DEF Cleared
<1>11. CASE UNCHANGED linkVars
  BY <1>0, <1>11, InPlace DEF linkVars
<1> QED
  BY <1>1, <1>2, <1>3, <1>4, <1>5, <1>6, <1>7, <1>8, <1>9, <1>10, <1>11
     DEF LinkNext, ThreadNext, Raised, Abandoned, ReturnedLate

(* The table is well typed, and every registration stands as its thread says, *)
(* whatever is registered, refused, abandoned and retired in whatever order.  *)
THEOREM LinkInvariant == LinkSpec => []LinkInv
<1>1. LinkInit => LinkInv
  BY DEF LinkInit, LinkInv, LinkTypeOK
<1>2. LinkInv /\ [LinkNext]_linkVars => LinkInv'
  BY LinkStep
<1> QED  BY <1>1, <1>2, PTL DEF LinkSpec

(* Nothing is left on the transport that nobody can remove: a registration    *)
(* that was retired or is no longer listed is there only until its own thread *)
(* takes it off (_link.py:274-311, 324-353).                                  *)
THEOREM NothingIsLeft == LinkSpec => []NothingLeft
<1>1. LinkInv => NothingLeft
  BY DEF LinkInv, LinkTypeOK, NothingLeft, Stands, Retired
<1> QED  BY <1>1, LinkInvariant, PTL


-----------------------------------------------------------------------------
(* The subscriptions.                                                          *)
(* Whom the client hands to its link.                                         *)
Known ==
  /\ registry \subseteq Subs /\ bound \subseteq Subs /\ todo \subseteq Subs
  /\ connect \in {"replaced", "binding"} => current \in Subs

(* One step of the client's own on its link: a step of the table, or for a    *)
(* link without one a registration or a removal.                              *)
LinkUse ==
  \/ [LinkNext]_linkVars
  \/ kind = "native" /\ \E H \in SUBSET Handlers : NativeRetire(H)

LEMMA Unbinding ==
  ASSUME NEW H \in SUBSET Subs, Unbind(H)
  PROVE  LinkUse
<1>1. H \in SUBSET Handlers  BY HandlerKinds
<1> QED  BY <1>1 DEF Unbind, LinkUse, LinkNext

LEMMA Idle == ASSUME UNCHANGED linkVars PROVE LinkUse
BY DEF LinkUse

-----------------------------------------------------------------------------
(* Subscribing, and its end.                                                  *)
LEMMA SubscriberUse ==
  ASSUME Known, NEW s \in Subs,
         SubscribeStep(s) \/ AddCancelled(s) \/ Close(s) \/ Unsubscribe(s)
  PROVE  Known' /\ LinkUse
<1>0. s \in Handlers  BY HandlerKinds DEF Subs
<1>1. CASE OnNow(s)
  BY <1>0, <1>1 DEF OnNow, Known, LinkUse, LinkNext, passVars
<1>2. CASE OnLater(s) \/ OnConnected(s) \/ AddWaits(s) \/ AddCancelled(s)
  BY <1>2, Idle DEF OnLater, OnConnected, AddWaits, AddCancelled, Known, passVars
<1>3. CASE AddUnderLock(s)
  <2>1. Known'
    BY <1>3 DEF AddUnderLock, Commit, Known, passVars
  <2>2. LinkUse
    BY <1>0, <1>3 DEF AddUnderLock, LinkUse, LinkNext
  <2> QED  BY <2>1, <2>2
<1>4. CASE AddNow(s) \/ AddGranted(s)
  BY <1>3, <1>4 DEF AddNow, AddGranted
<1>5. ASSUME NEW r \in DOMAIN reg, AddBound(s, r)
      PROVE  Known' /\ LinkUse
  BY <1>5 DEF AddBound, Known, LinkUse, LinkNext, passVars
<1>6. ASSUME NEW r \in DOMAIN reg, AddFails(s, r)
      PROVE  Known' /\ LinkUse
  BY <1>6 DEF AddFails, Known, LinkUse, LinkNext, passVars
<1>7. CASE Close(s)
  <2>1. Known'  BY <1>7 DEF Close, Known, passVars
  <2>2. CASE Unbind({s})  BY <2>1, <2>2, Unbinding
  <2>3. CASE UNCHANGED linkVars  BY <2>1, <2>3, Idle
  <2> QED  BY <1>7, <2>1, <2>2, <2>3 DEF Close
<1>8. CASE Unsubscribe(s)
  <2>1. Known'  BY <1>8 DEF Unsubscribe, Known, passVars
  <2>2. CASE Unbind({s})  BY <2>1, <2>2, Unbinding
  <2>3. CASE UNCHANGED linkVars  BY <2>1, <2>3, Idle
  <2> QED  BY <1>8, <2>1, <2>2, <2>3 DEF Unsubscribe
<1> QED
  BY <1>1, <1>2, <1>4, <1>5, <1>6, <1>7, <1>8 DEF SubscribeStep

(* The reconciling pass.                                                      *)
LEMMA PassUse ==
  ASSUME Known, PassStep
  PROVE  Known' /\ LinkUse
<1>1. CASE PassStarts \/ PassGranted
  BY <1>1, Idle DEF PassStarts, PassGranted, Known
<1>2. CASE Reconcile
  <2> DEFINE kept == IF token # 0 /\ token # lastToken THEN {} ELSE bound
  <2>1. kept \ registry \in SUBSET Subs /\ Unbind(kept \ registry)
    BY <1>2 DEF Reconcile, Known
  <2>2. Known'  BY <1>2 DEF Reconcile, Known
  <2> QED  BY <2>1, <2>2, Unbinding
<1>3. CASE PassBinds
  <2>1. current \in Handlers /\ current \in Subs
    BY <1>3, HandlerKinds DEF PassBinds, Known
  <2>2. Known'  BY <1>3, <2>1 DEF PassBinds, Known
  <2>3. Register(current) \/ RegisterNow(current)  BY <1>3 DEF PassBinds
  <2> QED  BY <2>1, <2>2, <2>3 DEF LinkUse, LinkNext
<1>4. CASE PassEnds
  <2>1. bound \ registry \in SUBSET Subs /\ Unbind(bound \ registry)
    BY <1>4 DEF PassEnds, Known
  <2>2. Known'  BY <1>4 DEF PassEnds, Known
  <2> QED  BY <2>1, <2>2, Unbinding
<1>5. ASSUME NEW s \in todo, PassSkips(s)
      PROVE  Known' /\ LinkUse
  BY <1>5, Idle DEF PassSkips, Known
<1>6. ASSUME NEW s \in todo, PassReplaces(s)
      PROVE  Known' /\ LinkUse
  <2>1. Known'  BY <1>6 DEF PassReplaces, Known
  <2>2. CASE Unbind({s})  BY <2>1, <2>2, Unbinding DEF Known
  <2>3. CASE UNCHANGED linkVars  BY <2>1, <2>3, Idle
  <2> QED  BY <1>6, <2>1, <2>2, <2>3 DEF PassReplaces
<1>7. ASSUME NEW r \in DOMAIN reg, PassBound(r)
      PROVE  Known' /\ LinkUse
  <2>1. LinkUse  BY <1>7 DEF PassBound, LinkUse, LinkNext
  <2> QED  BY <1>7, <2>1 DEF PassBound, Known
<1>8. ASSUME NEW r \in DOMAIN reg, PassFails(r)
      PROVE  Known' /\ LinkUse
  BY <1>8 DEF PassFails, GivenUp, Known, LinkUse, LinkNext
<1>9. CASE PassFindsNoCarrier
  BY <1>9, Idle DEF PassFindsNoCarrier, GivenUp, Known
<1> QED
  BY <1>1, <1>2, <1>3, <1>4, <1>5, <1>6, <1>7, <1>8, <1>9 DEF PassStep

-----------------------------------------------------------------------------
LEMMA StepUse ==
  ASSUME Known, [Next]_vars
  PROVE  Known' /\ LinkUse
<1>1. ASSUME NEW h \in Streams,
             \/ StreamRegisters(h) \/ StreamRetires(h)
             \/ \E r \in DOMAIN reg : StreamRegistered(h, r)
      PROVE  Known' /\ LinkUse
  <2>0. h \in Handlers  BY HandlerKinds
  <2>1. Known'
    BY <1>1 DEF StreamRegisters, StreamRetires, StreamRegistered, Known, passVars
  <2>2. CASE StreamRegisters(h)
    BY <2>0, <2>1, <2>2 DEF StreamRegisters, LinkUse, LinkNext
  <2>3. CASE StreamRetires(h)
    BY <2>0, <2>1, <2>3 DEF StreamRetires, Unbind, LinkUse, LinkNext
  <2>4. ASSUME NEW r \in DOMAIN reg, StreamRegistered(h, r)
        PROVE  LinkUse
    BY <2>4 DEF StreamRegistered, LinkUse, LinkNext
  <2> QED  BY <1>1, <2>1, <2>2, <2>3, <2>4
<1>2. CASE BeginConnect \/ SessionOpens
  BY <1>2 DEF BeginConnect, SessionOpens, Known, LinkUse, LinkNext
<1>3. CASE ConnectFails \/ Drop
  BY <1>3, Idle DEF ConnectFails, Drop, Known, passVars
<1>4. ASSUME NEW r \in DOMAIN reg, ThreadStep(r)
      PROVE  Known' /\ LinkUse
  BY <1>4 DEF ThreadStep, clientVars, Known, LinkUse, LinkNext, ThreadNext
<1>5. CASE UNCHANGED vars
  BY <1>5, Idle DEF vars, clientVars, Known
<1> QED
  BY <1>1, <1>2, <1>3, <1>4, <1>5, SubscriberUse, PassUse DEF Next

(* Whatever the link, the client calls it only in the ways its table allows   *)
(* for (client.py:940-1166 on _link.py:253-353).                              *)
THEOREM LinkIsRespected == Spec => LinkRespected
<1>1. Init => Known
  BY DEF Init, Known
<1>2. Known /\ [Next]_vars => Known'
  BY StepUse
<1>3. Known /\ [Next]_vars => [kind = "native" \/ LinkNext]_linkVars
  BY StepUse DEF LinkUse
<1> QED  BY <1>1, <1>2, <1>3, PTL DEF Spec, LinkRespected

(* Nothing is left on the transport that nobody can remove, whatever          *)
(* subscribing, closing and reconnecting do to the registrations in flight.   *)
THEOREM SubscriptionsLeaveNothing == Spec => []NothingLeft
<1> DEFINE Inv == Known /\ LinkInv
<1>1. Init => Inv
  BY DEF Init, Known, LinkInit, LinkInv, LinkTypeOK
<1>2. ASSUME Inv, [Next]_vars
      PROVE  Inv'
  <2>1. Known' /\ LinkUse  BY <1>2, StepUse
  <2>2. CASE [LinkNext]_linkVars  BY <1>2, <2>1, <2>2, LinkStep
  <2>3. ASSUME NEW H \in SUBSET Handlers, NativeRetire(H)
        PROVE  Inv'
    <3>1. attached' \subseteq attached /\ reg' = reg  BY <2>3 DEF NativeRetire
    <3> QED  BY <1>2, <2>1, <3>1 DEF LinkInv, LinkTypeOK, Retired
  <2> QED  BY <2>1, <2>2, <2>3 DEF LinkUse
<1>3. Inv => NothingLeft
  BY DEF LinkInv, LinkTypeOK, NothingLeft, Stands, Retired
<1> QED  BY <1>1, <1>2, <1>3, PTL DEF Spec

-----------------------------------------------------------------------------
(* Whom an event reaches.  Besides who holds the lock, the argument follows   *)
(* where each handler's registration is: a registration that is not discarded *)
(* is held, and no handler has two; what nobody waits for any more is bound,  *)
(* or the pass has yet to look at it; what is waited for is the lock holder's.*)
Reconciling == connect \in {"loop", "replaced", "binding"}

(* A native registration of an earlier session is off the transport and is    *)
(* never looked at again.                                                     *)
Held(s, r) ==
  /\ reg[r].owner = s /\ ~reg[r].discarded
  /\ kind = "native" => r \in attached

Shape ==
  /\ kind \in {"native", "keeping", "clearing"} /\ kind \in LinkKinds
  /\ connect \in {"idle", "opening", "opened", "waiting", "reconcile", "loop",
                  "replaced", "binding"}
  /\ session \in Nat /\ lastToken \in Nat /\ ready \in BOOLEAN
  /\ DOMAIN task = Handlers

Locking ==
  /\ holder = Pass <=> Reconciling \/ connect = "reconcile"
  /\ \A s \in Subs : task[s] = "binding" <=> holder = s
  /\ kind = "native" => holder \notin Subs
  /\ ready => connect = "idle"
  /\ connect \in {"replaced", "binding"} => current \notin bound /\ task[current] = "live"

(* A native session is newer than the one the bindings were made on, until    *)
(* they are reconciled, and nothing is on it before.                          *)
Tokens ==
  /\ kind = "native" => lastToken <= session /\ (connect # "idle" => lastToken < session)
  /\ connect \in {"waiting", "reconcile"} \/ Reconciling
       => token = IF kind = "native" THEN session ELSE 0
  /\ kind = "native" /\ connect \in {"opening", "opened", "waiting", "reconcile"}
       => attached = {}

NotYet ==
  \A s \in Subs :
    /\ task[s] # "live" => s \notin bound /\ s \notin registry /\ s \notin todo
    /\ task[s] \in {"idle", "started", "waiting", "failed"}
         => \A r \in DOMAIN reg : reg[r].owner = s => reg[r].discarded

OneHeld ==
  \A s \in Subs : \A q, r \in DOMAIN reg : Held(s, q) /\ Held(s, r) => q = r

Entries ==
  \A r \in DOMAIN reg :
    /\ ~reg[r].awaited /\ ~reg[r].discarded => reg[r].thread = "over"
    /\ kind = "native" => ~reg[r].awaited /\ reg[r].thread = "over"
    /\ kind = "keeping" => reg[r].thread # "failed"

Asking ==
  \A r \in DOMAIN reg : reg[r].awaited /\ reg[r].owner \in Subs =>
    /\ ~reg[r].discarded
    /\ holder = reg[r].owner \/ (connect = "binding" /\ current = reg[r].owner)
    /\ reg[r].thread \in {"landed", "over"} /\ (ready \/ connect = "binding")
         => r \in attached

BoundServed ==
  ready \/ Reconciling =>
    \A s \in bound : \E r \in attached : reg[r].owner = s /\ ~reg[r].discarded

Covered ==
  /\ ready => bound = registry
  /\ connect = "loop" => registry \subseteq bound \cup todo
  /\ connect \in {"replaced", "binding"} => registry \subseteq bound \cup todo \cup {current}

(* Where the transport starts afresh with each session, a registration made   *)
(* on an earlier one serves nobody.                                           *)
Counts(r) ==
  /\ kind # "keeping" => r \in attached
  /\ kind = "clearing" => ready \/ connect \notin {"idle", "opening"}

HeldIsBound ==
  \A r \in DOMAIN reg :
    reg[r].owner \in Subs /\ ~reg[r].discarded /\ ~reg[r].awaited /\ Counts(r) =>
      \/ reg[r].owner \in bound
      \/ kind # "native" /\ Reconciling /\ reg[r].owner \in todo

Replaced == connect = "replaced" => \A r \in DOMAIN reg : ~Held(current, r)

CalledInv ==
  /\ Shape /\ Locking /\ Tokens /\ NotYet /\ OneHeld /\ Entries /\ Asking
  /\ BoundServed /\ Covered /\ HeldIsBound /\ Replaced

LEMMA CalledSuffices ==
  ASSUME LinkInv, Known, CalledInv
  PROVE  EachCalledOnce
<1>1. ASSUME NEW s \in Subs
      PROVE  Cardinality(Calls(s)) <= 1
  <2>1. \A q, r \in Calls(s) : q = r
    BY DEF CalledInv, OneHeld, Held, Calls, LinkInv, LinkTypeOK
  <2>2. CASE Calls(s) = {}
    BY <2>2, FS_EmptySet
  <2>3. CASE Calls(s) # {}
    <3>1. PICK r : r \in Calls(s)  BY <2>3
    <3>2. Calls(s) = {r}  BY <2>1, <3>1
    <3> QED  BY <3>2, FS_Singleton
  <2> QED  BY <2>2, <2>3
<1>2. ASSUME ready, NEW s \in registry
      PROVE  Calls(s) # {} /\ s \in bound
  <2>1. s \in bound  BY <1>2 DEF CalledInv, Covered
  <2>2. PICK r \in attached : reg[r].owner = s /\ ~reg[r].discarded
    BY <1>2, <2>1 DEF CalledInv, BoundServed
  <2> QED  BY <2>1, <2>2 DEF Calls
<1>3. ASSUME ready, NEW s \in Subs \ registry, NEW r \in Calls(s)
      PROVE  reg[r].awaited
  <2>1. r \in DOMAIN reg /\ r \in attached /\ reg[r].owner = s /\ ~reg[r].discarded
    BY DEF Calls, LinkInv, LinkTypeOK
  <2>2. s \notin bound  BY <1>3 DEF CalledInv, Covered
  <2> QED
    BY <1>3, <2>1, <2>2
       DEF CalledInv, HeldIsBound, Counts, Locking, Reconciling
<1> QED  BY <1>1, <1>2, <1>3 DEF EachCalledOnce, AtMostOnce, EveryOneIsCalled, NoneRestored

-----------------------------------------------------------------------------
(* What the link's steps do to the registrations.                             *)


LEMMA PlacesAre ==
  ASSUME LinkInv
  PROVE  /\ reg \in Seq(Registration) /\ attached \subseteq DOMAIN reg
         /\ DOMAIN reg = 1..Len(reg) /\ Len(reg) \in Nat
         /\ \A r \in DOMAIN reg : reg[r] \in Registration /\ Stands(reg[r]) /\ r \in Nat
         /\ \A r \in attached : reg[r].thread \notin {"adding", "failed"}
BY ElementOfSeq, LenProperties DEF LinkInv, LinkTypeOK

LEMMA Registers ==
  ASSUME LinkInv, NEW h \in Handlers, Register(h) \/ RegisterNow(h)
  PROVE  \E n : /\ n \notin DOMAIN reg /\ DOMAIN reg' = DOMAIN reg \cup {n}
                /\ \A r \in DOMAIN reg : reg'[r] = reg[r]
                /\ reg'[n].owner = h /\ ~reg'[n].discarded
                /\ \/ /\ Register(h) /\ attached' = attached
                      /\ reg'[n].awaited /\ reg'[n].thread = "adding"
                   \/ /\ RegisterNow(h) /\ attached' = attached \cup {n}
                      /\ ~reg'[n].awaited /\ reg'[n].thread = "over"
<1> DEFINE e == reg'[Len(reg) + 1]
           n == Len(reg) + 1
<1>0. reg \in Seq(Registration) /\ Len(reg) \in Nat /\ DOMAIN reg = 1..Len(reg)
  BY PlacesAre
<1>1. n \notin DOMAIN reg  BY <1>0
<1>2. CASE Register(h)
  <2> DEFINE x == [owner |-> h, thread |-> "adding", pending |-> TRUE,
                   discarded |-> FALSE, listed |-> TRUE, awaited |-> TRUE]
  <2>1. reg' = Append(reg, x) /\ attached' = attached  BY <1>2 DEF Register
  <2>2. DOMAIN reg' = DOMAIN reg \cup {n} /\ reg'[n] = x /\ \A r \in DOMAIN reg : reg'[r] = reg[r]
    <3>1. x \in Registration  BY DEF Registration, Threads
    <3> HIDE DEF x
    <3>2. /\ reg' \in Seq(Registration) /\ Len(reg') = Len(reg) + 1
          /\ \A m \in 1..Len(reg) : reg'[m] = reg[m]
          /\ reg'[n] = x
      BY <1>0, <2>1, <3>1, AppendProperties
    <3> QED  BY <1>0, <3>2, LenProperties
  <2> QED  BY <1>1, <1>2, <2>1, <2>2
<1>3. CASE RegisterNow(h)
  <2> DEFINE x == [owner |-> h, thread |-> "over", pending |-> FALSE,
                   discarded |-> FALSE, listed |-> TRUE, awaited |-> FALSE]
  <2>1. reg' = Append(reg, x) /\ attached' = attached \cup {n}  BY <1>3 DEF RegisterNow
  <2>2. DOMAIN reg' = DOMAIN reg \cup {n} /\ reg'[n] = x /\ \A r \in DOMAIN reg : reg'[r] = reg[r]
    <3>1. x \in Registration  BY DEF Registration, Threads
    <3> HIDE DEF x
    <3>2. /\ reg' \in Seq(Registration) /\ Len(reg') = Len(reg) + 1
          /\ \A m \in 1..Len(reg) : reg'[m] = reg[m]
          /\ reg'[n] = x
      BY <1>0, <2>1, <3>1, AppendProperties
    <3> QED  BY <1>0, <3>2, LenProperties
  <2> QED  BY <1>1, <1>3, <2>1, <2>2
<1> QED  BY <1>2, <1>3

(* Unbinding touches no other handler's registrations, and leaves no          *)
(* subscription of H with one it holds.                                       *)
Unbound(H) ==
  /\ DOMAIN reg' = DOMAIN reg /\ attached' \subseteq attached
  /\ \A r \in DOMAIN reg :
       /\ reg'[r].owner = reg[r].owner /\ reg'[r].thread = reg[r].thread
       /\ reg'[r].awaited = reg[r].awaited
       /\ reg[r].discarded => reg'[r].discarded
       /\ reg[r].owner \notin H =>
            reg'[r].discarded = reg[r].discarded /\ (r \in attached' <=> r \in attached)
       /\ reg[r].owner \in H /\ reg[r].owner \in Subs =>
            reg'[r].discarded \/ (kind = "native" /\ r \notin attached')

LEMMA UnbindEffect ==
  ASSUME LinkInv, OneHeld, NEW H \in SUBSET Handlers, Unbind(H)
  PROVE  Unbound(H)
<1>0. /\ attached \subseteq DOMAIN reg
      /\ \A r \in DOMAIN reg : reg[r] \in Registration /\ Stands(reg[r]) /\ r \in Nat
  BY PlacesAre
<1>1. CASE kind = "native"
  BY <1>0, <1>1 DEF Unbind, NativeRetire, Unbound
<1>2. CASE kind # "native"
  <2>0. /\ DOMAIN reg' = DOMAIN reg
        /\ \A r \in DOMAIN reg :
             reg'[r] = IF r \in Taken(H)
                         THEN [reg[r] EXCEPT !.discarded = TRUE, !.listed = reg[r].pending]
                         ELSE reg[r]
        /\ attached' = attached \ {r \in Taken(H) : ~reg[r].pending}
    BY <1>2 DEF Unbind, Retire
  <2>1. \A r \in Taken(H) : reg[r].owner \in H
    BY DEF Taken, Live
  <2>2. ASSUME NEW r \in DOMAIN reg, reg[r].owner \in H, reg[r].owner \in Subs,
               ~reg[r].discarded
        PROVE  r \in Taken(H)
    <3> DEFINE s == reg[r].owner
    <3>1. reg[r].listed  BY <1>0, <2>2 DEF Stands
    <3>2. r \in Live(s)  BY <2>2, <3>1 DEF Live
    <3>3. \A q \in Live(s) : q = r
      BY <1>2, <2>2 DEF OneHeld, Held, Live
    <3>4. r <= r  BY <1>0
    <3> QED  BY <2>2, <3>2, <3>3, <3>4 DEF Taken
  <2>3. ASSUME NEW r \in DOMAIN reg
        PROVE  /\ reg'[r].owner = reg[r].owner /\ reg'[r].thread = reg[r].thread
               /\ reg'[r].awaited = reg[r].awaited
               /\ reg[r].discarded => reg'[r].discarded
               /\ r \in Taken(H) => reg'[r].discarded
               /\ r \notin Taken(H) => reg'[r] = reg[r]
    BY <1>0, <2>0 DEF Registration
  <2> QED  BY <1>0, <1>2, <2>0, <2>1, <2>2, <2>3 DEF Unbound
<1> QED  BY <1>1, <1>2

-----------------------------------------------------------------------------
(* Subscribing.                                                               *)
LEMMA QuietSubscriber ==
  ASSUME LinkInv, Known, CalledInv, NEW s \in Subs,
         OnLater(s) \/ OnConnected(s) \/ AddWaits(s) \/ AddCancelled(s)
  PROVE  CalledInv'
<1>0. /\ reg' = reg /\ attached' = attached /\ kind' = kind /\ connect' = connect
      /\ session' = session /\ token' = token /\ lastToken' = lastToken /\ ready' = ready
      /\ registry' = registry /\ bound' = bound /\ holder' = holder /\ todo' = todo
      /\ current' = current
      /\ task[s] \in {"idle", "started", "waiting"}
      /\ \E t \in {"started", "waiting", "failed"} : task' = [task EXCEPT ![s] = t]
  BY DEF OnLater, OnConnected, AddWaits, AddCancelled, Arrives, linkVars, transportVars,
         passVars
<1>1. s \in Handlers /\ DOMAIN task = Handlers  BY HandlerKinds DEF CalledInv, Shape
<1>2. Shape'  BY <1>0, <1>1 DEF CalledInv, Shape
<1>3. Locking'  BY <1>0, <1>1 DEF CalledInv, Locking, Reconciling
<1>4. NotYet'  BY <1>0, <1>1 DEF CalledInv, NotYet
<1>5. /\ Tokens' /\ OneHeld' /\ Entries' /\ Asking' /\ BoundServed' /\ Covered' /\ HeldIsBound'
      /\ Replaced'
  BY <1>0 DEF CalledInv, Tokens, OneHeld, Held, Entries, Asking, BoundServed, Covered,
              HeldIsBound, Counts, Replaced, Reconciling
<1> QED  BY <1>2, <1>3, <1>4, <1>5 DEF CalledInv

(* A registration made at once, or one given up to a thread of its own.       *)
LEMMA SubscriberRegisters ==
  ASSUME LinkInv, Known, CalledInv, NEW s \in Subs, ready,
         task[s] \in {"idle", "started", "waiting"},
         \/ /\ RegisterNow(s) /\ bound' = bound \cup {s} /\ registry' = registry \cup {s}
            /\ task' = [task EXCEPT ![s] = "live"] /\ holder' = holder
         \/ /\ Register(s) /\ kind # "native" /\ holder' = s /\ holder \notin Subs
            /\ bound' = bound /\ registry' = registry
            /\ task' = [task EXCEPT ![s] = "binding"],
         UNCHANGED <<transportVars, passVars>>
  PROVE  CalledInv'
<1>0. /\ kind' = kind /\ connect' = connect /\ session' = session /\ token' = token
      /\ lastToken' = lastToken /\ ready' = ready /\ todo' = todo /\ current' = current
  BY DEF transportVars, passVars
<1>1. /\ s \in Handlers /\ DOMAIN task = Handlers /\ connect = "idle" /\ ~Reconciling
      /\ s \notin bound /\ s \notin registry /\ s # Pass
      /\ \A r \in DOMAIN reg : reg[r].owner = s => reg[r].discarded
      /\ holder # s /\ holder # Pass
  BY HandlerKinds DEF CalledInv, Shape, Locking, NotYet, Reconciling
<1>2. PICK n :
        /\ n \notin DOMAIN reg /\ DOMAIN reg' = DOMAIN reg \cup {n}
        /\ \A r \in DOMAIN reg : reg'[r] = reg[r]
        /\ reg'[n].owner = s /\ ~reg'[n].discarded
        /\ \/ Register(s) /\ attached' = attached /\ reg'[n].awaited /\ reg'[n].thread = "adding"
           \/ /\ RegisterNow(s) /\ attached' = attached \cup {n}
              /\ ~reg'[n].awaited /\ reg'[n].thread = "over"
  <2>1. s \in Handlers  BY <1>1
  <2>2. Register(s) \/ RegisterNow(s)  OBVIOUS
  <2> QED  BY ONLY LinkInv, <2>1, <2>2, Registers
<1>3. attached \subseteq DOMAIN reg  BY PlacesAre
<1>4. \/ /\ attached' = attached \cup {n} /\ ~reg'[n].awaited /\ reg'[n].thread = "over"
         /\ bound' = bound \cup {s} /\ registry' = registry \cup {s}
         /\ task' = [task EXCEPT ![s] = "live"] /\ holder' = holder
      \/ /\ attached' = attached /\ reg'[n].awaited /\ reg'[n].thread = "adding"
         /\ kind # "native" /\ holder' = s /\ holder \notin Subs
         /\ bound' = bound /\ registry' = registry
         /\ task' = [task EXCEPT ![s] = "binding"]
  <2>1. ~(Register(s) /\ RegisterNow(s))
    <3>1. SUFFICES ASSUME Register(s), RegisterNow(s) PROVE FALSE  OBVIOUS
    <3>2. attached' = attached /\ Len(reg) + 1 \in attached'  BY <3>1 DEF Register, RegisterNow
    <3> QED  BY <1>3, <3>2, PlacesAre
  <2> QED  BY <1>2, <2>1
<1>5. Shape'  BY <1>0, <1>1, <1>4 DEF CalledInv, Shape
<1>6. Locking'
  BY <1>0, <1>1, <1>4, HandlerKinds DEF CalledInv, Shape, Locking, Reconciling
<1>7. Tokens'  BY <1>0, <1>1, <1>4 DEF CalledInv, Tokens, Reconciling
<1>8. NotYet'
  <2>1. ASSUME NEW u \in Subs, u # s
        PROVE  /\ task'[u] = task[u] /\ (u \in bound' <=> u \in bound)
               /\ u \in registry' <=> u \in registry
               /\ \A r \in DOMAIN reg' : reg'[r].owner = u => r \in DOMAIN reg
    BY <1>1, <1>2, <1>4, <2>1, HandlerKinds
  <2>2. task'[s] \in {"live", "binding"} /\ (task'[s] # "live" => s \notin bound' /\ s \notin registry')
    BY <1>1, <1>4
  <2>3. s \notin todo'  BY <1>0, <1>1 DEF CalledInv, NotYet
  <2> QED  BY <1>0, <1>2, <2>1, <2>2, <2>3 DEF CalledInv, NotYet
<1>9. OneHeld'
  BY <1>0, <1>1, <1>2, <1>3, <1>4 DEF CalledInv, OneHeld, Held
<1>10. Entries'  BY <1>0, <1>1, <1>2, <1>4 DEF CalledInv, Entries
<1>11. Asking'
  BY <1>0, <1>1, <1>2, <1>3, <1>4 DEF CalledInv, Asking
<1>12. BoundServed'
  BY <1>0, <1>1, <1>2, <1>3, <1>4 DEF CalledInv, BoundServed, Reconciling
<1>13. Covered'  BY <1>0, <1>1, <1>4 DEF CalledInv, Covered
<1>14. HeldIsBound'
  BY <1>0, <1>1, <1>2, <1>3, <1>4 DEF CalledInv, HeldIsBound, Counts, Reconciling
<1>15. Replaced'  BY <1>0, <1>1 DEF Replaced
<1> QED
  BY <1>5, <1>6, <1>7, <1>8, <1>9, <1>10, <1>11, <1>12, <1>13, <1>14, <1>15 DEF CalledInv

(* One registration changes; its owner stays.                                 *)
Touches(r) ==
  /\ DOMAIN reg' = DOMAIN reg
  /\ \A q \in DOMAIN reg : /\ q # r => reg'[q] = reg[q] /\ (q \in attached' <=> q \in attached)
                           /\ reg'[q].owner = reg[q].owner
  /\ attached' \subseteq DOMAIN reg

LEMMA ReturnedEffect ==
  ASSUME LinkInv, NEW r \in DOMAIN reg, Returned(r)
  PROVE  /\ Touches(r) /\ attached' = attached /\ reg[r].awaited /\ reg[r].thread = "over"
         /\ ~reg'[r].awaited /\ reg'[r].discarded = reg[r].discarded
         /\ reg'[r].thread = reg[r].thread
<1>1. reg[r] \in Registration /\ attached \subseteq DOMAIN reg  BY PlacesAre
<1> QED  BY <1>1 DEF Returned, Touches, Registration

LEMMA WithdrawnEffect ==
  ASSUME LinkInv, NEW r \in DOMAIN reg, Withdrawn(r)
  PROVE  /\ Touches(r) /\ ~reg'[r].awaited /\ reg'[r].discarded
         /\ reg'[r].thread = reg[r].thread
<1>1. reg[r] \in Registration /\ attached \subseteq DOMAIN reg  BY PlacesAre
<1> QED  BY <1>1 DEF Withdrawn, Touches, Registration

-----------------------------------------------------------------------------
LEMMA CommittedLater ==
  ASSUME LinkInv, Known, CalledInv, NEW s \in Subs,
         task[s] \in {"started", "waiting"}, holder = None, ~ready, Commit(s),
         UNCHANGED <<linkVars, transportVars, passVars>>
  PROVE  CalledInv'
<1>0. /\ reg' = reg /\ attached' = attached /\ kind' = kind /\ connect' = connect
      /\ session' = session /\ token' = token /\ lastToken' = lastToken /\ ready' = ready
      /\ todo' = todo /\ current' = current /\ bound' = bound
      /\ registry' = registry \cup {s} /\ holder' = None
      /\ task' = [task EXCEPT ![s] = "live"]
  BY DEF Commit, linkVars, transportVars, passVars
<1>1. /\ s \in Handlers /\ DOMAIN task = Handlers /\ None \notin Subs /\ None # Pass
      /\ ~Reconciling /\ connect # "reconcile"
  BY HandlerKinds DEF CalledInv, Shape, Locking
<1>2. Shape'  BY <1>0, <1>1 DEF CalledInv, Shape
<1>3. Locking'  BY <1>0, <1>1 DEF CalledInv, Locking, Reconciling
<1>4. NotYet'  BY <1>0, <1>1 DEF CalledInv, NotYet
<1>5. Covered'  BY <1>0, <1>1 DEF CalledInv, Covered, Reconciling
<1>6. /\ Tokens' /\ OneHeld' /\ Entries' /\ Asking' /\ BoundServed' /\ HeldIsBound'
      /\ Replaced'
  BY <1>0 DEF CalledInv, Tokens, OneHeld, Held, Entries, Asking, BoundServed,
              HeldIsBound, Counts, Replaced, Reconciling
<1> QED  BY <1>2, <1>3, <1>4, <1>5, <1>6 DEF CalledInv

LEMMA NotTaken ==
  ASSUME LinkInv, Known, CalledInv, NEW s \in Subs,
         task[s] \in {"started", "waiting"}, holder = None, holder' = None,
         task' = [task EXCEPT ![s] = "failed"],
         UNCHANGED <<linkVars, transportVars, passVars, registry, bound>>
  PROVE  CalledInv'
<1>0. /\ reg' = reg /\ attached' = attached /\ kind' = kind /\ connect' = connect
      /\ session' = session /\ token' = token /\ lastToken' = lastToken /\ ready' = ready
      /\ todo' = todo /\ current' = current /\ bound' = bound /\ registry' = registry
      /\ holder' = holder
  BY DEF linkVars, transportVars, passVars
<1>1. s \in Handlers /\ DOMAIN task = Handlers
  BY HandlerKinds DEF CalledInv, Shape
<1>2. Shape'  BY <1>0, <1>1 DEF CalledInv, Shape
<1>3. Locking'  BY <1>0, <1>1 DEF CalledInv, Locking, Reconciling
<1>4. NotYet'  BY <1>0, <1>1 DEF CalledInv, NotYet
<1>5. /\ Tokens' /\ OneHeld' /\ Entries' /\ Asking' /\ BoundServed' /\ Covered' /\ HeldIsBound'
      /\ Replaced'
  BY <1>0 DEF CalledInv, Tokens, OneHeld, Held, Entries, Asking, BoundServed, Covered,
              HeldIsBound, Counts, Replaced, Reconciling
<1> QED  BY <1>2, <1>3, <1>4, <1>5 DEF CalledInv

LEMMA AddedUnderLock ==
  ASSUME LinkInv, Known, CalledInv, NEW s \in Subs,
         task[s] \in {"started", "waiting"}, holder = None, AddUnderLock(s)
  PROVE  CalledInv'
<1>1. CASE ~ready /\ Commit(s) /\ UNCHANGED linkVars
  BY <1>1, CommittedLater DEF AddUnderLock
<1>2. CASE ready /\ kind = "native" /\ RegisterNow(s) /\ Commit(s)
  BY <1>2, SubscriberRegisters DEF AddUnderLock, Commit
<1>3. CASE /\ holder' = None /\ task' = [task EXCEPT ![s] = "failed"]
           /\ UNCHANGED <<linkVars, registry, bound>>
  BY <1>3, NotTaken DEF AddUnderLock
<1>4. CASE /\ ready /\ kind # "native" /\ Register(s)
           /\ holder' = s /\ task' = [task EXCEPT ![s] = "binding"]
           /\ UNCHANGED <<registry, bound>>
  <2>1. holder \notin Subs  BY HandlerKinds
  <2> QED  BY <1>4, <2>1, SubscriberRegisters DEF AddUnderLock
<1> QED  BY <1>1, <1>2, <1>3, <1>4 DEF AddUnderLock

LEMMA SubscriberBound ==
  ASSUME LinkInv, Known, CalledInv, NEW s \in Subs, NEW r \in DOMAIN reg, AddBound(s, r)
  PROVE  CalledInv'
<1>0. /\ kind' = kind /\ connect' = connect
      /\ session' = session /\ token' = token /\ lastToken' = lastToken /\ ready' = ready
      /\ todo' = todo /\ current' = current
      /\ registry' = registry \cup {s} /\ bound' = bound \cup {s} /\ holder = s /\ holder' = None
      /\ task' = [task EXCEPT ![s] = "live"] /\ reg[r].owner = s
  BY DEF AddBound, Entry, transportVars, passVars
<1>1. /\ s \in Handlers /\ DOMAIN task = Handlers /\ None \notin Subs /\ None # Pass
      /\ s # Pass /\ ~Reconciling /\ connect # "reconcile" /\ task[s] = "binding"
      /\ kind # "native"
  BY <1>0, HandlerKinds DEF CalledInv, Shape, Locking
<1>2. /\ Touches(r) /\ attached' = attached /\ reg[r].awaited /\ reg[r].thread = "over"
      /\ ~reg'[r].awaited /\ reg'[r].discarded = reg[r].discarded
      /\ reg'[r].thread = reg[r].thread
  BY ReturnedEffect DEF AddBound
<1>3. ~reg[r].discarded /\ (ready => r \in attached)
  BY <1>0, <1>2 DEF CalledInv, Asking
<1>4. Shape'  BY <1>0, <1>1 DEF CalledInv, Shape
<1>5. Locking'  BY <1>0, <1>1 DEF CalledInv, Locking, Reconciling
<1>6. Tokens'  BY <1>0, <1>1 DEF CalledInv, Tokens, Reconciling
<1>7. NotYet'  BY <1>0, <1>1, <1>2, <1>3 DEF CalledInv, NotYet, Touches
<1>8. OneHeld'  BY <1>0, <1>1, <1>2, <1>3 DEF CalledInv, OneHeld, Held, Touches
<1>9. Entries'  BY <1>0, <1>1, <1>2 DEF CalledInv, Entries, Touches
<1>10. Asking'
  <2>1. ASSUME NEW q \in DOMAIN reg', reg'[q].awaited, reg'[q].owner \in Subs
        PROVE  FALSE
    <3>1. q \in DOMAIN reg /\ q # r /\ reg[q].awaited /\ reg[q].owner \in Subs
      BY <1>2, <2>1 DEF Touches
    <3>2. reg[q].owner = s /\ ~reg[q].discarded
      BY <1>0, <1>1, <3>1 DEF CalledInv, Asking, Reconciling
    <3> QED  BY <1>0, <1>1, <1>3, <3>1, <3>2 DEF CalledInv, OneHeld, Held
  <2> QED  BY <2>1 DEF Asking
<1>11. BoundServed'
  BY <1>0, <1>1, <1>2, <1>3, PlacesAre DEF CalledInv, BoundServed, Reconciling, Touches
<1>12. Covered'  BY <1>0, <1>1 DEF CalledInv, Covered, Reconciling
<1>13. HeldIsBound'
  BY <1>0, <1>1, <1>2, <1>3 DEF CalledInv, HeldIsBound, Counts, Reconciling, Touches
<1>14. Replaced'  BY <1>0, <1>1 DEF Replaced, Reconciling
<1> QED
  BY <1>4, <1>5, <1>6, <1>7, <1>8, <1>9, <1>10, <1>11, <1>12, <1>13, <1>14 DEF CalledInv

LEMMA SubscriberFails ==
  ASSUME LinkInv, Known, CalledInv, NEW s \in Subs, NEW r \in DOMAIN reg, AddFails(s, r)
  PROVE  CalledInv'
<1>0. /\ kind' = kind /\ connect' = connect
      /\ session' = session /\ token' = token /\ lastToken' = lastToken /\ ready' = ready
      /\ todo' = todo /\ current' = current
      /\ registry' = registry /\ bound' = bound /\ holder = s /\ holder' = None
      /\ task' = [task EXCEPT ![s] = "failed"] /\ reg[r].owner = s /\ reg[r].awaited
  BY DEF AddFails, Entry, transportVars, passVars, Raised, Abandoned
<1>1. /\ s \in Handlers /\ DOMAIN task = Handlers /\ None \notin Subs /\ None # Pass
      /\ s # Pass /\ ~Reconciling /\ connect # "reconcile" /\ task[s] = "binding"
      /\ kind # "native" /\ s \notin bound
  BY <1>0, HandlerKinds DEF CalledInv, Shape, Locking, NotYet
<1>2. /\ Touches(r) /\ ~reg'[r].awaited /\ reg'[r].discarded
      /\ reg'[r].thread = reg[r].thread
  BY WithdrawnEffect DEF AddFails, Raised, Abandoned
<1>3. ~reg[r].discarded
  BY <1>0 DEF CalledInv, Asking
<1>4. \A q \in DOMAIN reg : reg[q].owner = s /\ q # r => reg[q].discarded
  BY <1>0, <1>1, <1>3 DEF CalledInv, OneHeld, Held
<1>5. Shape'  BY <1>0, <1>1 DEF CalledInv, Shape
<1>6. Locking'  BY <1>0, <1>1 DEF CalledInv, Locking, Reconciling
<1>7. Tokens'  BY <1>0, <1>1 DEF CalledInv, Tokens, Reconciling
<1>8. NotYet'
  <2>1. ASSUME NEW q \in DOMAIN reg', reg'[q].owner = s
        PROVE  reg'[q].discarded
    BY <1>2, <1>4, <2>1 DEF Touches
  <2>2. ASSUME NEW u \in Subs, u # s
        PROVE  task'[u] = task[u] /\ \A q \in DOMAIN reg' : reg'[q].owner = u => reg'[q] = reg[q]
    BY <1>0, <1>1, <1>2, <2>2, HandlerKinds DEF Touches
  <2> QED  BY <1>0, <1>1, <1>2, <2>1, <2>2 DEF CalledInv, NotYet, Touches
<1>9. OneHeld'  BY <1>0, <1>1, <1>2 DEF CalledInv, OneHeld, Held, Touches
<1>10. Entries'  BY <1>0, <1>1, <1>2 DEF CalledInv, Entries, Touches
<1>11. Asking'
  <2>1. ASSUME NEW q \in DOMAIN reg', reg'[q].awaited, reg'[q].owner \in Subs
        PROVE  FALSE
    <3>1. q \in DOMAIN reg /\ q # r /\ reg[q].awaited /\ reg[q].owner \in Subs
      BY <1>2, <2>1 DEF Touches
    <3>2. reg[q].owner = s /\ ~reg[q].discarded
      BY <1>0, <1>1, <3>1 DEF CalledInv, Asking, Reconciling
    <3> QED  BY <1>4, <3>1, <3>2
  <2> QED  BY <2>1 DEF Asking
<1>12. BoundServed'
  BY <1>0, <1>1, <1>2, PlacesAre DEF CalledInv, BoundServed, Reconciling, Touches
<1>13. Covered'  BY <1>0, <1>1 DEF CalledInv, Covered, Reconciling
<1>14. HeldIsBound'
  BY <1>0, <1>1, <1>2 DEF CalledInv, HeldIsBound, Counts, Reconciling, Touches
<1>15. Replaced'  BY <1>0, <1>1 DEF Replaced, Reconciling
<1> QED
  BY <1>5, <1>6, <1>7, <1>8, <1>9, <1>10, <1>11, <1>12, <1>13, <1>14, <1>15 DEF CalledInv

-----------------------------------------------------------------------------
(* Closing.  Nobody waits for a registration that is bound.                   *)
LEMMA BoundIsSettled ==
  ASSUME LinkInv, Known, CalledInv, NEW r \in DOMAIN reg, reg[r].owner \in bound
  PROVE  ~reg[r].awaited
<1>1. reg[r].owner \in Subs  BY DEF Known
<1> QED  BY <1>1 DEF CalledInv, Asking, Locking, NotYet

LEMMA SubscriberCloses ==
  ASSUME LinkInv, Known, CalledInv, NEW s \in Subs, Close(s) \/ Unsubscribe(s)
  PROVE  CalledInv'
<1>0. /\ kind' = kind /\ connect' = connect /\ connect \notin {"reconcile", "loop", "replaced"}
      /\ session' = session /\ token' = token /\ lastToken' = lastToken /\ ready' = ready
      /\ todo' = todo /\ current' = current /\ holder' = holder /\ task' = task
      /\ registry' = registry \ {s}
  BY DEF Close, Unsubscribe, transportVars, passVars, LoopFree
<1>1. CASE s \in bound /\ Unbind({s}) /\ bound' = bound \ {s}
  <2>1. Unbound({s})  BY <1>1, UnbindEffect, HandlerKinds DEF CalledInv
  <2>2. \A r \in DOMAIN reg : reg[r].owner = s => ~reg[r].awaited
    BY <1>1, BoundIsSettled
  <2>3. Shape'  BY <1>0 DEF CalledInv, Shape
  <2>4. Locking'  BY <1>0, <1>1 DEF CalledInv, Locking, Reconciling
  <2>5. Tokens'  BY <1>0, <2>1 DEF CalledInv, Tokens, Reconciling, Unbound
  <2>6. NotYet'  BY <1>0, <1>1, <2>1 DEF CalledInv, NotYet, Unbound
  <2>7. OneHeld'  BY <1>0, <2>1 DEF CalledInv, OneHeld, Held, Unbound
  <2>8. Entries'  BY <1>0, <2>1 DEF CalledInv, Entries, Unbound
  <2>9. Asking'  BY <1>0, <2>1, <2>2 DEF CalledInv, Asking, Unbound
  <2>10. BoundServed'
    BY <1>0, <1>1, <2>1, PlacesAre DEF CalledInv, BoundServed, Reconciling, Unbound
  <2>11. Covered'  BY <1>0, <1>1 DEF CalledInv, Covered
  <2>12. HeldIsBound'
    BY <1>0, <1>1, <2>1 DEF CalledInv, HeldIsBound, Counts, Reconciling, Unbound
  <2>13. Replaced'  BY <1>0 DEF Replaced
  <2> QED
    BY <2>3, <2>4, <2>5, <2>6, <2>7, <2>8, <2>9, <2>10, <2>11, <2>12, <2>13 DEF CalledInv
<1>2. CASE /\ UNCHANGED linkVars /\ bound' = bound /\ (ready => s \notin registry)
  <2>1. reg' = reg /\ attached' = attached  BY <1>2 DEF linkVars
  <2>2. /\ Shape' /\ Locking' /\ Tokens' /\ NotYet' /\ OneHeld' /\ Entries' /\ Asking'
        /\ BoundServed' /\ HeldIsBound' /\ Replaced'
    BY <1>0, <1>2, <2>1
       DEF CalledInv, Shape, Locking, NotYet, Tokens, OneHeld, Held, Entries, Asking,
           BoundServed, HeldIsBound, Counts, Replaced, Reconciling
  <2>3. Covered'  BY <1>0, <1>2 DEF CalledInv, Covered
  <2> QED  BY <2>2, <2>3 DEF CalledInv
<1>3. ready => bound = registry  BY DEF CalledInv, Covered
<1>4. CASE Close(s)
  BY <1>1, <1>2, <1>3, <1>4 DEF Close
<1>5. CASE Unsubscribe(s)
  <2>1. CASE s \in bound  BY <1>1, <1>5, <2>1 DEF Unsubscribe
  <2>2. CASE s \notin bound
    <3>1. bound' = bound /\ UNCHANGED linkVars  BY <1>5, <2>2 DEF Unsubscribe
    <3> QED  BY <1>2, <1>3, <2>2, <3>1
  <2> QED  BY <2>1, <2>2
<1> QED  BY <1>4, <1>5

-----------------------------------------------------------------------------
(* The session.                                                               *)
LEMMA ConnectBegins ==
  ASSUME LinkInv, Known, CalledInv, BeginConnect
  PROVE  CalledInv'
<1>0. /\ kind' = kind /\ connect = "idle" /\ connect' = "opening"
      /\ token' = token /\ lastToken' = lastToken /\ ready' = FALSE
      /\ todo' = todo /\ current' = current /\ holder' = holder /\ task' = task
      /\ registry' = registry /\ bound' = bound /\ reg' = reg
      /\ \/ kind = "native" /\ session' = session + 1 /\ attached' = {}
         \/ kind # "native" /\ session' = session /\ attached' = attached
  BY DEF BeginConnect, linkVars, Cleared
<1>1. Shape'
  <2>1. session' \in Nat  BY <1>0 DEF CalledInv, Shape
  <2>2. ready' \in BOOLEAN  BY <1>0
  <2> QED  BY <1>0, <2>1, <2>2 DEF CalledInv, Shape
<1>2. Locking'  BY <1>0 DEF CalledInv, Locking, Reconciling
<1>3. Tokens'  BY <1>0 DEF CalledInv, Shape, Tokens, Reconciling
<1>4. NotYet' /\ Entries'  BY <1>0 DEF CalledInv, NotYet, Entries
<1>5. OneHeld'  BY <1>0 DEF CalledInv, OneHeld, Held
<1>6. Asking'  BY <1>0 DEF CalledInv, Asking
<1>7. BoundServed' /\ Covered' /\ Replaced'  BY <1>0 DEF BoundServed, Covered, Replaced, Reconciling
<1>8. HeldIsBound'
  BY <1>0 DEF CalledInv, HeldIsBound, Counts, Reconciling
<1> QED  BY <1>1, <1>2, <1>3, <1>4, <1>5, <1>6, <1>7, <1>8 DEF CalledInv

LEMMA SessionBegins ==
  ASSUME LinkInv, Known, CalledInv, SessionOpens
  PROVE  CalledInv'
<1>0. /\ kind' = kind /\ connect = "opening" /\ connect' = "opened"
      /\ token' = token /\ lastToken' = lastToken /\ ready' = ready
      /\ todo' = todo /\ current' = current /\ holder' = holder /\ task' = task
      /\ registry' = registry /\ bound' = bound /\ reg' = reg
      /\ kind = "native" => session' = session
      /\ kind # "native" => session' = session + 1
      /\ \/ kind = "clearing" /\ attached' = {}
         \/ kind # "clearing" /\ attached' = attached
  BY DEF SessionOpens, linkVars, Cleared
<1>1. Shape' /\ ~ready  BY <1>0 DEF CalledInv, Shape, Locking
<1>2. Locking'  BY <1>0 DEF CalledInv, Locking, Reconciling
<1>3. Tokens'  BY <1>0 DEF CalledInv, Tokens, Reconciling
<1>4. NotYet' /\ Entries'  BY <1>0 DEF CalledInv, NotYet, Entries
<1>5. OneHeld'  BY <1>0 DEF CalledInv, OneHeld, Held
<1>6. Asking'  BY <1>0, <1>1 DEF CalledInv, Asking
<1>7. BoundServed' /\ Covered' /\ Replaced'
  BY <1>0, <1>1 DEF BoundServed, Covered, Replaced, Reconciling
<1>8. HeldIsBound'
  BY <1>0 DEF CalledInv, Shape, HeldIsBound, Counts, Reconciling
<1> QED  BY <1>1, <1>2, <1>3, <1>4, <1>5, <1>6, <1>7, <1>8 DEF CalledInv

LEMMA SessionEnds ==
  ASSUME LinkInv, Known, CalledInv, ConnectFails \/ Drop
  PROVE  CalledInv'
<1>0. /\ kind' = kind
      /\ connect' = connect \/ (connect = "opening" /\ connect' = "idle")
      /\ token' = token /\ lastToken' = lastToken /\ ready' = ready
      /\ todo' = todo /\ current' = current /\ holder' = holder /\ task' = task
      /\ registry' = registry /\ bound' = bound /\ reg' = reg /\ attached' = attached
      /\ session' = session
  BY DEF ConnectFails, Drop, linkVars, transportVars, passVars
<1>1. connect' # connect => ~ready  BY <1>0 DEF CalledInv, Locking
<1>2. Shape' /\ Locking'  BY <1>0, <1>1 DEF CalledInv, Shape, Locking, Reconciling
<1>3. Tokens'  BY <1>0 DEF CalledInv, Tokens, Reconciling
<1>4. NotYet' /\ OneHeld' /\ Entries'
  BY <1>0 DEF CalledInv, NotYet, OneHeld, Held, Entries
<1>5. Asking'  BY <1>0, <1>1 DEF CalledInv, Asking
<1>6. BoundServed' /\ Covered' /\ Replaced'
  BY <1>0, <1>1 DEF CalledInv, BoundServed, Covered, Replaced, Reconciling, Held
<1>7. HeldIsBound'
  BY <1>0, <1>1 DEF CalledInv, HeldIsBound, Counts, Reconciling
<1> QED  BY <1>2, <1>3, <1>4, <1>5, <1>6, <1>7 DEF CalledInv

-----------------------------------------------------------------------------
(* The reconciling pass.  While it holds the lock nobody else waits for a     *)
(* registration, unless the pass itself does.                                 *)
LEMMA NobodyAsks ==
  ASSUME LinkInv, Known, CalledInv, connect \in {"reconcile", "loop", "replaced"}
  PROVE  \A r \in DOMAIN reg : reg[r].owner \in Subs => ~reg[r].awaited
<1>1. holder = Pass /\ Pass \notin Subs
  BY HandlerKinds DEF CalledInv, Locking, Reconciling
<1> QED  BY <1>1 DEF CalledInv, Asking

LEMMA PassBegins ==
  ASSUME LinkInv, Known, CalledInv, PassStarts \/ PassGranted
  PROVE  CalledInv'
<1>0. /\ kind' = kind /\ lastToken' = lastToken /\ ready' = ready /\ session' = session
      /\ todo' = todo /\ current' = current /\ task' = task
      /\ registry' = registry /\ bound' = bound /\ reg' = reg /\ attached' = attached
      /\ connect \in {"opened", "waiting"} /\ connect' \in {"waiting", "reconcile"}
      /\ \/ connect' = "waiting" /\ holder' = holder
         \/ connect' = "reconcile" /\ holder = None /\ holder' = Pass
      /\ token' = (IF kind = "native" THEN session ELSE 0)
  BY DEF PassStarts, PassGranted, linkVars, transportVars, LockFree, Granted, Queue,
         CalledInv, Shape, Tokens
<1>1. ~ready /\ None \notin Subs /\ Pass \notin Subs /\ None # Pass
  BY <1>0, HandlerKinds DEF CalledInv, Locking
<1>2. Shape'  BY <1>0 DEF CalledInv, Shape
<1>3. Locking'  BY <1>0, <1>1 DEF CalledInv, Locking, Reconciling
<1>4. Tokens'  BY <1>0 DEF CalledInv, Tokens, Reconciling
<1>5. NotYet' /\ OneHeld' /\ Entries'  BY <1>0 DEF CalledInv, NotYet, OneHeld, Held, Entries
<1>6. Asking'  BY <1>0, <1>1 DEF CalledInv, Asking
<1>7. BoundServed' /\ Covered' /\ Replaced'
  BY <1>0, <1>1 DEF BoundServed, Covered, Replaced, Reconciling
<1>8. HeldIsBound'
  BY <1>0, <1>1 DEF CalledInv, HeldIsBound, Counts, Reconciling
<1> QED  BY <1>2, <1>3, <1>4, <1>5, <1>6, <1>7, <1>8 DEF CalledInv

LEMMA Reconciles ==
  ASSUME LinkInv, Known, CalledInv, Reconcile
  PROVE  CalledInv'
<1> DEFINE kept == IF token # 0 /\ token # lastToken THEN {} ELSE bound
           H == kept \ registry
<1>0. /\ kind' = kind /\ lastToken' = lastToken /\ ready' = ready /\ session' = session
      /\ todo' = registry /\ current' = current /\ task' = task /\ holder' = holder
      /\ registry' = registry /\ token' = token
      /\ connect = "reconcile" /\ connect' = "loop" /\ Unbind(H)
      /\ bound' = IF token = 0 THEN {} ELSE kept \cap registry
  BY DEF Reconcile, transportVars
<1>1. /\ kind = "native" => token # 0 /\ token # lastToken /\ attached = {}
      /\ kind # "native" => kept = bound
      /\ bound' = {}
  <2>1. kind = "native" => token = session /\ lastToken < session /\ attached = {}
    BY <1>0 DEF CalledInv, Tokens
  <2>2. kind # "native" => token = 0  BY <1>0 DEF CalledInv, Tokens
  <2>3. session \in Nat /\ lastToken \in Nat  BY DEF CalledInv, Shape
  <2> QED  BY <1>0, <2>1, <2>2, <2>3
<1>2. H \in SUBSET Handlers  BY HandlerKinds DEF Known
<1>3. Unbound(H)  BY <1>0, <1>2, UnbindEffect DEF CalledInv
<1>4. \A r \in DOMAIN reg : reg[r].owner \in Subs => ~reg[r].awaited
  BY <1>0, NobodyAsks
<1>5. Shape'  BY <1>0 DEF CalledInv, Shape
<1>6. Locking'  BY <1>0 DEF CalledInv, Locking, Reconciling
<1>7. Tokens'  BY <1>0 DEF CalledInv, Tokens, Reconciling
<1>8. NotYet'  BY <1>0, <1>1, <1>3 DEF CalledInv, NotYet, Unbound
<1>9. OneHeld' /\ Entries'
  BY <1>0, <1>3 DEF CalledInv, OneHeld, Held, Entries, Unbound
<1>10. Asking'  BY <1>3, <1>4 DEF Asking, Unbound
<1>11. BoundServed' /\ Replaced' /\ Covered'
  BY <1>0, <1>1 DEF BoundServed, Replaced, Covered, CalledInv, Locking
<1>12. HeldIsBound'
  <2>1. SUFFICES ASSUME NEW r \in DOMAIN reg',
                        reg'[r].owner \in Subs, ~reg'[r].discarded, ~reg'[r].awaited, Counts(r)'
                 PROVE  kind' # "native" /\ Reconciling' /\ reg'[r].owner \in todo'
    BY DEF HeldIsBound
  <2>2. /\ r \in DOMAIN reg /\ reg'[r].owner = reg[r].owner /\ ~reg[r].discarded
        /\ ~reg[r].awaited
    BY <1>3, <2>1 DEF Unbound
  <2>3. Counts(r)
    BY <1>0, <1>3, <2>1 DEF Counts, Unbound
  <2>4. kind # "native"  BY <1>1, <2>3 DEF Counts
  <2>5. reg[r].owner \in bound
    BY <1>0, <2>1, <2>2, <2>3 DEF CalledInv, HeldIsBound, Reconciling
  <2>6. reg[r].owner \in registry
    BY <1>1, <1>3, <2>1, <2>2, <2>4, <2>5 DEF Unbound
  <2> QED  BY <1>0, <2>2, <2>4, <2>6 DEF Reconciling
<1> QED
  BY <1>5, <1>6, <1>7, <1>8, <1>9, <1>10, <1>11, <1>12 DEF CalledInv

LEMMA PassSteps ==
  ASSUME LinkInv, Known, CalledInv, NEW s \in todo, PassSkips(s)
  PROVE  CalledInv'
<1>0. /\ kind' = kind /\ lastToken' = lastToken /\ ready' = ready /\ session' = session
      /\ todo' = todo \ {s} /\ current' = current /\ task' = task /\ holder' = holder
      /\ registry' = registry /\ token' = token /\ bound' = bound
      /\ connect = "loop" /\ connect' = "loop" /\ s \in bound
      /\ reg' = reg /\ attached' = attached
  BY DEF PassSkips, transportVars, linkVars
<1> QED
  BY <1>0 DEF CalledInv, Shape, Locking, NotYet, Tokens, OneHeld, Held, Entries, Asking,
           BoundServed, HeldIsBound, Counts, Replaced, Reconciling, Covered

LEMMA PassRetires ==
  ASSUME LinkInv, Known, CalledInv, NEW s \in todo, PassReplaces(s)
  PROVE  CalledInv'
<1>0. /\ kind' = kind /\ lastToken' = lastToken /\ ready' = ready /\ session' = session
      /\ todo' = todo \ {s} /\ current' = s /\ task' = task /\ holder' = holder
      /\ registry' = registry /\ token' = token /\ bound' = bound
      /\ connect = "loop" /\ connect' = "replaced" /\ s \notin bound
      /\ IF token = 0 THEN Unbind({s}) ELSE UNCHANGED linkVars
  BY DEF PassReplaces, transportVars
<1>1. s \in Subs /\ s \in Handlers  BY HandlerKinds DEF Known
<1>2. task[s] = "live"  BY <1>1 DEF CalledInv, NotYet
<1>3. \A r \in DOMAIN reg : reg[r].owner \in Subs => ~reg[r].awaited
  BY <1>0, NobodyAsks
<1>4. Unbound({s})
  <2>1. CASE token = 0
    BY <1>0, <1>1, <2>1, UnbindEffect DEF CalledInv
  <2>2. CASE token # 0
    <3>1. reg' = reg /\ attached' = attached  BY <1>0, <2>2 DEF linkVars
    <3>2. kind = "native"  BY <1>0, <2>2 DEF CalledInv, Tokens, Reconciling
    <3>3. \A r \in DOMAIN reg : reg[r].owner = s /\ ~reg[r].discarded => r \notin attached
      BY <1>0, <1>1, <1>3, <3>2 DEF CalledInv, HeldIsBound, Counts
    <3> QED  BY <3>1, <3>2, <3>3 DEF Unbound
  <2> QED  BY <2>1, <2>2
<1>5. Shape'  BY <1>0 DEF CalledInv, Shape
<1>6. Locking'  BY <1>0, <1>2 DEF CalledInv, Locking, Reconciling
<1>7. Tokens'  BY <1>0 DEF CalledInv, Tokens, Reconciling
<1>8. NotYet'  BY <1>0, <1>4 DEF CalledInv, NotYet, Unbound
<1>9. OneHeld' /\ Entries'
  BY <1>0, <1>4 DEF CalledInv, OneHeld, Held, Entries, Unbound
<1>10. Asking'  BY <1>3, <1>4 DEF Asking, Unbound
<1>11. BoundServed'
  BY <1>0, <1>4, PlacesAre DEF CalledInv, BoundServed, Reconciling, Unbound
<1>12. Covered'  BY <1>0 DEF CalledInv, Locking, Covered
<1>13. Replaced'
  BY <1>0, <1>1, <1>4 DEF Replaced, Held, Unbound
<1>14. HeldIsBound'
  BY <1>0, <1>1, <1>4 DEF CalledInv, HeldIsBound, Counts, Reconciling, Unbound
<1> QED
  BY <1>5, <1>6, <1>7, <1>8, <1>9, <1>10, <1>11, <1>12, <1>13, <1>14 DEF CalledInv

LEMMA PassRegisters ==
  ASSUME LinkInv, Known, CalledInv, PassBinds
  PROVE  CalledInv'
<1>0. /\ kind' = kind /\ lastToken' = lastToken /\ ready' = ready /\ session' = session
      /\ todo' = todo /\ current' = current /\ task' = task /\ holder' = holder
      /\ registry' = registry /\ token' = token /\ connect = "replaced"
      /\ \/ /\ kind = "native" /\ RegisterNow(current) /\ bound' = bound \cup {current}
            /\ connect' = "loop"
         \/ kind # "native" /\ Register(current) /\ bound' = bound /\ connect' = "binding"
  BY DEF PassBinds, transportVars
<1>1. current \in Subs /\ current \in Handlers /\ current \notin bound /\ task[current] = "live"
      /\ ~ready
  BY <1>0, HandlerKinds DEF Known, CalledInv, Locking
<1>2. \A r \in DOMAIN reg : reg[r].owner \in Subs => ~reg[r].awaited
  BY <1>0, NobodyAsks
<1>3. \A r \in DOMAIN reg : ~Held(current, r)  BY <1>0 DEF CalledInv, Replaced
<1>4. PICK n :
        /\ n \notin DOMAIN reg /\ DOMAIN reg' = DOMAIN reg \cup {n}
        /\ \A r \in DOMAIN reg : reg'[r] = reg[r]
        /\ reg'[n].owner = current /\ ~reg'[n].discarded
        /\ \/ Register(current) /\ attached' = attached /\ reg'[n].awaited
              /\ reg'[n].thread = "adding"
           \/ /\ RegisterNow(current) /\ attached' = attached \cup {n}
              /\ ~reg'[n].awaited /\ reg'[n].thread = "over"
  <2>1. Register(current) \/ RegisterNow(current)  BY <1>0
  <2>2. current \in Handlers  BY <1>1
  <2> QED  BY <2>1, <2>2, Registers
<1>5. attached \subseteq DOMAIN reg  BY PlacesAre
<1>6. \/ /\ attached' = attached \cup {n} /\ ~reg'[n].awaited /\ reg'[n].thread = "over"
         /\ bound' = bound \cup {current} /\ kind = "native" /\ connect' = "loop"
      \/ /\ attached' = attached /\ reg'[n].awaited /\ reg'[n].thread = "adding"
         /\ kind # "native" /\ bound' = bound /\ connect' = "binding"
  <2>1. ~(Register(current) /\ RegisterNow(current))
    <3>1. SUFFICES ASSUME Register(current), RegisterNow(current) PROVE FALSE  OBVIOUS
    <3>2. attached' = attached /\ Len(reg) + 1 \in attached'
      BY <3>1 DEF Register, RegisterNow
    <3> QED  BY <1>5, <3>2, PlacesAre
  <2> QED  BY <1>0, <1>4, <2>1
<1>7. Shape'  BY <1>0 DEF CalledInv, Shape
<1>8. Locking'
  BY <1>0, <1>1, <1>6 DEF CalledInv, Locking, Reconciling
<1>9. Tokens'  BY <1>0 DEF CalledInv, Tokens, Reconciling
<1>10. NotYet'  BY <1>0, <1>1, <1>4, <1>6 DEF CalledInv, NotYet
<1>11. OneHeld'  BY <1>0, <1>3, <1>4, <1>5, <1>6 DEF CalledInv, OneHeld, Held
<1>12. Entries'  BY <1>0, <1>4, <1>6 DEF CalledInv, Entries
<1>13. Asking'  BY <1>0, <1>1, <1>2, <1>4, <1>5, <1>6 DEF Asking
<1>14. BoundServed'
  BY <1>0, <1>4, <1>5, <1>6 DEF CalledInv, BoundServed, Reconciling
<1>15. Covered'  BY <1>0, <1>1, <1>6 DEF CalledInv, Covered
<1>16. HeldIsBound'
  BY <1>0, <1>4, <1>5, <1>6 DEF CalledInv, HeldIsBound, Counts, Reconciling
<1>17. Replaced'  BY <1>6 DEF Replaced
<1> QED
  BY <1>7, <1>8, <1>9, <1>10, <1>11, <1>12, <1>13, <1>14, <1>15, <1>16, <1>17 DEF CalledInv

LEMMA PassCommits ==
  ASSUME LinkInv, Known, CalledInv, NEW r \in DOMAIN reg, PassBound(r)
  PROVE  CalledInv'
<1>0. /\ kind' = kind /\ lastToken' = lastToken /\ ready' = ready /\ session' = session
      /\ todo' = todo /\ current' = current /\ task' = task /\ holder' = holder
      /\ registry' = registry /\ token' = token /\ bound' = bound \cup {current}
      /\ connect = "binding" /\ connect' = "loop" /\ reg[r].owner = current
  BY DEF PassBound, transportVars, Entry
<1>1. current \in Subs /\ current \notin bound /\ task[current] = "live" /\ ~ready
      /\ holder = Pass /\ Pass \notin Subs
  BY <1>0, HandlerKinds DEF Known, CalledInv, Locking, Reconciling
<1>2. /\ Touches(r) /\ attached' = attached /\ reg[r].awaited /\ reg[r].thread = "over"
      /\ ~reg'[r].awaited /\ reg'[r].discarded = reg[r].discarded
      /\ reg'[r].thread = reg[r].thread
  BY ReturnedEffect DEF PassBound
<1>3. ~reg[r].discarded /\ r \in attached /\ kind # "native"
  BY <1>0, <1>1, <1>2 DEF CalledInv, Asking, Entries
<1>4. Shape'  BY <1>0 DEF CalledInv, Shape
<1>5. Locking'  BY <1>0, <1>1 DEF CalledInv, Locking, Reconciling
<1>6. Tokens'  BY <1>0 DEF CalledInv, Tokens, Reconciling
<1>7. NotYet'  BY <1>0, <1>1, <1>2 DEF CalledInv, NotYet, Touches
<1>8. OneHeld'  BY <1>0, <1>2 DEF CalledInv, OneHeld, Held, Touches
<1>9. Entries'  BY <1>0, <1>2 DEF CalledInv, Entries, Touches
<1>10. Asking'
  <2>1. ASSUME NEW q \in DOMAIN reg', reg'[q].awaited, reg'[q].owner \in Subs
        PROVE  FALSE
    <3>1. q \in DOMAIN reg /\ q # r /\ reg[q].awaited /\ reg[q].owner \in Subs
      BY <1>2, <2>1 DEF Touches
    <3>2. reg[q].owner = current /\ ~reg[q].discarded
      BY <1>0, <1>1, <3>1 DEF CalledInv, Asking
    <3> QED  BY <1>0, <1>1, <1>3, <3>1, <3>2 DEF CalledInv, OneHeld, Held
  <2> QED  BY <2>1 DEF Asking
<1>11. BoundServed'
  BY <1>0, <1>1, <1>2, <1>3, PlacesAre DEF CalledInv, BoundServed, Reconciling, Touches
<1>12. Covered'  BY <1>0, <1>1 DEF CalledInv, Covered
<1>13. HeldIsBound'
  BY <1>0, <1>2, <1>3 DEF CalledInv, HeldIsBound, Counts, Reconciling, Touches
<1>14. Replaced'  BY <1>0 DEF Replaced
<1> QED
  BY <1>4, <1>5, <1>6, <1>7, <1>8, <1>9, <1>10, <1>11, <1>12, <1>13, <1>14 DEF CalledInv

(* The pass gives up: what it had not come to is left unbound, and serves     *)
(* nobody once the next session begins.                                       *)
LEMMA PassGivesUp ==
  ASSUME LinkInv, Known, CalledInv,
         PassFindsNoCarrier \/ \E r \in DOMAIN reg : PassFails(r)
  PROVE  CalledInv'
<1>0. /\ kind' = kind /\ lastToken' = lastToken /\ ready' = ready /\ session' = session
      /\ todo' = {} /\ task' = task /\ holder' = None
      /\ registry' = registry /\ token' = token /\ bound' = bound
      /\ connect \in {"replaced", "binding"} /\ connect' = "idle"
  BY DEF PassFindsNoCarrier, PassFails, GivenUp
<1>1. ~ready /\ holder = Pass /\ {Pass, None} \cap Subs = {} /\ None # Pass
  BY <1>0, HandlerKinds DEF Known, CalledInv, Locking, Reconciling
<1>2. Shape'  BY <1>0 DEF CalledInv, Shape
<1>3. Locking'  BY <1>0, <1>1 DEF CalledInv, Locking, Reconciling
<1>4. Tokens'  BY <1>0 DEF CalledInv, Tokens, Reconciling
<1>5. BoundServed' /\ Covered' /\ Replaced'
  BY <1>0, <1>1 DEF BoundServed, Covered, Replaced, Reconciling
<1>6. CASE PassFindsNoCarrier
  <2>1. reg' = reg /\ attached' = attached /\ connect = "replaced" /\ kind = "native"
    BY <1>6 DEF PassFindsNoCarrier, linkVars, Takes
  <2>2. NotYet' /\ OneHeld' /\ Entries'
    BY <1>0, <2>1 DEF CalledInv, NotYet, OneHeld, Held, Entries
  <2>3. Asking'  BY <2>1, NobodyAsks DEF Asking
  <2>4. HeldIsBound'
    BY <1>0, <2>1 DEF CalledInv, HeldIsBound, Counts
  <2> QED  BY <1>2, <1>3, <1>4, <1>5, <2>2, <2>3, <2>4 DEF CalledInv
<1>7. ASSUME NEW r \in DOMAIN reg, PassFails(r)
      PROVE  CalledInv'
  <2>1. /\ connect = "binding" /\ reg[r].owner = current /\ reg[r].awaited
        /\ reg[r].thread = "failed" /\ Withdrawn(r)
    BY <1>7 DEF PassFails, Raised, Entry
  <2>2. kind = "clearing"  BY <2>1 DEF CalledInv, Entries, Shape
  <2>3. /\ Touches(r) /\ ~reg'[r].awaited /\ reg'[r].discarded
        /\ reg'[r].thread = reg[r].thread
    BY <2>1, WithdrawnEffect
  <2>4. current \in Subs /\ ~reg[r].discarded
    BY <2>1 DEF Known, CalledInv, Asking
  <2>5. NotYet' /\ OneHeld' /\ Entries'
    BY <1>0, <2>2, <2>3 DEF CalledInv, NotYet, OneHeld, Held, Entries, Touches
  <2>6. Asking'
    <3>1. ASSUME NEW q \in DOMAIN reg', reg'[q].awaited, reg'[q].owner \in Subs
          PROVE  FALSE
      <4>1. q \in DOMAIN reg /\ q # r /\ reg[q].awaited /\ reg[q].owner \in Subs
        BY <2>3, <3>1 DEF Touches
      <4>2. reg[q].owner = current /\ ~reg[q].discarded
        BY <1>1, <4>1 DEF CalledInv, Asking
      <4> QED  BY <2>1, <2>2, <2>4, <4>1, <4>2 DEF CalledInv, OneHeld, Held
    <3> QED  BY <3>1 DEF Asking
  <2>7. HeldIsBound'  BY <1>0, <1>1, <2>2 DEF HeldIsBound, Counts
  <2> QED  BY <1>2, <1>3, <1>4, <1>5, <2>5, <2>6, <2>7 DEF CalledInv
<1> QED  BY <1>6, <1>7

LEMMA PassFinishes ==
  ASSUME LinkInv, Known, CalledInv, PassEnds
  PROVE  CalledInv'
<1> DEFINE H == bound \ registry
<1>0. /\ kind' = kind /\ lastToken' = token /\ ready' = TRUE /\ session' = session
      /\ todo' = todo /\ todo = {} /\ task' = task /\ holder' = None
      /\ registry' = registry /\ token' = token /\ bound' = bound \cap registry
      /\ connect = "loop" /\ connect' = "idle" /\ Unbind(H)
  BY DEF PassEnds, transportVars
<1>1. holder = Pass /\ {Pass, None} \cap Subs = {} /\ None # Pass
  BY <1>0, HandlerKinds DEF CalledInv, Locking, Reconciling
<1>2. Unbound(H)
  <2>1. H \in SUBSET Handlers  BY HandlerKinds DEF Known
  <2> QED  BY <1>0, <2>1, UnbindEffect DEF CalledInv
<1>3. \A r \in DOMAIN reg : reg[r].owner \in Subs => ~reg[r].awaited
  BY <1>0, NobodyAsks
<1>4. token \in Nat /\ (kind = "native" => token = session)
  BY <1>0 DEF CalledInv, Tokens, Shape, Reconciling
<1>5. Shape'
  <2>1. ready' \in BOOLEAN  BY <1>0
  <2> QED  BY <1>0, <1>4, <2>1 DEF CalledInv, Shape
<1>6. Locking'  BY <1>0, <1>1 DEF CalledInv, Locking, Reconciling
<1>7. Tokens'  BY <1>0, <1>4 DEF CalledInv, Shape, Tokens, Reconciling
<1>8. NotYet'  BY <1>0, <1>2 DEF CalledInv, NotYet, Unbound
<1>9. OneHeld' /\ Entries'
  BY <1>0, <1>2 DEF CalledInv, OneHeld, Held, Entries, Unbound
<1>10. Asking'  BY <1>2, <1>3 DEF Asking, Unbound
<1>11. BoundServed'
  BY <1>0, <1>2, PlacesAre DEF CalledInv, BoundServed, Reconciling, Unbound
<1>12. Covered'  BY <1>0 DEF CalledInv, Covered
<1>13. HeldIsBound'
  <2>1. SUFFICES ASSUME NEW r \in DOMAIN reg',
                        reg'[r].owner \in Subs, ~reg'[r].discarded, ~reg'[r].awaited, Counts(r)'
                 PROVE  reg'[r].owner \in bound'
    BY DEF HeldIsBound
  <2>2. /\ r \in DOMAIN reg /\ reg'[r].owner = reg[r].owner /\ ~reg[r].discarded
        /\ ~reg[r].awaited
    BY <1>2, <2>1 DEF Unbound
  <2>3. Counts(r)  BY <1>0, <1>2, <2>1 DEF Counts, Unbound
  <2>4. reg[r].owner \in bound
    BY <1>0, <2>1, <2>2, <2>3 DEF CalledInv, HeldIsBound
  <2>5. reg[r].owner \notin H
    BY <1>0, <1>2, <2>1, <2>2 DEF Unbound, Counts
  <2> QED  BY <1>0, <2>2, <2>4, <2>5
<1>14. Replaced'  BY <1>0 DEF Replaced
<1> QED
  BY <1>5, <1>6, <1>7, <1>8, <1>9, <1>10, <1>11, <1>12, <1>13, <1>14 DEF CalledInv

-----------------------------------------------------------------------------
(* The event streams, whose handlers are nobody's subscription.               *)
LEMMA StreamSteps ==
  ASSUME LinkInv, Known, CalledInv, NEW h \in Streams,
         \/ StreamRegisters(h) \/ StreamRetires(h)
         \/ \E r \in DOMAIN reg : StreamRegistered(h, r)
  PROVE  CalledInv'
<1>0. /\ kind' = kind /\ lastToken' = lastToken /\ ready' = ready /\ session' = session
      /\ todo' = todo /\ current' = current /\ holder' = holder /\ connect' = connect
      /\ registry' = registry /\ token' = token /\ bound' = bound
      /\ connect \notin {"reconcile", "loop", "replaced"}
      /\ task' = task \/ \E t \in {"live", "binding", "failed"} : task' = [task EXCEPT ![h] = t]
  BY DEF StreamRegisters, StreamRetires, StreamRegistered, LoopFree, transportVars, passVars
<1>1. h \in Handlers /\ h \notin Subs /\ DOMAIN task = Handlers
  BY HandlerKinds DEF CalledInv, Shape
<1>2. DOMAIN task' = Handlers /\ \A s \in Subs : task'[s] = task[s]
  BY <1>0, <1>1, HandlerKinds
<1>3. Shape'  BY <1>0, <1>2 DEF CalledInv, Shape
<1>4. Locking'
  <2>1. connect \in {"replaced", "binding"} => current \in Subs  BY DEF Known
  <2> QED  BY <1>0, <1>2, <2>1 DEF CalledInv, Locking, Reconciling
<1>5. Covered' /\ Replaced'  BY <1>0 DEF CalledInv, Covered, Replaced
<1>6. /\ DOMAIN reg \subseteq DOMAIN reg'
      /\ \A r \in DOMAIN reg' : r \in DOMAIN reg \/ reg'[r].owner = h
      /\ \A r \in DOMAIN reg : reg[r].owner # h =>
           reg'[r] = reg[r] /\ (r \in attached' <=> r \in attached)
      /\ \A r \in DOMAIN reg : reg'[r].owner = reg[r].owner
      /\ Entries' /\ (ready \/ attached' \subseteq attached)
  <2>1. CASE StreamRegisters(h)
    <3>1. /\ ready
          /\ \/ RegisterNow(h) /\ kind = "native"
             \/ Register(h) /\ kind # "native"
      BY <2>1 DEF StreamRegisters
    <3>2. PICK n :
        /\ n \notin DOMAIN reg /\ DOMAIN reg' = DOMAIN reg \cup {n}
        /\ \A r \in DOMAIN reg : reg'[r] = reg[r]
        /\ reg'[n].owner = h /\ ~reg'[n].discarded
        /\ \/ Register(h) /\ attached' = attached /\ reg'[n].awaited
              /\ reg'[n].thread = "adding"
           \/ /\ RegisterNow(h) /\ attached' = attached \cup {n}
              /\ ~reg'[n].awaited /\ reg'[n].thread = "over"
      BY <1>1, <3>1, Registers
    <3>3. attached \subseteq DOMAIN reg  BY PlacesAre
    <3>4. ~(Register(h) /\ RegisterNow(h))
      <4>1. SUFFICES ASSUME Register(h), RegisterNow(h) PROVE FALSE  OBVIOUS
      <4>2. attached' = attached /\ Len(reg) + 1 \in attached'
        BY <4>1 DEF Register, RegisterNow
      <4> QED  BY <3>3, <4>2, PlacesAre
    <3>5. Entries'  BY <1>0, <3>1, <3>2, <3>4 DEF CalledInv, Entries
    <3> QED  BY <3>1, <3>2, <3>3, <3>5
  <2>2. CASE StreamRetires(h)
    <3>1. Unbound({h})  BY <1>1, <2>2, UnbindEffect DEF StreamRetires, CalledInv
    <3>2. Entries'  BY <1>0, <3>1 DEF CalledInv, Entries, Unbound
    <3>3. \A r \in DOMAIN reg : reg[r].owner # h => reg'[r] = reg[r]
      <4>1. CASE kind = "native"
        BY <2>2, <4>1 DEF StreamRetires, Unbind, NativeRetire
      <4>2. CASE kind # "native"
        <5>1. \A r \in Taken({h}) : reg[r].owner = h  BY DEF Taken, Live
        <5>2. \A r \in DOMAIN reg : r \notin Taken({h}) => reg'[r] = reg[r]
          BY <2>2, <4>2 DEF StreamRetires, Unbind, Retire
        <5> QED  BY <5>1, <5>2
      <4> QED  BY <4>1, <4>2
    <3> QED  BY <3>1, <3>2, <3>3 DEF Unbound
  <2>3. ASSUME NEW r \in DOMAIN reg, StreamRegistered(h, r)
        PROVE  /\ Touches(r) /\ reg[r].owner = h /\ attached' \subseteq attached
               /\ ~reg'[r].awaited /\ reg'[r].thread = reg[r].thread
               /\ ~reg'[r].discarded => reg[r].thread = "over"
    <3>1. reg[r].owner = h  BY <2>3 DEF StreamRegistered, Entry
    <3>2. CASE Returned(r)  BY <3>1, <3>2, ReturnedEffect
    <3>3. CASE Withdrawn(r)
      BY <3>1, <3>3, WithdrawnEffect DEF Withdrawn
    <3> QED  BY <2>3, <3>2, <3>3 DEF StreamRegistered, ReturnedLate, Raised
  <2>4. ASSUME NEW r \in DOMAIN reg, StreamRegistered(h, r)
        PROVE  Entries'
    BY <1>0, <2>3, <2>4 DEF CalledInv, Entries, Touches
  <2> QED  BY <2>1, <2>2, <2>3, <2>4, <1>0 DEF Touches
<1>7. Tokens'
  <2>1. connect \in {"opening", "opened", "waiting", "reconcile"} => ~ready
    BY DEF CalledInv, Locking
  <2> QED  BY <1>0, <1>6, <2>1 DEF CalledInv, Tokens, Reconciling
<1>8. NotYet'  BY <1>0, <1>1, <1>2, <1>6 DEF CalledInv, NotYet
<1>9. OneHeld'  BY <1>0, <1>1, <1>6 DEF CalledInv, OneHeld, Held
<1>10. Asking'  BY <1>0, <1>1, <1>6 DEF CalledInv, Asking
<1>11. BoundServed'
  <2>1. bound \subseteq Subs  BY DEF Known
  <2> QED
    BY <1>0, <1>1, <1>6, <2>1, PlacesAre DEF CalledInv, BoundServed, Reconciling
<1>12. HeldIsBound'
  BY <1>0, <1>1, <1>6 DEF CalledInv, HeldIsBound, Counts, Reconciling
<1> QED
  BY <1>3, <1>4, <1>5, <1>6, <1>7, <1>8, <1>9, <1>10, <1>11, <1>12 DEF CalledInv

-----------------------------------------------------------------------------
(* The registering threads.                                                   *)
LEMMA ThreadSteps ==
  ASSUME LinkInv, Known, CalledInv, Refusing \subseteq {"clearing"},
         NEW r \in DOMAIN reg, ThreadStep(r)
  PROVE  CalledInv'
<1>0. /\ kind' = kind /\ lastToken' = lastToken /\ ready' = ready /\ session' = session
      /\ todo' = todo /\ current' = current /\ holder' = holder /\ connect' = connect
      /\ registry' = registry /\ token' = token /\ bound' = bound /\ task' = task
  BY DEF ThreadStep, clientVars
<1>1. /\ attached \subseteq DOMAIN reg /\ reg[r] \in Registration /\ Stands(reg[r])
      /\ \A q \in attached : reg[q].thread \notin {"adding", "failed"}
  BY PlacesAre
<1>2. /\ DOMAIN reg' = DOMAIN reg
      /\ \A q \in DOMAIN reg : q # r => reg'[q] = reg[q] /\ (q \in attached' <=> q \in attached)
      /\ reg'[r].owner = reg[r].owner /\ reg'[r].discarded = reg[r].discarded
      /\ reg'[r].awaited = reg[r].awaited
      /\ reg[r].thread # "over"
      /\ \/ /\ reg[r].thread = "adding" /\ reg'[r].thread = "landed"
            /\ attached' = attached \cup {r}
         \/ /\ reg[r].thread = "adding" /\ reg'[r].thread = "failed" /\ kind = "clearing"
            /\ attached' = attached
         \/ /\ reg[r].thread = "landed" /\ reg'[r].thread \in {"over", "taking"}
            /\ attached' = attached
            /\ ~reg[r].discarded => reg'[r].thread = "over"
         \/ /\ reg[r].thread = "taking" /\ reg'[r].thread = "over" /\ reg[r].discarded
            /\ attached' = attached \ {r}
  <2>1. CASE Land(r)  BY <1>1, <2>1 DEF Land, Registration
  <2>2. CASE kind \in Refusing /\ Refuse(r)  BY <1>1, <2>2 DEF Refuse, Registration
  <2>3. CASE Settle(r)  BY <1>1, <2>3 DEF Settle, Registration
  <2>4. CASE TakeBack(r)  BY <1>1, <2>4 DEF TakeBack, Registration, Stands
  <2> QED  BY <2>1, <2>2, <2>3, <2>4 DEF ThreadStep
<1>3. (reg[r].awaited \/ reg[r].discarded) /\ kind # "native"
  BY <1>2 DEF CalledInv, Entries
<1>4. Shape' /\ Locking' /\ Covered'
  BY <1>0 DEF CalledInv, Shape, Locking, Covered, Reconciling
<1>5. Tokens'  BY <1>0, <1>3 DEF CalledInv, Tokens, Reconciling
<1>6. NotYet'  BY <1>0, <1>2 DEF CalledInv, NotYet
<1>7. OneHeld' /\ Replaced'  BY <1>0, <1>2, <1>3 DEF CalledInv, OneHeld, Held, Replaced
<1>8. Entries'  BY <1>0, <1>2, <1>3 DEF CalledInv, Entries
<1>9. Asking'
  <2>1. reg[r].awaited /\ reg[r].owner \in Subs => ~reg[r].discarded
    BY DEF CalledInv, Asking
  <2> QED  BY <1>0, <1>2, <2>1 DEF CalledInv, Asking
<1>10. BoundServed'
  BY <1>0, <1>1, <1>2 DEF CalledInv, BoundServed, Reconciling
<1>11. HeldIsBound'
  BY <1>0, <1>2, <1>3 DEF CalledInv, HeldIsBound, Counts, Reconciling
<1> QED
  BY <1>4, <1>5, <1>6, <1>7, <1>8, <1>9, <1>10, <1>11 DEF CalledInv

-----------------------------------------------------------------------------
LEMMA CalledStep ==
  ASSUME LinkInv, Known, CalledInv, Refusing \subseteq {"clearing"}, [Next]_vars
  PROVE  CalledInv'
<1>1. ASSUME NEW s \in Subs,
             SubscribeStep(s) \/ AddCancelled(s) \/ Close(s) \/ Unsubscribe(s)
      PROVE  CalledInv'
  <2>1. CASE OnNow(s)
    BY <2>1, SubscriberRegisters DEF OnNow
  <2>2. CASE AddNow(s)
    BY <2>2, AddedUnderLock DEF AddNow, Arrives, LockFree
  <2>3. CASE AddGranted(s)
    BY <2>3, AddedUnderLock DEF AddGranted, Granted
  <2> QED
    BY <1>1, <2>1, <2>2, <2>3, QuietSubscriber, SubscriberBound, SubscriberFails,
       SubscriberCloses DEF SubscribeStep
<1>2. CASE PassStep
  BY <1>2, PassBegins, Reconciles, PassSteps, PassRetires, PassRegisters, PassCommits,
     PassGivesUp, PassFinishes DEF PassStep
<1>3. CASE UNCHANGED vars
  <2>1. /\ kind' = kind /\ lastToken' = lastToken /\ ready' = ready /\ session' = session
        /\ todo' = todo /\ current' = current /\ holder' = holder /\ connect' = connect
        /\ registry' = registry /\ token' = token /\ bound' = bound /\ task' = task
        /\ reg' = reg /\ attached' = attached
    BY <1>3 DEF vars, linkVars, clientVars
  <2> QED
    BY <2>1 DEF CalledInv, Shape, Locking, NotYet, Tokens, OneHeld, Held, Entries, Asking,
             BoundServed, HeldIsBound, Counts, Replaced, Reconciling, Covered
<1> QED
  BY <1>1, <1>2, <1>3, StreamSteps, ThreadSteps, ConnectBegins, SessionBegins, SessionEnds
     DEF Next

(* An event reaches each handler that is subscribed, once, and no other:      *)
(* across any number of sessions, whatever is subscribed, closed and          *)
(* cancelled while the pass or a registration is under way                    *)
(* (client.py:1030-1123).  Over MQTT this does not hold (run subs_mqtt), nor  *)
(* where a transport without session tokens keeps its handlers and refuses a  *)
(* registration: the pass has forgotten the bindings it did not come to.      *)
THEOREM EventsReachEachOnce ==
  ASSUME LinkKinds \subseteq {"native", "keeping", "clearing"},
         Refusing \subseteq {"clearing"}
  PROVE  Spec => []EachCalledOnce
<1> DEFINE Inv == Known /\ LinkInv /\ CalledInv
<1>1. Init => Inv
  <2> SUFFICES ASSUME Init PROVE Inv  OBVIOUS
  <2>1. Known /\ LinkInv
    BY DEF Init, Known, LinkInit, LinkInv, LinkTypeOK
  <2>2. DOMAIN reg = {} /\ attached = {}
    BY DEF Init, LinkInit
  <2>3. \A s \in Subs : s \in Handlers /\ task[s] = "idle"
    BY HandlerKinds DEF Init
  <2>4. Shape /\ Locking
    BY <2>3, HandlerKinds DEF Init, Shape, Locking, Reconciling
  <2>5. Tokens /\ NotYet /\ OneHeld /\ Entries /\ Asking
    BY <2>2, <2>3 DEF Init, Tokens, NotYet, OneHeld, Entries, Asking, Reconciling
  <2>6. BoundServed /\ Covered /\ HeldIsBound /\ Replaced
    BY <2>2 DEF Init, BoundServed, Covered, HeldIsBound, Replaced, Reconciling
  <2> QED  BY <2>1, <2>4, <2>5, <2>6 DEF CalledInv
<1>2. ASSUME Inv, [Next]_vars
      PROVE  Inv'
  <2>1. Known' /\ LinkUse  BY <1>2, StepUse
  <2>2. CASE [LinkNext]_linkVars  BY <1>2, <2>1, <2>2, LinkStep, CalledStep
  <2>3. ASSUME NEW H \in SUBSET Handlers, NativeRetire(H)
        PROVE  Inv'
    <3>1. attached' \subseteq attached /\ reg' = reg  BY <2>3 DEF NativeRetire
    <3> QED  BY <1>2, <2>1, <3>1, CalledStep DEF LinkInv, LinkTypeOK, Retired
  <2> QED  BY <2>1, <2>2, <2>3 DEF LinkUse
<1>3. Inv => EachCalledOnce
  BY CalledSuffices
<1> QED  BY <1>1, <1>2, <1>3, PTL DEF Spec

-----------------------------------------------------------------------------
(* What a listing shows, for any tags, hubs and calls.                         *)
Contained == {"none", "names", "sentences"}
Rows == [kind : Contained, of : Tags]

ListingTypeOK ==
  /\ asked \in Asked /\ content \in Contents
  /\ i \in 1..Len(asked)
  /\ step \in {"first", "usual", "hub", "describe", "engines", "done", "raised"}
  /\ rows \in Rows
  /\ \E T \in SUBSET Tags : listed \in [T -> Rows]
  /\ answered \in Seq(Tags)
  /\ hubRows \in {"unasked", "failed", "known"}

Lists == step \in {"first", "usual", "hub"}
InUsual(tag) == UsualOf[tag] \in Tags /\ content[UsualOf[tag]] # "none"
HubHasSome == hubRows = "known" /\ Candidates # {}

(* Every language that is settled has its rows, which are as much as the hub   *)
(* listed in it or in its usual form.                                          *)
Settled ==
  /\ Len(answered) <= Len(asked)
  /\ Lists => Len(answered) = i - 1
  /\ step = "describe" \/ FromManifest => Len(answered) = Len(asked)

Serves(tag, held) ==
  /\ held = "none" => content[tag] = "none"
  /\ held = "names" =>
       /\ content[tag] # "sentences"
       /\ content[tag] = "names" \/ (UsualOf[tag] \in Tags /\ content[UsualOf[tag]] = "names")
Found(held) == failures = {} /\ Candidates # {} => held = "sentences"

AllServed ==
  \A n \in 1..Len(answered) :
    /\ answered[n] \in DOMAIN listed
    /\ Serves(asked[n], listed[answered[n]].kind) /\ Found(listed[answered[n]].kind)

(* Where the rows under a key may be from: a language asked for, its usual     *)
(* form, or, once the hub has said which languages it has, one of those; none  *)
(* are kept only where the usual form has none either.                         *)
AskedBefore(tag) == \E n \in 1..Len(answered) : tag = asked[n]
Offered(row) ==
  \/ AskedBefore(row.of)
  \/ \E n \in 1..Len(answered) : row.of = UsualOf[asked[n]]
  \/ HubHasSome
Bare(row) == row.kind = "none" => AskedBefore(row.of) /\ ~InUsual(row.of)

FromTheHub ==
  \A t \in DOMAIN listed : listed[t].kind = content[listed[t].of] /\ Offered(listed[t]) /\ Bare(listed[t])

(* What a retry would be better than.                                          *)
RowsFit ==
  step \in {"usual", "hub"} =>
    /\ rows.kind = content[rows.of] /\ rows.kind # "sentences"
    /\ content[asked[i]] # "sentences"
    /\ rows.of = asked[i] \/ (rows.of = UsualOf[asked[i]] /\ step = "hub")
    /\ step = "usual" => UsualOf[asked[i]] \in Tags
    /\ rows.kind = "none" => rows.of = asked[i] /\ (step = "hub" => ~InUsual(asked[i]))
    /\ rows.kind = "names" => content[asked[i]] = "names" \/ rows.of = UsualOf[asked[i]]
    /\ step = "hub" => hubRows = "unasked"

FailuresTold == hubRows = "failed" => failures # {}

ListingInv == ListingTypeOK /\ TagsAreTrue /\ Settled /\ AllServed /\ FromTheHub /\ RowsFit /\ FailuresTold

(* Rows of a language or of its usual form; and what may be taken of those, or *)
(* of what the hub has.                                                        *)
Own(row) ==
  /\ row \in Rows /\ row.kind = content[row.of]
  /\ row.of = asked[i] \/ row.of = UsualOf[asked[i]]
  /\ row.kind = "none" => row.of = asked[i] /\ ~InUsual(asked[i])
  /\ Serves(asked[i], row.kind)

Fits(row) ==
  /\ \/ Own(row)
     \/ row.kind = "sentences" /\ row \in Rows /\ row.kind = content[row.of] /\ HubHasSome'
  /\ Found(row.kind)'
  /\ HubHasSome' => row.kind = "sentences"

(* Rows are replaced by the same or by sentences: of two spellings of one      *)
(* language a hub has one, and what it has is what the other's usual form is.  *)
LEMMA NothingIsLost ==
  ASSUME ListingInv, SpeltOnce(content), Lists, NEW row, Fits(row),
         HubHasSome => HubHasSome', NEW t \in DOMAIN listed, SameLanguage(t, row.of)
  PROVE  row.kind = "sentences" \/ row = listed[t]
<1>1. SUFFICES ASSUME row.kind # "sentences"  PROVE row = listed[t]
  OBVIOUS
<1> DEFINE old == listed[t]
<1>2. Own(row) /\ ~HubHasSome  BY <1>1 DEF Fits
<1>3. /\ asked \in Seq(Tags) /\ i \in 1..Len(asked) /\ Len(answered) = i - 1 /\ Len(asked) \in Nat
      /\ asked[i] \in Tags /\ \A n \in 1..Len(answered) : n \in 1..Len(asked) /\ n # i /\ asked[n] \in Tags
  <2>1. asked \in Seq(Tags)  BY ListingShape DEF ListingInv, ListingTypeOK
  <2>2. i \in 1..Len(asked) /\ Len(answered) = i - 1  BY DEF ListingInv, ListingTypeOK, Settled
  <2>3. Len(asked) \in Nat  BY <2>1
  <2> QED  BY <2>1, <2>2, <2>3
<1>4. old \in Rows /\ row \in Rows /\ SameLanguage(old.of, t)
  BY <1>2 DEF ListingInv, ListingTypeOK, TagsAreTrue, Own
<1>5. SameLanguage(old.of, row.of) /\ old.of \in Tags /\ row.of \in Tags
  BY <1>4 DEF SameLanguage, Rows
<1>6. old.kind = content[old.of] /\ Offered(old) /\ Bare(old) /\ row.kind = content[row.of]
  BY <1>2 DEF ListingInv, FromTheHub, Own
<1>7. \A n \in 1..Len(answered) : LanguageOf[asked[n]] # LanguageOf[asked[i]]
  BY <1>3, ListingShape DEF ListingInv, ListingTypeOK
<1>8. \A s, u \in Tags : UsualOf[u] \in Tags /\ SameLanguage(s, UsualOf[u]) => s = UsualOf[u] \/ UsualOf[s] = UsualOf[u]
  BY ListingShape DEF SameLanguage
<1>9. ~(old.of = asked[i] /\ AskedBefore(row.of)) /\ ~(row.of = asked[i] /\ AskedBefore(old.of))
  BY <1>5, <1>7 DEF SameLanguage, AskedBefore
<1>10. old.of = row.of
  <2> SUFFICES ASSUME old.of # row.of  PROVE FALSE
    OBVIOUS
  <2>1. content[old.of] = "none" \/ content[row.of] = "none"  BY <1>5 DEF SpeltOnce
  <2>2. CASE content[row.of] = "none"
    <3>1. row.of = asked[i] /\ ~InUsual(asked[i])  BY <1>2, <1>6, <2>2 DEF Own
    <3>2. ~AskedBefore(old.of)  BY <1>9, <3>1
    <3>3. PICK n \in 1..Len(answered) : old.of = UsualOf[asked[n]]  BY <1>2, <1>6, <3>2 DEF Offered
    <3>4. UsualOf[asked[i]] = old.of
      <4>1. SameLanguage(asked[i], UsualOf[asked[n]]) /\ UsualOf[asked[n]] \in Tags  BY <1>5, <3>1, <3>3 DEF SameLanguage
      <4> QED  BY <1>3, <1>8, <3>1, <3>3, <4>1
    <3>5. content[old.of] = "none"  BY <1>5, <3>1, <3>4 DEF InUsual
    <3> QED  BY <1>6, <3>2, <3>5 DEF Bare
  <2>3. CASE content[row.of] # "none"
    <3>1. AskedBefore(old.of) /\ ~InUsual(old.of)  BY <1>6, <2>1, <2>3 DEF Bare
    <3>2. row.of = UsualOf[asked[i]]  BY <1>2, <1>9, <3>1 DEF Own
    <3>3. UsualOf[old.of] = row.of  BY <1>3, <1>5, <1>8, <3>2
    <3> QED  BY <1>5, <2>3, <3>1, <3>3 DEF InUsual
  <2> QED  BY <2>2, <2>3
<1>11. old.kind = row.kind  BY <1>6, <1>10
<1> QED  BY <1>4, <1>10, <1>11 DEF Rows

(* A language is settled.                                                      *)
LEMMA TakeKeeps ==
  ASSUME ListingInv, SpeltOnce(content), Lists, NEW row, Fits(row), Take(row),
         HubHasSome => HubHasSome', failures \subseteq failures',
         hubRows' \in {"unasked", "failed", "known"}, FailuresTold'
  PROVE  ListingInv'
<1> DEFINE seen == {t \in DOMAIN listed : SameLanguage(t, row.of)}
           key == IF seen = {} THEN row.of ELSE CHOOSE t \in seen : TRUE
<1>1. /\ asked' = asked /\ content' = content /\ source' = source
      /\ listed' = [t \in DOMAIN listed \cup {key} |-> IF t = key THEN row ELSE listed[t]]
      /\ answered' = Append(answered, key)
      /\ IF i < Len(asked) THEN i' = i + 1 /\ step' = "first" /\ rows' = Unlisted(asked[i + 1])
         ELSE step' = "describe" /\ i' = i /\ rows' = rows
  BY DEF Take, Call
<1>2. /\ asked \in Seq(Tags) /\ i \in 1..Len(asked) /\ Len(answered) = i - 1 /\ Len(asked) \in Nat
      /\ answered \in Seq(Tags)
  <2>1. asked \in Seq(Tags)  BY ListingShape DEF ListingInv, ListingTypeOK
  <2>2. i \in 1..Len(asked) /\ Len(answered) = i - 1 /\ answered \in Seq(Tags)
    BY DEF ListingInv, ListingTypeOK, Settled
  <2> QED  BY <2>1, <2>2
<1>3. PICK T \in SUBSET Tags : listed \in [T -> Rows]  BY DEF ListingInv, ListingTypeOK
<1>4. row \in Rows /\ row.kind = content[row.of] /\ row.of \in Tags  BY DEF Fits, Own, Rows
<1>5. SameLanguage(key, row.of) /\ key \in Tags /\ (key \in DOMAIN listed <=> seen # {})
  <2>1. CASE seen = {}
    <3>1. key = row.of  BY <2>1
    <3>2. row.of \notin DOMAIN listed  BY <2>1 DEF SameLanguage
    <3> QED  BY <1>4, <2>1, <3>1, <3>2 DEF SameLanguage
  <2>2. CASE seen # {}
    <3>1. key \in seen  BY <2>2
    <3> QED  BY <1>3, <2>2, <3>1
  <2> QED  BY <2>1, <2>2
<1>6. \A t \in DOMAIN listed : SameLanguage(t, row.of) => t = key
  <2> SUFFICES ASSUME NEW t \in DOMAIN listed, SameLanguage(t, row.of)  PROVE t = key
    OBVIOUS
  <2>1. key \in DOMAIN listed  BY <1>5
  <2>2. SameLanguage(t, key)  BY <1>5 DEF SameLanguage
  <2> QED  BY <2>1, <2>2 DEF ListingInv, TagsAreTrue
<1>7. key \in DOMAIN listed => row.kind = "sentences" \/ row = listed[key]
  BY <1>5, NothingIsLost
<1> HIDE DEF key, seen
<1>8. /\ DOMAIN listed' = DOMAIN listed \cup {key} /\ listed'[key] = row
      /\ \A t \in DOMAIN listed : t # key => listed'[t] = listed[t]
  BY <1>1
<1>9. /\ answered' \in Seq(Tags) /\ Len(answered') = i /\ answered'[i] = key
      /\ \A n \in 1..Len(answered) : answered'[n] = answered[n] /\ n \in 1..Len(answered') /\ n # i
      /\ \A n \in 1..Len(answered') : n \in 1..Len(answered) \/ n = i
      /\ i \in 1..Len(answered')
  <2>1. /\ answered' \in Seq(Tags) /\ Len(answered') = Len(answered) + 1
        /\ answered'[Len(answered) + 1] = key
        /\ \A n \in 1..Len(answered) : answered'[n] = answered[n]
    BY <1>1, <1>2, <1>5, AppendProperties
  <2>2. i = Len(answered) + 1 /\ Len(answered) \in Nat /\ i \in Nat  BY <1>2
  <2> QED  BY <2>1, <2>2
<1>10. Candidates' = Candidates /\ (HubHasSome' => row.kind = "sentences") /\ Found(row.kind)'
  BY <1>1 DEF Candidates, Fits
<1>11. ListingTypeOK'
  <2>1. listed' \in [T \cup {key} -> Rows] /\ T \cup {key} \in SUBSET Tags  BY <1>1, <1>3, <1>4, <1>5
  <2>2. CASE i < Len(asked)
    <3>1. i + 1 \in 1..Len(asked) /\ asked[i + 1] \in Tags  BY <1>2, <2>2
    <3>2. i' = i + 1 /\ step' = "first" /\ rows' = Unlisted(asked[i + 1])  BY <1>1, <2>2
    <3>3. rows' \in Rows  BY <3>1, <3>2 DEF Unlisted, Rows, Contained
    <3> QED  BY <1>1, <1>9, <2>1, <3>1, <3>2, <3>3 DEF ListingInv, ListingTypeOK
  <2>3. CASE ~(i < Len(asked))
    <3>1. step' = "describe" /\ i' = i /\ rows' = rows  BY <1>1, <2>3
    <3> QED  BY <1>1, <1>9, <2>1, <3>1 DEF ListingInv, ListingTypeOK
  <2> QED  BY <2>2, <2>3
<1>12. TagsAreTrue'
  <2>1. ASSUME NEW t \in DOMAIN listed'  PROVE SameLanguage(listed'[t].of, t)
    <3>1. CASE t = key  BY <1>5, <1>8, <3>1 DEF SameLanguage
    <3>2. CASE t # key  BY <1>8, <2>1, <3>2 DEF ListingInv, TagsAreTrue
    <3> QED  BY <3>1, <3>2
  <2>2. ASSUME NEW s \in DOMAIN listed', NEW t \in DOMAIN listed', SameLanguage(s, t)  PROVE s = t
    <3>1. s = key \/ s \in DOMAIN listed  BY <1>8
    <3>2. t = key \/ t \in DOMAIN listed  BY <1>8
    <3>3. \A u \in DOMAIN listed : SameLanguage(u, key) => u = key  BY <1>5, <1>6 DEF SameLanguage
    <3>4. SameLanguage(t, s)  BY <2>2 DEF SameLanguage
    <3> QED  BY <2>2, <3>1, <3>2, <3>3, <3>4 DEF ListingInv, TagsAreTrue
  <2> QED  BY <2>1, <2>2 DEF TagsAreTrue
<1>13. Settled'
  <2>1. Len(answered') = i /\ asked' = asked  BY <1>1, <1>9
  <2>2. CASE i < Len(asked)
    <3>1. i' = i + 1 /\ step' = "first"  BY <1>1, <2>2
    <3> QED  BY <1>2, <2>1, <2>2, <3>1 DEF Settled, Lists, FromManifest
  <2>3. CASE ~(i < Len(asked))
    <3>1. step' = "describe" /\ i = Len(asked)  BY <1>1, <1>2, <2>3
    <3> QED  BY <1>2, <2>1, <3>1 DEF Settled, Lists, FromManifest
  <2> QED  BY <2>2, <2>3
<1>14. AllServed'
  <2> SUFFICES ASSUME NEW n \in 1..Len(answered')
               PROVE  /\ answered'[n] \in DOMAIN listed'
                      /\ Serves(asked[n], listed'[answered'[n]].kind)
                      /\ failures' = {} /\ Candidates # {} => listed'[answered'[n]].kind = "sentences"
    BY <1>1, <1>10 DEF AllServed, Serves, Found
  <2>1. failures' = {} /\ Candidates # {} => row.kind = "sentences"  BY <1>10 DEF Found
  <2>2. CASE n = i
    <3>1. answered'[n] = key /\ listed'[answered'[n]] = row  BY <1>8, <1>9, <2>2
    <3>2. Serves(asked[n], row.kind)  BY <2>2 DEF Fits, Own, Serves
    <3> QED  BY <1>8, <2>1, <3>1, <3>2
  <2>3. CASE n # i
    <3>1. n \in 1..Len(answered) /\ answered'[n] = answered[n]  BY <1>9, <2>3
    <3>2. answered[n] \in DOMAIN listed /\ Serves(asked[n], listed[answered[n]].kind) /\ Found(listed[answered[n]].kind)
      BY <3>1 DEF ListingInv, AllServed
    <3>3. failures' = {} => failures = {}  OBVIOUS
    <3>4. CASE listed'[answered[n]] = listed[answered[n]]
      BY <1>8, <3>1, <3>2, <3>3, <3>4 DEF Found
    <3>5. CASE listed'[answered[n]] # listed[answered[n]]
      <4>1. answered[n] = key  BY <1>8, <3>2, <3>5
      <4>2. listed'[answered[n]] = row /\ row.kind = "sentences"  BY <1>7, <1>8, <3>2, <3>5, <4>1
      <4> QED  BY <1>8, <3>1, <3>2, <4>2 DEF Serves
    <3> QED  BY <3>4, <3>5
  <2> QED  BY <2>2, <2>3
<1>15. FromTheHub'
  <2>1. asked' = asked /\ content' = content  BY <1>1
  <2>2. \A tag : AskedBefore(tag) => AskedBefore(tag)'  BY <1>9, <2>1 DEF AskedBefore
  <2>3. \A tag : InUsual(tag)' <=> InUsual(tag)  BY <2>1 DEF InUsual
  <2>4. \A tag : tag = asked[i] => AskedBefore(tag)'  BY <1>9, <2>1 DEF AskedBefore
  <2>5. \A r : Offered(r) => Offered(r)'  BY <1>9, <2>1, <2>2 DEF Offered
  <2>6. \A r : Bare(r) => Bare(r)'  BY <2>2, <2>3 DEF Bare
  <2>7. Offered(row)'
    <3>1. CASE HubHasSome'  BY <3>1 DEF Offered
    <3>2. CASE ~HubHasSome'
      <4>1. row.of = asked[i] \/ row.of = UsualOf[asked[i]]  BY <3>2 DEF Fits, Own
      <4> QED  BY <1>9, <2>1, <2>4, <4>1 DEF Offered
    <3> QED  BY <3>1, <3>2
  <2>8. Bare(row)'
    <3>1. row.kind = "none" => row.of = asked[i] /\ ~InUsual(asked[i])  BY DEF Fits, Own
    <3> QED  BY <2>3, <2>4, <3>1 DEF Bare
  <2>9. ASSUME NEW t \in DOMAIN listed'
        PROVE  \E r : r = listed'[t] /\ r.kind = content'[r.of] /\ Offered(r)' /\ Bare(r)'
    <3>1. CASE t = key  BY <1>4, <1>8, <2>1, <2>7, <2>8, <3>1
    <3>2. CASE t # key
      <4>1. t \in DOMAIN listed /\ listed'[t] = listed[t]  BY <1>8, <2>9, <3>2
      <4>2. listed[t].kind = content[listed[t].of] /\ Offered(listed[t]) /\ Bare(listed[t])
        BY <4>1 DEF ListingInv, FromTheHub
      <4> QED  BY <2>1, <2>5, <2>6, <4>1, <4>2
    <3> QED  BY <3>1, <3>2
  <2> QED  BY <2>9 DEF FromTheHub
<1>16. RowsFit'  BY <1>1 DEF RowsFit
<1> QED  BY <1>11, <1>12, <1>13, <1>14, <1>15, <1>16 DEF ListingInv

LEMMA NearestHas == \A tag : Nearest(tag) \subseteq Candidates
BY DEF Nearest, Closest

(* What the hub has in some language.                                          *)
LEMMA HubRowsFit ==
  ASSUME ListingInv, NEW t \in Candidates, hubRows' = "known", content' = content
  PROVE  Fits([kind |-> content[t], of |-> t])
<1>1. content[t] = "sentences" /\ t \in Tags /\ HubHasSome'  BY DEF Candidates, HubHasSome
<1> QED  BY <1>1 DEF Fits, Rows, Contained, Found

(* A listing that says no more, or has said all.                               *)
LEMMA QuietKeeps ==
  ASSUME ListingInv, UNCHANGED <<asked, content, i, rows, listed, answered, hubRows>>,
         failures \subseteq failures', step' \in {"engines", "raised", "done"},
         FromManifest' => Len(answered) = Len(asked)
  PROVE  ListingInv'
<1>1. ListingTypeOK' /\ TagsAreTrue'
  BY DEF ListingInv, ListingTypeOK, TagsAreTrue
<1>2. Settled' /\ RowsFit' /\ FailuresTold'
  BY DEF ListingInv, Settled, Lists, RowsFit, FailuresTold
<1>3. Candidates' = Candidates /\ (failures' = {} => failures = {})  BY DEF Candidates
<1>4. AllServed'
  <2>1. \A tag, held : Serves(tag, held) => Serves(tag, held)'  BY DEF Serves
  <2>2. \A held : Found(held) => Found(held)'  BY <1>3 DEF Found
  <2>3. ASSUME NEW n \in 1..Len(answered)
        PROVE  \E tag, held : /\ tag = asked[n] /\ held = listed[answered[n]].kind /\ answered[n] \in DOMAIN listed
                              /\ Serves(tag, held)' /\ Found(held)'
    BY <2>1, <2>2 DEF ListingInv, AllServed
  <2> QED  BY <2>3 DEF AllServed
<1>5. FromTheHub'
  <2>1. \A r : Offered(r) => Offered(r)'  BY <1>3 DEF Offered, AskedBefore, HubHasSome
  <2>2. \A r : Bare(r) => Bare(r)'  BY DEF Bare, AskedBefore, InUsual
  <2>3. ASSUME NEW t \in DOMAIN listed
        PROVE  \E r : r = listed[t] /\ r.kind = content[r.of] /\ Offered(r)' /\ Bare(r)'
    BY <2>1, <2>2 DEF ListingInv, FromTheHub
  <2> QED  BY <2>3 DEF FromTheHub
<1> QED  BY <1>1, <1>2, <1>4, <1>5 DEF ListingInv

(* A retry is made, or the hub is asked for its languages.                     *)
LEMMA WaitsKeeps ==
  ASSUME ListingInv, Lists, NEW request \in {"usual", "hub"}, NEW row \in Rows, Waits(request, row),
         hubRows' = hubRows, failures \subseteq failures',
         row.kind = content[row.of], row.kind # "sentences", content[asked[i]] # "sentences",
         row.of = asked[i] \/ (row.of = UsualOf[asked[i]] /\ request = "hub"),
         request = "usual" => UsualOf[asked[i]] \in Tags,
         row.kind = "none" => row.of = asked[i] /\ (request = "hub" => ~InUsual(asked[i])),
         row.kind = "names" => content[asked[i]] = "names" \/ row.of = UsualOf[asked[i]],
         request = "hub" => hubRows = "unasked"
  PROVE  ListingInv'
<1>0. UNCHANGED <<asked, content, i, listed, answered, source>> /\ step' = request /\ rows' = row
  BY DEF Waits, Call
<1>1. ListingTypeOK' /\ TagsAreTrue'
  BY <1>0 DEF ListingInv, ListingTypeOK, TagsAreTrue
<1>2. Settled' /\ FailuresTold'
  BY <1>0 DEF ListingInv, Settled, Lists, FailuresTold, FromManifest
<1>3. Candidates' = Candidates /\ (failures' = {} => failures = {})  BY <1>0 DEF Candidates
<1>4. AllServed'
  <2>1. \A tag, held : Serves(tag, held) => Serves(tag, held)'  BY <1>0 DEF Serves
  <2>2. \A held : Found(held) => Found(held)'  BY <1>3 DEF Found
  <2>3. ASSUME NEW n \in 1..Len(answered)
        PROVE  \E tag, held : /\ tag = asked[n] /\ held = listed[answered[n]].kind /\ answered[n] \in DOMAIN listed
                              /\ Serves(tag, held)' /\ Found(held)'
    BY <2>1, <2>2 DEF ListingInv, AllServed
  <2> QED  BY <1>0, <2>3 DEF AllServed
<1>5. FromTheHub'
  <2>1. \A r : Offered(r) => Offered(r)'  BY <1>0, <1>3 DEF Offered, AskedBefore, HubHasSome
  <2>2. \A r : Bare(r) => Bare(r)'  BY <1>0 DEF Bare, AskedBefore, InUsual
  <2>3. ASSUME NEW t \in DOMAIN listed
        PROVE  \E r : r = listed[t] /\ r.kind = content[r.of] /\ Offered(r)' /\ Bare(r)'
    BY <2>1, <2>2 DEF ListingInv, FromTheHub
  <2> QED  BY <1>0, <2>3 DEF FromTheHub
<1>6. RowsFit'
  <2>1. InUsual(asked[i])' = InUsual(asked[i])  BY <1>0 DEF InUsual
  <2> QED  BY <1>0, <2>1 DEF RowsFit, InUsual
<1> QED  BY <1>1, <1>2, <1>4, <1>5, <1>6 DEF ListingInv

(* What follows a listing that may not carry a sentence.                       *)
LEMMA AfterRetryKeeps ==
  ASSUME ListingInv, SpeltOnce(content), step \in {"first", "usual"}, NEW row, Own(row), AfterRetry(row),
         hubRows' = hubRows, failures \subseteq failures'
  PROVE  ListingInv'
<1>1. Lists /\ content' = content /\ hubRows \in {"unasked", "failed", "known"} /\ row \in Rows
  <2>1. content' = content  BY DEF AfterRetry, Take, Waits, Call
  <2> QED  BY <2>1 DEF Lists, ListingInv, ListingTypeOK, Own
<1>2. FailuresTold' /\ Candidates' = Candidates  BY <1>1 DEF ListingInv, FailuresTold, Candidates
<1>3. HubHasSome' = HubHasSome  BY <1>2 DEF HubHasSome
<1>4. CASE CanCarrySentences(row) \/ (hubRows = "known" /\ Candidates = {}) \/ hubRows = "failed"
  <2>1. Take(row)  BY <1>4 DEF AfterRetry
  <2>2. Fits(row)
    <3>1. Found(row.kind)'
      BY <1>2, <1>4 DEF Found, FailuresTold, CanCarrySentences
    <3>2. HubHasSome' => row.kind = "sentences"  BY <1>3, <1>4 DEF HubHasSome, CanCarrySentences
    <3> QED  BY <3>1, <3>2 DEF Fits
  <2> QED  BY <1>1, <1>2, <1>3, <2>1, <2>2, TakeKeeps
<1>5. CASE ~(CanCarrySentences(row) \/ (hubRows = "known" /\ Candidates = {}) \/ hubRows = "failed") /\ hubRows = "known"
  <2>1. PICK t \in Nearest(asked[i]) : Take([kind |-> content[t], of |-> t])  BY <1>5 DEF AfterRetry
  <2>2. t \in Candidates  BY NearestHas
  <2>3. Fits([kind |-> content[t], of |-> t])  BY <1>1, <1>5, <2>2, HubRowsFit
  <2> QED  BY <1>1, <1>2, <1>3, <2>1, <2>3, TakeKeeps
<1>6. CASE ~(CanCarrySentences(row) \/ (hubRows = "known" /\ Candidates = {}) \/ hubRows = "failed") /\ hubRows # "known"
  <2>1. Waits("hub", row) /\ hubRows = "unasked" /\ row.kind # "sentences"
    BY <1>1, <1>6 DEF AfterRetry, CanCarrySentences
  <2>2. content[asked[i]] # "sentences" /\ (row.kind = "names" => content[asked[i]] = "names" \/ row.of = UsualOf[asked[i]])
    BY <1>1, <2>1 DEF Own, Serves, Rows, Contained
  <2> QED  BY <1>1, <2>1, <2>2, WaitsKeeps DEF Own
<1> QED  BY <1>4, <1>5, <1>6

(* A request fails before anything else can be said.                           *)
LEMMA FirstFailsKeeps ==
  ASSUME ListingInv, NEW how, FirstFails(how)  PROVE ListingInv'
<1>1. UNCHANGED <<asked, content, i, rows, listed, answered, hubRows>> /\ step' \in {"engines", "raised"}
  BY DEF FirstFails, Raises, ToEngines, Call
<1>2. failures \subseteq failures'  BY DEF FirstFails, Fails
<1> QED  BY <1>1, <1>2, QuietKeeps DEF FromManifest

LEMMA ListingStarts ==
  ASSUME ListingInit  PROVE ListingInv
<1>1. asked \in Seq(Tags) \ {<<>>} /\ content \in [Tags -> Contained]
  BY ListingShape DEF ListingInit, Contained
<1>2. Len(asked) \in Nat /\ Len(asked) # 0 /\ asked[1] \in Tags  BY <1>1
<1>3. listed \in [{} -> Rows] /\ DOMAIN listed = {}  BY DEF ListingInit
<1>4. answered \in Seq(Tags) /\ Len(answered) = 0  BY DEF ListingInit
<1>5. ListingTypeOK
  <2>1. Unlisted(asked[1]) \in Rows  BY <1>2 DEF Unlisted, Rows, Contained
  <2>2. 1 \in 1..Len(asked)  BY <1>2
  <2> QED  BY <1>3, <1>4, <2>1, <2>2 DEF ListingInit, ListingTypeOK
<1>6. TagsAreTrue /\ AllServed /\ FromTheHub  BY <1>3, <1>4 DEF TagsAreTrue, AllServed, FromTheHub
<1>7. Settled /\ RowsFit /\ FailuresTold
  BY <1>2, <1>4 DEF ListingInit, Settled, RowsFit, FailuresTold, Lists, FromManifest
<1> QED  BY <1>5, <1>6, <1>7 DEF ListingInv

LEMMA FirstKeeps ==
  ASSUME ListingInv, SpeltOnce(content), First  PROVE ListingInv'
<1>1. step = "first" /\ Lists  BY DEF First, Lists
<1>2. /\ asked[i] \in Tags /\ content \in [Tags -> Contained]
      /\ UsualOf[asked[i]] \in Tags \cup {NoTag}
  <2>1. asked \in Seq(Tags) /\ i \in 1..Len(asked) /\ content \in [Tags -> Contained]
    BY ListingShape DEF ListingInv, ListingTypeOK, Contained
  <2> QED  BY <2>1, ListingShape
<1>3. CASE \E how \in {"timeout", "denied", "refused"} : FirstFails(how)
  BY <1>3, FirstFailsKeeps
<1> DEFINE row == [kind |-> content[asked[i]], of |-> asked[i]]
<1>4. CASE /\ Answered /\ UNCHANGED hubRows
           /\ IF CanCarrySentences(row) THEN Take(row)
              ELSE IF UsualOf[asked[i]] # NoTag THEN Waits("usual", row) ELSE AfterRetry(row)
  <2>1. failures' = failures /\ hubRows' = hubRows  BY <1>4 DEF Answered
  <2>2. row \in Rows /\ row.kind = content[row.of] /\ row.of = asked[i]  BY <1>2 DEF Rows
  <2>3. CASE CanCarrySentences(row) \/ UsualOf[asked[i]] = NoTag
    <3>1. Own(row)
      <4>1. row.kind = "none" => ~InUsual(asked[i])  BY <2>3, ListingShape DEF CanCarrySentences, InUsual
      <4> QED  BY <2>2, <4>1 DEF Own, Serves
    <3>2. AfterRetry(row)  BY <1>4, <2>3 DEF AfterRetry
    <3> HIDE DEF row
    <3> QED  BY <1>1, <2>1, <3>1, <3>2, AfterRetryKeeps
  <2>4. CASE ~CanCarrySentences(row) /\ UsualOf[asked[i]] # NoTag
    <3>1. Waits("usual", row) /\ UsualOf[asked[i]] \in Tags  BY <1>2, <1>4, <2>4
    <3>2. row.kind # "sentences" /\ row.kind = content[asked[i]]  BY <2>4 DEF CanCarrySentences
    <3> HIDE DEF row
    <3> QED  BY <1>1, <2>1, <2>2, <3>1, <3>2, WaitsKeeps
  <2> QED  BY <2>3, <2>4
<1> QED  BY <1>1, <1>3, <1>4 DEF First

LEMMA RetriedKeeps ==
  ASSUME ListingInv, SpeltOnce(content), Retried  PROVE ListingInv'
<1>1. step = "usual" /\ hubRows' = hubRows  BY DEF Retried
<1>2. /\ asked[i] \in Tags /\ content \in [Tags -> Contained] /\ UsualOf[asked[i]] \in Tags /\ rows \in Rows
      /\ rows.kind = content[rows.of] /\ rows.of = asked[i] /\ rows.kind # "sentences"
  <2>1. asked \in Seq(Tags) /\ i \in 1..Len(asked) /\ content \in [Tags -> Contained] /\ rows \in Rows
    BY ListingShape DEF ListingInv, ListingTypeOK, Contained
  <2> QED  BY <1>1, <2>1 DEF ListingInv, RowsFit
<1>3. CASE \E how \in {"timeout", "denied", "refused"} :
             IF rows.kind = "none" THEN FirstFails(how) ELSE Fails("usual", how) /\ AfterRetry(rows)
  <2>1. PICK how \in {"timeout", "denied", "refused"} :
          IF rows.kind = "none" THEN FirstFails(how) ELSE Fails("usual", how) /\ AfterRetry(rows)
    BY <1>3
  <2>2. CASE rows.kind = "none"  BY <2>1, <2>2, FirstFailsKeeps
  <2>3. CASE rows.kind # "none"
    <3>1. failures \subseteq failures' /\ AfterRetry(rows)  BY <2>1, <2>3 DEF Fails
    <3>2. Own(rows)  BY <1>2, <2>3 DEF Own, Serves
    <3> QED  BY <1>1, <3>1, <3>2, AfterRetryKeeps
  <2> QED  BY <2>2, <2>3
<1> DEFINE u == UsualOf[asked[i]]
           retried == [kind |-> content[u], of |-> u]
<1>4. CASE Answered /\ AfterRetry(BetterOf(retried))
  <2>1. failures' = failures  BY <1>4 DEF Answered
  <2>2. retried \in Rows /\ retried.kind = content[retried.of] /\ retried.of = u  BY <1>2 DEF Rows
  <2>3. Own(BetterOf(retried))
    <3>1. CASE CanCarrySentences(retried) \/ (retried.kind # "none" /\ rows.kind = "none")
      <4>1. BetterOf(retried) = retried /\ retried.kind # "none"  BY <3>1 DEF BetterOf, CanCarrySentences
      <4>2. Serves(asked[i], retried.kind)  BY <1>2, <2>2, <3>1 DEF Serves, CanCarrySentences
      <4> HIDE DEF retried
      <4> QED  BY <2>2, <4>1, <4>2 DEF Own
    <3>2. CASE ~(CanCarrySentences(retried) \/ (retried.kind # "none" /\ rows.kind = "none"))
      <4>1. BetterOf(retried) = rows  BY <3>2 DEF BetterOf
      <4>2. rows.kind = "none" => ~InUsual(asked[i])  BY <3>2 DEF InUsual
      <4>3. Serves(asked[i], rows.kind)  BY <1>2 DEF Serves
      <4> QED  BY <1>2, <4>1, <4>2, <4>3 DEF Own
    <3> QED  BY <3>1, <3>2
  <2> HIDE DEF retried
  <2> QED  BY <1>1, <1>4, <2>1, <2>3, AfterRetryKeeps
<1> QED  BY <1>3, <1>4 DEF Retried

LEMMA HubAnswersKeeps ==
  ASSUME ListingInv, SpeltOnce(content), HubAnswers  PROVE ListingInv'
<1>1. step = "hub" /\ Lists  BY DEF HubAnswers, Lists
<1>2. /\ rows \in Rows /\ rows.kind = content[rows.of] /\ rows.kind # "sentences" /\ hubRows = "unasked"
      /\ rows.of = asked[i] \/ rows.of = UsualOf[asked[i]]
      /\ content[asked[i]] # "sentences"
      /\ rows.kind = "none" => rows.of = asked[i] /\ ~InUsual(asked[i])
      /\ rows.kind = "names" => content[asked[i]] = "names" \/ rows.of = UsualOf[asked[i]]
  BY <1>1 DEF ListingInv, ListingTypeOK, RowsFit
<1>3. Own(rows)
  <2>1. rows.of \in Tags  BY <1>2 DEF Rows
  <2>2. Serves(asked[i], rows.kind)  BY <1>2, <2>1 DEF Serves
  <2> QED  BY <1>2, <2>2 DEF Own
<1>4. content' = content /\ Candidates' = Candidates  BY DEF HubAnswers, Take, Call, Candidates
<1>5. ~HubHasSome  BY <1>2 DEF HubHasSome
<1>6. CASE /\ Answered /\ hubRows' = "known"
           /\ IF Candidates = {} THEN Take(rows)
              ELSE \E t \in Nearest(asked[i]) : Take([kind |-> content[t], of |-> t])
  <2>1. failures' = failures /\ FailuresTold'  BY <1>6 DEF Answered, FailuresTold
  <2>2. CASE Candidates = {}
    <3>1. Fits(rows)  BY <1>3, <1>4, <2>2 DEF Fits, Found, HubHasSome
    <3> QED  BY <1>1, <1>5, <1>6, <2>1, <2>2, <3>1, TakeKeeps
  <2>3. CASE Candidates # {}
    <3>1. PICK t \in Nearest(asked[i]) : Take([kind |-> content[t], of |-> t])  BY <1>6, <2>3
    <3>2. t \in Candidates  BY NearestHas
    <3>3. Fits([kind |-> content[t], of |-> t])  BY <1>4, <1>6, <3>2, HubRowsFit
    <3> QED  BY <1>1, <1>5, <1>6, <2>1, <3>1, <3>3, TakeKeeps
  <2> QED  BY <2>2, <2>3
<1>7. CASE \E how \in {"timeout", "denied", "refused"} : Fails("hub", how) /\ hubRows' = "failed" /\ Take(rows)
  <2>1. hubRows' = "failed" /\ Take(rows) /\ failures \subseteq failures' /\ failures' # {}  BY <1>7 DEF Fails
  <2>2. FailuresTold' /\ ~HubHasSome'  BY <2>1 DEF FailuresTold, HubHasSome
  <2>3. Fits(rows)  BY <1>3, <2>1, <2>2 DEF Fits, Found
  <2> QED  BY <1>1, <1>5, <2>1, <2>2, <2>3, TakeKeeps
<1> QED  BY <1>6, <1>7 DEF HubAnswers

LEMMA EnginesAndDescribe ==
  ASSUME ListingInv, Engines \/ Describe  PROVE ListingInv'
<1>1. UNCHANGED <<asked, content, i, rows, listed, answered, hubRows>> /\ failures \subseteq failures'
  BY DEF Engines, Describe, Rest, Call, Answered, Fails
<1>2. CASE Engines
  <2>1. step' \in {"done", "raised"} /\ ~FromManifest'  BY <1>2 DEF Engines, FromManifest
  <2> QED  BY <1>1, <2>1, QuietKeeps
<1>3. CASE Describe
  <2>1. step = "describe" /\ step' \in {"done", "raised"}  BY <1>3 DEF Describe
  <2>2. Len(answered) = Len(asked)  BY <2>1 DEF ListingInv, Settled
  <2> QED  BY <1>1, <2>1, <2>2, QuietKeeps
<1> QED  BY <1>2, <1>3

(* The invariant says what a person is shown.                                  *)
LEMMA TrueOfListing ==
  ASSUME ListingInv  PROVE ListingIsTrue
<1>1. Rank("none") = 1 /\ Rank("names") = 2 /\ Rank("sentences") = 3
  BY DEF Rank, Kinds
<1>2. SUFFICES ASSUME FromManifest  PROVE NeverLess /\ SentencesAreFound
  BY DEF ListingInv, ListingIsTrue
<1>3. Len(answered) = Len(asked) /\ asked \in Seq(Tags) /\ content \in [Tags -> Contained]
  BY <1>2, ListingShape DEF ListingInv, Settled, ListingTypeOK, Contained
<1>4. ASSUME NEW n \in 1..Len(asked)
      PROVE  /\ Rank(listed[answered[n]].kind) >= Rank(content[asked[n]])
             /\ listed[answered[n]].kind = "names" => content[asked[n]] = "names" \/ content[UsualOf[asked[n]]] = "names"
             /\ Found(listed[answered[n]].kind)
  <2>1. Serves(asked[n], listed[answered[n]].kind) /\ Found(listed[answered[n]].kind) /\ answered[n] \in DOMAIN listed
    BY <1>3 DEF ListingInv, AllServed
  <2>2. listed[answered[n]].kind \in Contained  BY <2>1 DEF ListingInv, ListingTypeOK, Rows
  <2>3. content[asked[n]] \in Contained  BY <1>3
  <2> QED  BY <1>1, <2>1, <2>2, <2>3 DEF Serves, Contained
<1> QED  BY <1>4 DEF NeverLess, SentencesAreFound, Found

(* Whatever is listed, denied, refused or late, for any tags and calls: rows   *)
(* are of the language they are shown under, nothing a hub listed is exchanged *)
(* for less, and sentences are found where there are any (intents.py 941-1195),*)
(* of a hub that spells each language in one way.                              *)
THEOREM ListingsAreTrue ==
  ASSUME \A c \in Contents : SpeltOnce(c)
  PROVE  ListingSpec => []ListingIsTrue
<1>1. ListingInit => ListingInv  BY ListingStarts
<1>2. ListingInv /\ [ListingNext]_listingVars => ListingInv'
  <2> SUFFICES ASSUME ListingInv, [ListingNext]_listingVars  PROVE ListingInv'
    OBVIOUS
  <2>1. SpeltOnce(content)  BY DEF ListingInv, ListingTypeOK
  <2>2. CASE First  BY <2>1, <2>2, FirstKeeps
  <2>3. CASE Retried  BY <2>1, <2>3, RetriedKeeps
  <2>4. CASE HubAnswers  BY <2>1, <2>4, HubAnswersKeeps
  <2>5. CASE Engines \/ Describe  BY <2>5, EnginesAndDescribe
  <2>6. CASE UNCHANGED listingVars
    BY <2>6 DEF listingVars, ListingInv, ListingTypeOK, TagsAreTrue, Settled, AllServed, FromTheHub, RowsFit, FailuresTold,
       Lists, FromManifest, Serves, Found, Offered, AskedBefore, Bare, HubHasSome, Candidates, InUsual
  <2> QED  BY <2>2, <2>3, <2>4, <2>5, <2>6 DEF ListingNext
<1>3. ListingInv => ListingIsTrue  BY TrueOfListing
<1> QED  BY <1>1, <1>2, <1>3, PTL DEF ListingSpec

-----------------------------------------------------------------------------
(* What the answer to a query holds, for any registrations and windows.        *)

(* What was said of registrations, by one name or another.                     *)
Says(f) == \E K \in SUBSET DOMAIN Knows : f = [k \in K |-> Knows[k]]

(* What was heard and says something is in this window or in those before it.  *)
HeardIsHeld ==
  \A k \in DOMAIN heard : Knows[k] = "defs" => k \in DOMAIN foundNow \cup DOMAIN batched

Silent == QueryOver \/ waitStep \in {"connect", "denials"}
SilentIsDeaf == Silent => listening = {}

(* A single query is one window, and has no answer before that ends.           *)
OneWindow ==
  query.single =>
    /\ first = 1
    /\ IF waitStep = "answered" THEN DOMAIN batched = {query.wanted[1]} ELSE batched = <<>>

TimeoutIsSilence == waitStep = "timeout" /\ ~query.single => ~Defines(heard)

QueryInv ==
  /\ query \in Queries /\ Says(heard) /\ Says(foundNow) /\ Says(batched)
  /\ HeardIsHeld /\ SilentIsDeaf /\ OneWindow /\ TimeoutIsSilence
  /\ waitStep = "answered" => foundNow = <<>>

LEMMA SaysMore ==
  ASSUME Says(batched), NEW f, Says(f)
  PROVE  Says(Merged(f)) /\ DOMAIN Merged(f) = DOMAIN f \cup DOMAIN batched
<1>1. PICK K \in SUBSET DOMAIN Knows : f = [k \in K |-> Knows[k]]  BY DEF Says
<1>2. PICK L \in SUBSET DOMAIN Knows : batched = [k \in L |-> Knows[k]]  BY DEF Says
<1>3. Merged(f) = [k \in K \cup L |-> Knows[k]]  BY <1>1, <1>2 DEF Merged
<1> QED  BY <1>1, <1>2, <1>3 DEF Says

LEMMA SaysNothing == Says(<<>>) /\ DOMAIN <<>> = {}
<1>1. <<>> = [k \in {} |-> Knows[k]]  OBVIOUS
<1> QED  BY <1>1 DEF Says

LEMMA SaysOneMore ==
  ASSUME NEW f, Says(f), NEW k \in DOMAIN Knows
  PROVE  Says(Noted(f, k)) /\ DOMAIN Noted(f, k) = DOMAIN f \cup {k}
<1>1. PICK K \in SUBSET DOMAIN Knows : f = [n \in K |-> Knows[n]]  BY DEF Says
<1>2. Noted(f, k) = [n \in K \cup {k} |-> Knows[n]]  BY <1>1 DEF Noted
<1> QED  BY <1>1, <1>2 DEF Says

LEMMA WantedAre ==
  ASSUME query \in Queries
  PROVE  /\ query.wanted \in Seq(DOMAIN Knows) /\ Len(query.wanted) \in Nat \ {0}
         /\ query.single => Len(query.wanted) = 1
<1>1. query.wanted \in Seq(DOMAIN Knows) /\ query.wanted # <<>> /\ (query.single => Len(query.wanted) = 1)
  BY QueryShape
<1> QED  BY <1>1

(* A step that changes what is waited for, or what is listened for.            *)
LEMMA WaitingKeeps ==
  ASSUME QueryInv, UNCHANGED <<query, first, heard, foundNow, batched>>,
         ~QueryOver, waitStep' # "answered",
         Silent' => listening' = {},
         waitStep' = "timeout" /\ ~query.single => NothingHeard
  PROVE  QueryInv'
<1>1. HeardIsHeld' /\ SilentIsDeaf'  BY DEF QueryInv, HeardIsHeld, SilentIsDeaf
<1>2. OneWindow'  BY DEF QueryInv, OneWindow, QueryOver
<1>3. TimeoutIsSilence'
  <2> SUFFICES ASSUME waitStep' = "timeout", ~query.single  PROVE ~Defines(heard)
    BY DEF TimeoutIsSilence, Defines
  <2>1. NothingHeard  OBVIOUS
  <2>2. \A f : Says(f) => \A k \in DOMAIN f : f[k] = Knows[k]  BY DEF Says
  <2> QED  BY <2>1, <2>2 DEF NothingHeard, Defines, QueryInv, HeardIsHeld
<1> QED  BY <1>1, <1>2, <1>3 DEF QueryInv, Says

(* A window ends, with all its answers or with none that says anything.        *)
LEMMA WindowEndsKeeps ==
  ASSUME QueryInv, ~QueryOver, NEW answers, WindowEnds(answers),
         Says(answers), \A k \in DOMAIN foundNow : Knows[k] = "defs" => k \in DOMAIN answers,
         query.single => answers = foundNow /\ AllFound
  PROVE  QueryInv'
<1>1. /\ query' = query /\ heard' = heard /\ foundNow' = <<>> /\ listening' = {}
      /\ batched' = Merged(answers)
      /\ IF LatestOf = Len(query.wanted) THEN waitStep' = "answered" /\ first' = first
         ELSE waitStep' = "connect"
  BY DEF WindowEnds, Steps
<1>2. Says(batched') /\ DOMAIN batched' = DOMAIN answers \cup DOMAIN batched
  BY <1>1, SaysMore DEF QueryInv
<1>3. HeardIsHeld'  BY <1>1, <1>2 DEF QueryInv, HeardIsHeld
<1>4. SilentIsDeaf' /\ TimeoutIsSilence'  BY <1>1 DEF SilentIsDeaf, TimeoutIsSilence
<1>5. OneWindow'
  <2> SUFFICES ASSUME query.single
               PROVE  first' = 1 /\ waitStep' = "answered" /\ DOMAIN batched' = {query.wanted[1]}
    BY <1>1 DEF OneWindow
  <2>1. first = 1 /\ batched = <<>> /\ Len(query.wanted) = 1
    BY WantedAre DEF QueryInv, OneWindow, QueryOver
  <2>2. LatestOf = Len(query.wanted)  BY DEF LatestOf
  <2>3. QueryWindow = [n \in 1..1 |-> query.wanted[n]]  BY <2>1, <2>2 DEF QueryWindow
  <2>4. DOMAIN answers = {query.wanted[1]}
    <3>1. QueryWindow[1] = query.wanted[1] /\ Len(QueryWindow) = 1  BY <2>3
    <3> QED  BY <3>1 DEF AllFound
  <2> QED  BY <1>1, <1>2, <2>1, <2>2, <2>4, SaysNothing
<1> QED  BY <1>1, <1>2, <1>3, <1>4, <1>5, SaysNothing DEF QueryInv

LEMMA RepliedKeeps ==
  ASSUME QueryInv, NEW k \in DOMAIN Knows, QueryReplied(k)  PROVE QueryInv'
<1>1. /\ UNCHANGED <<query, waitStep, first, batched, listening>> /\ "replies" \in listening
      /\ \/ foundNow' = Noted(foundNow, k) /\ heard' = Noted(heard, k)
         \/ foundNow' = foundNow /\ heard' = heard
  BY DEF QueryReplied
<1>2. ~QueryOver  BY <1>1 DEF QueryInv, SilentIsDeaf, Silent
<1>3. CASE foundNow' = foundNow /\ heard' = heard
  BY <1>1, <1>2, <1>3, WaitingKeeps DEF QueryInv, SilentIsDeaf, Silent, QueryOver
<1>4. CASE foundNow' = Noted(foundNow, k) /\ heard' = Noted(heard, k)
  <2>1. /\ Says(foundNow') /\ DOMAIN foundNow' = DOMAIN foundNow \cup {k}
        /\ Says(heard') /\ DOMAIN heard' = DOMAIN heard \cup {k}
    BY <1>4, SaysOneMore DEF QueryInv
  <2>2. HeardIsHeld'  BY <1>1, <2>1 DEF QueryInv, HeardIsHeld
  <2>3. SilentIsDeaf' /\ OneWindow' /\ TimeoutIsSilence' /\ waitStep' # "answered"
    BY <1>1, <1>2 DEF QueryInv, SilentIsDeaf, OneWindow, TimeoutIsSilence, Silent, QueryOver
  <2> QED  BY <1>1, <2>1, <2>2, <2>3 DEF QueryInv, Says
<1> QED  BY <1>1, <1>3, <1>4

LEMMA LoopsKeeps == ASSUME QueryInv, WaitLoops \/ WaitWakes  PROVE QueryInv'
<1>1. waitStep \in {"check", "wait"} /\ ~QueryOver  BY DEF WaitLoops, WaitWakes, QueryOver
<1>2. Says(foundNow) /\ Says(<<>>)  BY SaysNothing DEF QueryInv
<1>3. CASE \E how \in {"denied", "timeout"} : QueryRaises(how) /\ (how = "timeout" => query.single \/ NothingHeard)
  <2>1. /\ UNCHANGED <<query, first, heard, foundNow, batched>> /\ listening' = {} /\ waitStep' \in {"denied", "timeout"}
        /\ waitStep' = "timeout" => query.single \/ NothingHeard
    BY <1>3 DEF QueryRaises, Steps, Keeps
  <2> QED  BY <1>1, <2>1, WaitingKeeps
<1>4. CASE AllFound /\ WindowEnds(foundNow)  BY <1>1, <1>2, <1>4, WindowEndsKeeps
<1>5. CASE overdue /\ ~query.single /\ WindowEnds(IF Defines(foundNow) THEN foundNow ELSE <<>>)
  <2> DEFINE answers == IF Defines(foundNow) THEN foundNow ELSE <<>>
  <2>1. Says(answers)  BY <1>2
  <2>2. \A k \in DOMAIN foundNow : Knows[k] = "defs" => k \in DOMAIN answers
    <3>1. \A k \in DOMAIN foundNow : foundNow[k] = Knows[k]  BY <1>2 DEF Says
    <3> QED  BY <3>1 DEF Defines
  <2> HIDE DEF answers
  <2>3. WindowEnds(answers)  BY <1>5 DEF answers
  <2> QED  BY <1>1, <1>5, <2>1, <2>2, <2>3, WindowEndsKeeps
<1>6. CASE waitStep' \in {"wait", "check"} /\ UNCHANGED <<query, first, heard, foundNow, batched>>
  BY <1>1, <1>6, WaitingKeeps DEF Silent, QueryOver
<1> QED  BY <1>3, <1>4, <1>5, <1>6 DEF WaitLoops, WaitWakes, Keeps, Steps

(* The steps to the hub: connecting, listening, sending, and what comes back.  *)
LEMMA AskingKeeps ==
  ASSUME QueryInv,
         QueryConnects \/ ListensForDenials \/ ListensForReplies \/ EmitsQuery \/ QueryDenied \/ DeadlinePasses
  PROVE  QueryInv'
<1>1. UNCHANGED <<query, first, heard, foundNow, batched>> /\ ~QueryOver
  BY DEF QueryConnects, ListensForDenials, ListensForReplies, EmitsQuery, QueryDenied, DeadlinePasses, Keeps, QueryOver
<1>2. waitStep' # "answered" /\ (waitStep' = "timeout" => query.single)
  BY <1>1 DEF QueryConnects, ListensForDenials, ListensForReplies, EmitsQuery, QueryDenied, DeadlinePasses, Keeps, Steps,
     QueryOver
<1>3. Silent' => listening' = {}
  BY <1>1 DEF QueryConnects, ListensForDenials, ListensForReplies, EmitsQuery, QueryDenied, DeadlinePasses, Keeps, Steps,
     QueryOver, QueryInv, SilentIsDeaf, Silent
<1> QED  BY <1>1, <1>2, <1>3, WaitingKeeps

LEMMA QueryBegins == QueryInit => QueryInv
BY SaysNothing DEF QueryInit, QueryInv, HeardIsHeld, SilentIsDeaf, Silent, OneWindow, TimeoutIsSilence, QueryOver

LEMMA KeptByInvariant == QueryInv => AnswersAreKept
<1> SUFFICES ASSUME QueryInv  PROVE AnswersAreKept
  OBVIOUS
<1>1. \A f : Says(f) => \A k \in DOMAIN f : f[k] = Knows[k]  BY DEF Says
<1>2. waitStep = "answered" => \A k \in DOMAIN heard : heard[k] = "defs" => k \in DOMAIN batched
  BY <1>1, SaysNothing DEF QueryInv, HeardIsHeld
<1>3. waitStep = "answered" => \A k \in DOMAIN batched : batched[k] = Knows[k]
  BY <1>1 DEF QueryInv
<1>4. waitStep = "timeout" /\ ~query.single => ~Defines(heard)  BY DEF QueryInv, TimeoutIsSilence
<1>5. waitStep = "answered" /\ query.single => DOMAIN batched = {query.wanted[1]}  BY DEF QueryInv, OneWindow
<1> QED  BY <1>2, <1>3, <1>4, <1>5 DEF AnswersAreKept

(* For any registrations, windows and hubs, in whatever order answers come,    *)
(* with or without an id, twice or late: what was heard while it was listened  *)
(* for is in the answer, and only silence is told as silence (intents.py       *)
(* 486-592, 697-795).                                                          *)
THEOREM QueriesKeepAnswers == QuerySpec => []AnswersAreKept
<1>1. QueryInv /\ [QueryNext]_queryVars => QueryInv'
  <2> SUFFICES ASSUME QueryInv, [QueryNext]_queryVars  PROVE QueryInv'
    OBVIOUS
  <2>1. CASE QueryConnects \/ ListensForDenials \/ ListensForReplies \/ EmitsQuery \/ QueryDenied \/ DeadlinePasses
    BY <2>1, AskingKeeps
  <2>2. CASE WaitLoops \/ WaitWakes  BY <2>2, LoopsKeeps
  <2>3. CASE \E k \in DOMAIN Knows : QueryReplied(k)  BY <2>3, RepliedKeeps
  <2>4. CASE UNCHANGED queryVars
    BY <2>4 DEF queryVars, QueryInv, Says, HeardIsHeld, SilentIsDeaf, Silent, OneWindow, TimeoutIsSilence, QueryOver, Defines
  <2> QED  BY <2>1, <2>2, <2>3, <2>4 DEF QueryNext
<1> QED  BY <1>1, QueryBegins, KeptByInvariant, PTL DEF QuerySpec
=============================================================================
