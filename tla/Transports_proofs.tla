----------------------------- MODULE Transports_proofs ---------------------------
(* The three transports, for any number of attempts, callers, carriers, clients *)
(* and frames.                                                                 *)
EXTENDS MCTransports, SequenceTheorems, TLAPS

-----------------------------------------------------------------------------
(* HiveTransport: the numbers and phases of its attempts.                      *)
Early(a) == attempt[a] \in {"none", "starting", "closingOld"}
Going(a) == attempt[a] \in {"starting", "closingOld", "opening", "handshaking"}

LEMMA AttemptBound == MaxAttempts \in Nat
BY TransportAssumption

(* Where a connect() and a disconnect call can be.                             *)
ConnAt == [at : {"idle", "first", "second"}, of : Maybe]
DiscAt == [at : {"new", "reading", "closing", "over"}, of : Maybe, reader : Maybe, retry : BOOLEAN]

(* What TypeOK says, one variable at a time.                                   *)
FlagTypes ==
  connecting \in BOOLEAN /\ closing \in BOOLEAN /\ transportConnected \in BOOLEAN /\ stopped \in BOOLEAN /\ kkFailed \in BOOLEAN
NumberTypes ==
  made \in 0..MaxAttempts /\ current \in Maybe /\ carrier \in Maybe /\ failedCleanup \in Maybe /\ reader \in Maybe
AttemptTypes ==
  /\ attempt \in [Attempts -> AttemptStates] /\ old \in [Attempts -> Maybe]
  /\ result \in [Attempts -> {"none", "ok", "refused", "failed"}]
  /\ cleanup \in [Attempts -> {"none", "running", "ok", "failed"}]
SetTypes ==
  /\ cancelled \subseteq Attempts /\ readers \subseteq Attempts /\ broken \subseteq Attempts /\ held \subseteq Attempts
  /\ ending \subseteq readers
  /\ overtaken \subseteq Connectors
CallTypes == conn \in [Connectors -> ConnAt] /\ disc \in [Disconnectors -> DiscAt]
HiveTypes == FlagTypes /\ NumberTypes /\ AttemptTypes /\ SetTypes /\ CallTypes

LEMMA TypesAgree == HiveTypes => TypeOK
BY DEF HiveTypes, FlagTypes, NumberTypes, AttemptTypes, SetTypes, CallTypes, TypeOK, ConnAt, DiscAt

(* Attempts are numbered in the order they are made.                           *)
Numbered ==
  /\ current \in 0..made /\ \A a \in Attempts : a > made => attempt[a] = "none"
  /\ \A p \in Connectors : conn[p].of \in 0..made

(* An attempt that has not opened its carrier has none that anybody knows.     *)
NoCarrierYet ==
  \A a \in Attempts : Early(a) =>
    /\ cleanup[a] = "none" /\ a \notin held /\ a # carrier /\ a # failedCleanup
    /\ \A b \in Attempts : old[b] # a
    /\ \A d \in Disconnectors : disc[d].of # a

(* An attempt under way that nobody cancelled is the latest and the current.   *)
OneGoing == \A a \in Attempts : Going(a) /\ a \notin cancelled => a = current /\ a = made /\ connecting

(* The link has the carrier of the current attempt, once that has one.         *)
CarrierIsCurrents ==
  \A a \in Attempts : a = current =>
    /\ attempt[a] \in {"starting", "closingOld"} => carrier = None
    /\ attempt[a] \in {"opening", "handshaking"} => carrier = a

(* Only a link that came up has a read loop.                                   *)
ReadersAreUp == \A a \in readers : attempt[a] = "up"

HiveInv == HiveTypes /\ Numbered /\ NoCarrierYet /\ OneGoing /\ CarrierIsCurrents /\ ReadersAreUp

LEMMA HiveInitial == Init => HiveInv
<1> SUFFICES ASSUME Init PROVE HiveInv  OBVIOUS
<1> USE DEF Init, Attempts, Maybe, None
<1>1. FlagTypes /\ SetTypes  BY DEF FlagTypes, SetTypes
<1>2. NumberTypes /\ AttemptTypes /\ CallTypes
  BY AttemptBound DEF NumberTypes, AttemptTypes, CallTypes, AttemptStates, ConnAt, DiscAt
<1>3. Numbered /\ OneGoing /\ CarrierIsCurrents /\ ReadersAreUp
  BY AttemptBound DEF Numbered, OneGoing, CarrierIsCurrents, ReadersAreUp, Going
<1>4. NoCarrierYet
  BY DEF NoCarrierYet
<1> QED  BY <1>1, <1>2, <1>3, <1>4 DEF HiveInv, HiveTypes

LEMMA ConnectKeeps ==
  ASSUME HiveInv, NEW p \in Connectors, Connect(p) \/ ConnectStep(p)
  PROVE  HiveInv'
<1> USE AttemptBound DEF HiveInv, HiveTypes, Attempts, Maybe, None
<1>1. UNCHANGED <<closing, kkFailed, carrierVars, readers, ending, reader, disc>> /\ overtaken' \subseteq overtaken
  BY DEF Connect, ConnectStep, ConnectResumes, loopVars
<1>2. \/ /\ conn' = [conn EXCEPT ![p] = [at |-> "idle", of |-> None]]
         /\ UNCHANGED <<linkVars, attemptVars>>
      \/ \E stage \in {"first", "second"} : ~Refused /\ TakeOver(p, stage)
  BY DEF Connect, ConnectStep, ConnectResumes, ConnectOnce
<1>3. CASE /\ conn' = [conn EXCEPT ![p] = [at |-> "idle", of |-> None]]
           /\ UNCHANGED <<linkVars, attemptVars>>
  <2>1. HiveTypes'
    BY <1>1, <1>3 DEF FlagTypes, NumberTypes, AttemptTypes, SetTypes, CallTypes, ConnAt, linkVars, attemptVars, carrierVars
  <2>2. Numbered'
    BY <1>1, <1>3 DEF CallTypes, NumberTypes, Numbered, linkVars, attemptVars
  <2>3. NoCarrierYet' /\ OneGoing' /\ CarrierIsCurrents' /\ ReadersAreUp'
    BY <1>1, <1>3 DEF NoCarrierYet, OneGoing, CarrierIsCurrents, ReadersAreUp, Early, Going, linkVars, attemptVars,
      carrierVars
  <2> QED  BY <2>1, <2>2, <2>3
<1>4. ASSUME NEW stage \in {"first", "second"}, ~Refused, TakeOver(p, stage)
      PROVE  HiveInv'
  <2>1. ~connecting /\ made \in Nat /\ made' = made + 1 /\ made' \in Attempts /\ attempt[made'] = "none"
    BY <1>4 DEF Refused, TakeOver, NumberTypes, Numbered
  <2>2. HiveTypes'
    <3>1. FlagTypes' /\ SetTypes'
      BY <1>1, <1>4 DEF TakeOver, FlagTypes, SetTypes, carrierVars
    <3>2. NumberTypes'
      BY <1>1, <1>4, <2>1 DEF TakeOver, NumberTypes, carrierVars
    <3>3. AttemptTypes' /\ CallTypes'
      BY <1>1, <1>4, <2>1 DEF TakeOver, NumberTypes, AttemptTypes, AttemptStates, CallTypes, ConnAt, carrierVars
    <3> QED  BY <3>1, <3>2, <3>3
  <2>3. Numbered'
    BY <1>1, <1>4, <2>1 DEF TakeOver, Numbered, AttemptTypes, NumberTypes, CallTypes
  <2>4. NoCarrierYet'
    BY <1>1, <1>4, <2>1 DEF TakeOver, NoCarrierYet, Early, AttemptTypes, NumberTypes, CallTypes, carrierVars
  <2>5. OneGoing' /\ CarrierIsCurrents' /\ ReadersAreUp'
    BY <1>1, <1>4, <2>1 DEF TakeOver, OneGoing, CarrierIsCurrents, ReadersAreUp, Going, AttemptTypes
  <2> QED  BY <2>2, <2>3, <2>4, <2>5
<1> QED  BY <1>2, <1>3, <1>4

-----------------------------------------------------------------------------
(* The moves of one attempt, whatever awaits they stand for.                   *)
SameLink == UNCHANGED <<carrier, connecting, transportConnected, stopped>>
Unread == SameTurn \/ \A d \in Disconnectors : disc[d].at # "reading"

AttBegins(a) ==
  /\ attempt[a] = "starting" /\ attempt'[a] = "closingOld" /\ a \notin cancelled /\ old[a] # None
  /\ closing' = TRUE /\ CloseCarrier(old[a], FALSE) /\ SameLink /\ UNCHANGED <<cancelled, held, readers>>
  /\ Unread
AttOpens(a) ==
  /\ attempt[a] \in {"starting", "closingOld"} /\ attempt'[a] = "opening" /\ a \notin cancelled /\ Valid(a)
  /\ carrier' = a /\ UNCHANGED <<connecting, transportConnected, stopped, cancelled, cleanup, held, readers>>
  /\ closing' = (closing /\ attempt[a] = "starting")
  /\ old[a] = None \/ cleanup[old[a]] = "ok"
  /\ attempt[a] = "starting" => Unread
AttShakes(a) ==
  /\ attempt[a] = "opening" /\ attempt'[a] = "handshaking" /\ a \notin cancelled /\ Valid(a)
  /\ SameLink /\ held' = held \cup {a} /\ UNCHANGED <<closing, cancelled, cleanup, readers>>
AttComesUp(a) ==
  /\ attempt[a] = "handshaking" /\ attempt'[a] = "up" /\ a \notin cancelled /\ Valid(a)
  /\ connecting' = FALSE /\ transportConnected' = TRUE /\ stopped' = FALSE /\ readers' = readers \cup {a}
  /\ UNCHANGED <<carrier, closing, cancelled, cleanup, held>>
AttFails(a) ==
  /\ attempt[a] \in {"starting", "closingOld"} /\ attempt'[a] = "over"
  /\ LoseLink(a) \/ (attempt[a] = "starting" /\ a \in cancelled /\ SameLink)
  /\ cancelled' = cancelled \ {a} /\ UNCHANGED <<cleanup, held, readers>>
  /\ closing' = (closing /\ attempt[a] = "starting")
  /\ attempt[a] = "closingOld" => a \in cancelled \/ cleanup[old[a]] # "running"
  /\ attempt[a] = "starting" => a \in cancelled \/ old[a] = None
AttAborts(a) ==
  /\ attempt[a] \in {"opening", "handshaking"} /\ attempt'[a] = "aborting"
  /\ LoseLink(a) /\ CloseCarrier(a, FALSE) /\ cancelled' = cancelled \ {a}
  /\ held' = held \/ (attempt[a] = "opening" /\ held' = held \cup {a})
  /\ UNCHANGED <<closing, readers>>
AttEnds(a) ==
  /\ attempt[a] = "aborting" /\ attempt'[a] = "over" /\ SameLink
  /\ cancelled' = cancelled \ {a} /\ UNCHANGED <<closing, cleanup, held, readers>>

AttemptMove(a) ==
  /\ \A b \in Attempts : b # a => attempt'[b] = attempt[b]
  /\ UNCHANGED <<current, made, old, conn, overtaken, disc, failedCleanup, ending>>
  /\ \/ AttBegins(a) \/ AttOpens(a) \/ AttShakes(a) \/ AttComesUp(a)
     \/ AttFails(a) \/ AttAborts(a) \/ AttEnds(a)

LEMMA AttemptMoves ==
  ASSUME AttemptTypes, FlagTypes, NEW a \in Attempts, AttemptStep(a)
  PROVE  AttemptMove(a)
<1> USE DEF AttemptTypes, FlagTypes, AttemptMove
<1>1. CASE AttemptStarts(a)
  <2>1. /\ \A b \in Attempts : b # a => attempt'[b] = attempt[b]
        /\ UNCHANGED <<current, made, old, conn, overtaken, disc, failedCleanup, ending, held, readers>>
    BY <1>1 DEF AttemptStarts, Abort, OpenCarrier, linkVars, loopVars
  <2>2. AttBegins(a) \/ AttOpens(a) \/ AttFails(a)
    BY <1>1 DEF AttemptStarts, Abort, OpenCarrier, linkVars, loopVars, SameLink, AttBegins, AttOpens, AttFails, Unread
  <2> QED  BY <2>1, <2>2
<1>2. CASE OldClosed(a)
  <2>1. /\ \A b \in Attempts : b # a => attempt'[b] = attempt[b]
        /\ UNCHANGED <<current, made, old, conn, overtaken, disc, failedCleanup, ending, held, readers>>
    BY <1>2 DEF OldClosed, OldCloseEnds, Abort, OpenCarrier, loopVars
  <2>2. AttOpens(a) \/ AttFails(a)
    BY <1>2 DEF OldClosed, OldCloseEnds, Abort, OpenCarrier, loopVars, AttOpens, AttFails, Unread
  <2> QED  BY <2>1, <2>2
<1>3. CASE Opened(a)
  <2>1. /\ \A b \in Attempts : b # a => attempt'[b] = attempt[b]
        /\ UNCHANGED <<current, made, old, conn, overtaken, disc, failedCleanup, ending, readers>>
    BY <1>3 DEF Opened, Abort, linkVars, loopVars
  <2>2. AttShakes(a) \/ AttAborts(a)
    BY <1>3 DEF Opened, Abort, linkVars, loopVars, AttShakes, AttAborts, SameLink
  <2> QED  BY <2>1, <2>2
<1>4. CASE Handshaken(a)
  <2>1. /\ \A b \in Attempts : b # a => attempt'[b] = attempt[b]
        /\ UNCHANGED <<current, made, old, conn, overtaken, disc, failedCleanup, ending, held>>
    BY <1>4 DEF Handshaken, Abort
  <2>2. AttComesUp(a) \/ AttAborts(a)
    BY <1>4 DEF Handshaken, Abort, AttComesUp, AttAborts
  <2> QED  BY <2>1, <2>2
<1>5. CASE Aborted(a)
  BY <1>5 DEF Aborted, linkVars, loopVars, AttEnds, SameLink
<1> QED  BY <1>1, <1>2, <1>3, <1>4, <1>5 DEF AttemptStep

(* Whoever closes the session, what it breaks are carriers.                    *)
SessionMay == broken' = broken \/ SessionCloses

LEMMA SessionMoves ==
  ASSUME broken \subseteq Attempts, SessionMay
  PROVE  broken' \subseteq Attempts
BY DEF SessionMay, SessionCloses, OnSession

LEMMA AttemptKeeps ==
  ASSUME HiveInv, NEW a \in Attempts, AttemptStep(a)
  PROVE  HiveInv'
<1> USE DEF HiveInv, HiveTypes, None
<1>0. /\ UNCHANGED <<failedCleanup, ending, conn, overtaken, disc, current, made, old>>
      /\ cancelled' \in {cancelled, cancelled \ {a}}
      /\ SessionMay
  BY DEF SessionMay, AttemptStep, AttemptStarts, OldClosed, OldCloseEnds, Opened, Handshaken, Aborted, Abort, OpenCarrier,
         ReleaseIfCurrent, ReleaseSession, linkVars, loopVars
<1>1. FlagTypes'
  <2>1. CASE AttemptStarts(a) BY <2>1 DEF FlagTypes, AttemptStarts, Abort, OpenCarrier, LoseLink, linkVars
  <2>2. CASE OldClosed(a) BY <2>2 DEF FlagTypes, OldClosed, OldCloseEnds, Abort, OpenCarrier, LoseLink, linkVars
  <2>3. CASE Opened(a) BY <2>3 DEF FlagTypes, Opened, Abort, LoseLink, linkVars
  <2>4. CASE Handshaken(a) BY <2>4 DEF FlagTypes, Handshaken, Abort, LoseLink, linkVars
  <2>5. CASE Aborted(a) BY <2>5 DEF FlagTypes, Aborted, linkVars
  <2> QED  BY <2>1, <2>2, <2>3, <2>4, <2>5 DEF AttemptStep
<1>2. NumberTypes'
  <2>1. CASE AttemptStarts(a) BY <1>0, <2>1 DEF NumberTypes, Maybe, AttemptStarts, Abort, OpenCarrier, LoseLink, linkVars, loopVars
  <2>2. CASE OldClosed(a) BY <1>0, <2>2 DEF NumberTypes, Maybe, OldClosed, OldCloseEnds, Abort, OpenCarrier, LoseLink, linkVars, loopVars
  <2>3. CASE Opened(a) BY <1>0, <2>3 DEF NumberTypes, Maybe, Opened, Abort, LoseLink, linkVars, loopVars
  <2>4. CASE Handshaken(a) BY <1>0, <2>4 DEF NumberTypes, Maybe, Handshaken, Abort, LoseLink, linkVars
  <2>5. CASE Aborted(a) BY <1>0, <2>5 DEF NumberTypes, Maybe, Aborted, linkVars, loopVars
  <2> QED  BY <2>1, <2>2, <2>3, <2>4, <2>5 DEF AttemptStep
<1>3. AttemptTypes'
  <2>1. CASE AttemptStarts(a) BY <1>0, <2>1 DEF AttemptTypes, AttemptStates, AttemptStarts, Abort, OpenCarrier, CloseCarrier, linkVars
  <2>2. CASE OldClosed(a) BY <1>0, <2>2 DEF AttemptTypes, AttemptStates, OldClosed, OldCloseEnds, Abort, OpenCarrier, CloseCarrier, linkVars
  <2>3. CASE Opened(a) BY <1>0, <2>3 DEF AttemptTypes, AttemptStates, Opened, Abort, CloseCarrier, linkVars
  <2>4. CASE Handshaken(a) BY <1>0, <2>4 DEF AttemptTypes, AttemptStates, Handshaken, Abort, CloseCarrier, linkVars
  <2>5. CASE Aborted(a) BY <1>0, <2>5 DEF AttemptTypes, AttemptStates, Aborted, linkVars
  <2> QED  BY <2>1, <2>2, <2>3, <2>4, <2>5 DEF AttemptStep
<1>4. SetTypes' /\ CallTypes'
  <2>1. readers' \in {readers, readers \cup {a}} /\ held' \in {held, held \cup {a}}
    BY DEF AttemptStep, AttemptStarts, OldClosed, OldCloseEnds, Opened, Handshaken, Aborted, loopVars
  <2>2. broken' \subseteq Attempts  BY <1>0, SessionMoves DEF SetTypes
  <2> QED  BY <1>0, <2>1, <2>2 DEF SetTypes, CallTypes
<1> HIDE DEF HiveTypes
<1>5. AttemptTypes /\ AttemptMove(a)
  BY AttemptMoves DEF HiveTypes
<1> HIDE DEF HiveInv
<1>6. Numbered'
  BY <1>5 DEF HiveInv, HiveTypes, Numbered, NumberTypes, Attempts, AttemptMove, AttBegins, AttOpens, AttShakes, AttComesUp, AttFails, AttAborts, AttEnds
<1> USE DEF AttemptMove, SameLink, LoseLink, CloseCarrier, AttemptTypes
<1>7. NoCarrierYet'
  <2> USE DEF NoCarrierYet, Early
  <2>1. CASE AttBegins(a)  BY <1>5, <2>1 DEF HiveInv, AttBegins
  <2>2. CASE AttOpens(a)  BY <1>5, <2>2 DEF HiveInv, AttOpens
  <2>3. CASE AttShakes(a)  BY <1>5, <2>3 DEF HiveInv, AttShakes
  <2>4. CASE AttComesUp(a)  BY <1>5, <2>4 DEF HiveInv, AttComesUp
  <2>5. CASE AttFails(a)  BY <1>5, <2>5 DEF HiveInv, AttFails, Attempts
  <2>6. CASE AttAborts(a)  BY <1>5, <2>6 DEF HiveInv, AttAborts, Attempts
  <2>7. CASE AttEnds(a)  BY <1>5, <2>7 DEF HiveInv, AttEnds
  <2> QED  BY <1>5, <2>1, <2>2, <2>3, <2>4, <2>5, <2>6, <2>7
<1>8. OneGoing' /\ CarrierIsCurrents'
  <2> USE DEF OneGoing, CarrierIsCurrents, Going, Valid
  <2>1. CASE AttBegins(a)  BY <1>5, <2>1 DEF HiveInv, AttBegins
  <2>2. CASE AttOpens(a)  BY <1>5, <2>2 DEF HiveInv, AttOpens
  <2>3. CASE AttShakes(a)  BY <1>5, <2>3 DEF HiveInv, AttShakes
  <2>4. CASE AttComesUp(a)  BY <1>5, <2>4 DEF HiveInv, AttComesUp
  <2>5. CASE AttFails(a)  BY <1>5, <2>5 DEF HiveInv, AttFails
  <2>6. CASE AttAborts(a)  BY <1>5, <2>6 DEF HiveInv, AttAborts
  <2>7. CASE AttEnds(a)  BY <1>5, <2>7 DEF HiveInv, AttEnds
  <2> QED  BY <1>5, <2>1, <2>2, <2>3, <2>4, <2>5, <2>6, <2>7
<1>9. ReadersAreUp'
  BY <1>5 DEF HiveInv, HiveTypes, SetTypes, ReadersAreUp, AttBegins, AttOpens, AttShakes, AttComesUp, AttFails, AttAborts, AttEnds
<1> QED  BY <1>1, <1>2, <1>3, <1>4, <1>6, <1>7, <1>8, <1>9 DEF HiveInv, HiveTypes

LEMMA CarrierKeeps ==
  ASSUME HiveInv, (\E a \in Attempts : CarrierStep(a) \/ HubDrops(a)) \/ SendFails
  PROVE  HiveInv'
<1>1. HiveTypes /\ AttemptTypes  BY DEF HiveInv, HiveTypes
<1>2. ASSUME NEW a \in Attempts, CarrierStep(a) \/ HubDrops(a)
      PROVE  HiveInv'
  <2>1. /\ UNCHANGED <<made, current, carrier, connecting, closing, kkFailed, attempt, old, result, cancelled, reader,
                       conn, overtaken, disc>>
        /\ cleanup' = cleanup \/ (cleanup[a] = "running" /\ cleanup' = [cleanup EXCEPT ![a] = "ok"])
           \/ (cleanup[a] = "running" /\ cleanup' = [cleanup EXCEPT ![a] = "failed"])
        /\ failedCleanup' \in {failedCleanup, None} \/ (cleanup[a] = "running" /\ failedCleanup' = a)
        /\ held' \subseteq held /\ readers' \subseteq readers
        /\ transportConnected' \in {transportConnected, FALSE} /\ stopped' \in {stopped, TRUE}
    BY <1>2 DEF CarrierStep, HubDrops, ReaderEnds, GivesUp, ReaderDone, CleanedUp, CleanupFails, linkVars, attemptVars,
      carrierVars, loopVars
  <2>2. FlagTypes' /\ SetTypes'
    <3>1. FlagTypes'  BY <1>1, <2>1 DEF HiveTypes, FlagTypes
    <3>2. ending' \subseteq readers'
      BY <1>1, <1>2 DEF HiveTypes, SetTypes, CarrierStep, HubDrops, ReaderEnds, GivesUp, ReaderDone, CleanedUp,
        CleanupFails, loopVars
    <3>3. broken' = broken \cup {a} \/ SessionMay
      BY <1>2 DEF SessionMay, CarrierStep, HubDrops, ReaderEnds, GivesUp, ReaderDone, CleanedUp, CleanupFails, carrierVars
    <3>4. broken' \subseteq Attempts  BY <1>1, <3>3, SessionMoves DEF HiveTypes, SetTypes
    <3> QED  BY <1>1, <2>1, <3>1, <3>2, <3>4 DEF HiveTypes, SetTypes
  <2>3. NumberTypes' /\ CallTypes'
    BY <1>1, <2>1 DEF HiveTypes, NumberTypes, CallTypes, Maybe
  <2>4. AttemptTypes'
    BY <1>1, <2>1 DEF AttemptTypes
  <2>5. Numbered' /\ OneGoing' /\ CarrierIsCurrents' /\ ReadersAreUp'
    BY <2>1 DEF HiveInv, Numbered, OneGoing, CarrierIsCurrents, ReadersAreUp, Going
  <2>6. NoCarrierYet'
    <3> SUFFICES ASSUME NEW b \in Attempts, Early(b)'
                 PROVE  /\ cleanup'[b] = "none" /\ b \notin held' /\ b # carrier' /\ b # failedCleanup'
                        /\ \A c \in Attempts : old'[c] # b
                        /\ \A d \in Disconnectors : disc'[d].of # b
      BY DEF NoCarrierYet
    <3>1. /\ cleanup[b] = "none" /\ b \notin held /\ b # carrier /\ b # failedCleanup
          /\ \A c \in Attempts : old[c] # b
          /\ \A d \in Disconnectors : disc[d].of # b
      BY <2>1 DEF HiveInv, NoCarrierYet, Early
    <3>2. cleanup'[b] = "none"  BY <1>1, <2>1, <3>1 DEF AttemptTypes
    <3>3. b # failedCleanup'  BY <2>1, <3>1 DEF Attempts, None
    <3> QED  BY <2>1, <3>1, <3>2, <3>3
  <2> QED  BY <2>2, <2>3, <2>4, <2>5, <2>6 DEF HiveInv, HiveTypes
<1>3. ASSUME SendFails
      PROVE  HiveInv'
  <2>1. UNCHANGED <<made, current, carrier, connecting, closing, kkFailed, attempt, old, result, cancelled, reader,
                    conn, overtaken, disc, cleanup, failedCleanup, held, readers, ending>>
    BY <1>3 DEF SendFails, attemptVars, loopVars
  <2>2. FlagTypes' /\ SetTypes'
    BY <1>1, <1>3, <2>1 DEF HiveTypes, FlagTypes, SetTypes, NumberTypes, Maybe, SendFails
  <2>3. NumberTypes' /\ CallTypes' /\ AttemptTypes'
    BY <1>1, <2>1 DEF HiveTypes, NumberTypes, CallTypes, AttemptTypes
  <2>4. Numbered' /\ NoCarrierYet' /\ OneGoing' /\ CarrierIsCurrents' /\ ReadersAreUp'
    BY <2>1 DEF HiveInv, Numbered, NoCarrierYet, OneGoing, CarrierIsCurrents, ReadersAreUp, Early, Going
  <2> QED  BY <2>2, <2>3, <2>4 DEF HiveInv, HiveTypes
<1> QED  BY <1>2, <1>3

-----------------------------------------------------------------------------
(* The moves of a disconnect: what it closes was nobody's who has no carrier.  *)
LEMMA TargetKeeps ==
  ASSUME HiveInv, NEW d \in Disconnectors, NEW target \in Maybe, NEW retry \in BOOLEAN,
         CloseTarget(d, target, retry), \A a \in Attempts : Early(a) => a # target
  PROVE  /\ closing' \in BOOLEAN /\ (stopped \in BOOLEAN => stopped' \in BOOLEAN)
         /\ cleanup' \in [Attempts -> {"none", "running", "ok", "failed"}] /\ disc' \in [Disconnectors -> DiscAt]
         /\ \A a \in Attempts : Early(a) => cleanup'[a] = "none" /\ \A e \in Disconnectors : disc'[e].of # a
         /\ SessionMay
<1>0. SessionMay  BY DEF CloseTarget, ReleaseSession, SessionMay
<1>1. AttemptTypes /\ CallTypes /\ NoCarrierYet  BY DEF HiveInv, HiveTypes
<1>2. CASE target \in ToAwait(retry)
  <2>1. /\ closing' = TRUE /\ CloseCarrier(target, retry) /\ UNCHANGED stopped /\ target \in Attempts
        /\ disc' = [disc EXCEPT ![d] = [at |-> "closing", of |-> target, reader |-> None, retry |-> retry]]
    BY <1>2 DEF CloseTarget, ToAwait
  <2>2. [at |-> "closing", of |-> target, reader |-> None, retry |-> retry] \in DiscAt
    BY DEF DiscAt, Maybe
  <2>3. disc' \in [Disconnectors -> DiscAt]  BY <1>1, <2>1, <2>2 DEF CallTypes
  <2>4. cleanup' \in [Attempts -> {"none", "running", "ok", "failed"}]
    BY <1>1, <2>1 DEF CloseCarrier, AttemptTypes
  <2> QED  BY <1>0, <1>1, <2>1, <2>3, <2>4 DEF CloseCarrier, AttemptTypes, CallTypes, NoCarrierYet
<1>3. CASE target \notin ToAwait(retry)
  <2>1. closing' = FALSE /\ stopped' = TRUE /\ disc' = [disc EXCEPT ![d].at = "over"] /\ UNCHANGED cleanup
    BY <1>3 DEF CloseTarget
  <2>2. disc' \in [Disconnectors -> DiscAt] /\ \A e \in Disconnectors : disc'[e].of = disc[e].of
    BY <1>1, <2>1 DEF CallTypes, DiscAt
  <2> QED  BY <1>0, <1>1, <2>1, <2>2 DEF AttemptTypes, NoCarrierYet
<1> QED  BY <1>0, <1>2, <1>3

LEMMA DisconnectKeeps ==
  ASSUME HiveInv, NEW d \in Disconnectors, (\E retry \in BOOLEAN : Disconnect(d, retry)) \/ DisconnectStep(d)
  PROVE  HiveInv'
<1>1. FlagTypes /\ NumberTypes /\ AttemptTypes /\ SetTypes /\ CallTypes /\ NoCarrierYet  BY DEF HiveInv, HiveTypes
<1>2. ASSUME NEW retry \in BOOLEAN, Disconnect(d, retry)
      PROVE  HiveInv'
  <2>1. /\ UNCHANGED <<kkFailed, made, attempt, old, result, failedCleanup, held, readers, ending, conn>>
        /\ overtaken' = {p \in Connectors : conn[p].at # "idle"} /\ StopAttempt
        /\ current' = None /\ connecting' = FALSE /\ carrier' \in {carrier, None}
        /\ transportConnected' \in {transportConnected, FALSE} /\ reader' \in {reader, None}
    BY <1>2 DEF Disconnect, LeaveCleanup, TakeDown
  <2>2. /\ closing' \in BOOLEAN /\ stopped' \in BOOLEAN
        /\ cleanup' \in [Attempts -> {"none", "running", "ok", "failed"}] /\ disc' \in [Disconnectors -> DiscAt]
        /\ \A a \in Attempts : Early(a) => cleanup'[a] = "none" /\ \A e \in Disconnectors : disc'[e].of # a
        /\ SessionMay
    <3>1. CASE LeaveCleanup(d)
      <4>1. disc' = [disc EXCEPT ![d].at = "over"] /\ UNCHANGED <<stopped, closing, cleanup, broken>>
        BY <3>1 DEF LeaveCleanup
      <4>2. disc' \in [Disconnectors -> DiscAt] /\ \A e \in Disconnectors : disc'[e].of = disc[e].of
        BY <1>1, <4>1 DEF CallTypes, DiscAt
      <4> QED  BY <1>1, <4>1, <4>2 DEF SessionMay, FlagTypes, AttemptTypes, NoCarrierYet
    <3>2. CASE TakeDown(d, retry)
      <4> DEFINE target == IF failedCleanup # None THEN failedCleanup ELSE carrier
      <4>1. target \in Maybe /\ \A a \in Attempts : Early(a) => a # target
        BY <1>1 DEF NumberTypes, NoCarrierYet
      <4>2. CASE reader \in readers
        <5>1. /\ closing' = (target # None) /\ UNCHANGED <<stopped, cleanup, broken>>
              /\ disc' = [disc EXCEPT ![d] = [at |-> "reading", of |-> target, reader |-> reader, retry |-> retry]]
          BY <3>2, <4>2 DEF TakeDown
        <5>2. [at |-> "reading", of |-> target, reader |-> reader, retry |-> retry] \in DiscAt
          BY <1>1, <4>1 DEF DiscAt, NumberTypes
        <5> HIDE DEF target
        <5>3. disc' \in [Disconnectors -> DiscAt]  BY <1>1, <5>1, <5>2 DEF CallTypes
        <5> QED  BY <1>1, <4>1, <5>1, <5>3 DEF SessionMay, FlagTypes, AttemptTypes, NoCarrierYet, CallTypes
      <4>3. CASE reader \notin readers
        <5>1. CloseTarget(d, target, retry)  BY <3>2, <4>3 DEF TakeDown
        <5> QED  BY <1>1, <4>1, <5>1, TargetKeeps DEF FlagTypes
      <4> QED  BY <4>2, <4>3
    <3> QED  BY <1>2, <3>1, <3>2 DEF Disconnect
  <2>3. FlagTypes' /\ SetTypes'
    BY <1>1, <2>1, <2>2, SessionMoves DEF FlagTypes, SetTypes, StopAttempt, Running
  <2>4. NumberTypes' /\ AttemptTypes' /\ CallTypes'
    BY <1>1, <2>1, <2>2 DEF NumberTypes, AttemptTypes, CallTypes, Maybe
  <2>5. Numbered' /\ CarrierIsCurrents' /\ ReadersAreUp'
    BY <1>1, <2>1 DEF HiveInv, Numbered, CarrierIsCurrents, ReadersAreUp, NumberTypes, Attempts, None
  <2>6. OneGoing'
    BY <2>1 DEF HiveInv, OneGoing, Going, StopAttempt, Running
  <2>7. NoCarrierYet'
    BY <1>1, <2>1, <2>2 DEF NoCarrierYet, Early, Attempts, None
  <2> QED  BY <2>3, <2>4, <2>5, <2>6, <2>7 DEF HiveInv, HiveTypes
<1>3. ASSUME DisconnectStep(d)
      PROVE  HiveInv'
  <2>1. UNCHANGED <<current, carrier, connecting, transportConnected, kkFailed, made, attempt, old, result, cancelled,
                    failedCleanup, held, readers, ending, reader, conn, overtaken>>
    BY <1>3 DEF DisconnectStep, ReaderAwaited, Disconnected, attemptVars, loopVars
  <2>2. /\ closing' \in BOOLEAN /\ stopped' \in BOOLEAN
        /\ cleanup' \in [Attempts -> {"none", "running", "ok", "failed"}] /\ disc' \in [Disconnectors -> DiscAt]
        /\ \A a \in Attempts : Early(a) => cleanup'[a] = "none" /\ \A e \in Disconnectors : disc'[e].of # a
        /\ SessionMay
    <3>1. CASE ReaderAwaited(d)
      <4>1. disc[d].of \in Maybe /\ disc[d].retry \in BOOLEAN /\ \A a \in Attempts : Early(a) => a # disc[d].of
        BY <1>1 DEF CallTypes, DiscAt, NoCarrierYet
      <4>2. CloseTarget(d, disc[d].of, disc[d].retry)  BY <3>1 DEF ReaderAwaited
      <4> QED  BY <1>1, <4>1, <4>2, TargetKeeps DEF FlagTypes
    <3>2. CASE Disconnected(d)
      <4>1. disc' = [disc EXCEPT ![d].at = "over"] /\ closing' = FALSE /\ stopped' = TRUE /\ UNCHANGED cleanup
            /\ SessionMay
        BY <3>2 DEF Disconnected, ReleaseSession, SessionMay
      <4>2. disc' \in [Disconnectors -> DiscAt] /\ \A e \in Disconnectors : disc'[e].of = disc[e].of
        BY <1>1, <4>1 DEF CallTypes, DiscAt
      <4> QED  BY <1>1, <4>1, <4>2 DEF AttemptTypes, NoCarrierYet
    <3> QED  BY <1>3, <3>1, <3>2 DEF DisconnectStep
  <2>3. FlagTypes' /\ SetTypes' /\ NumberTypes' /\ AttemptTypes' /\ CallTypes'
    BY <1>1, <2>1, <2>2, SessionMoves DEF FlagTypes, SetTypes, NumberTypes, AttemptTypes, CallTypes
  <2>4. Numbered' /\ OneGoing' /\ CarrierIsCurrents' /\ ReadersAreUp'
    BY <2>1 DEF HiveInv, Numbered, OneGoing, CarrierIsCurrents, ReadersAreUp, Going
  <2>5. NoCarrierYet'
    BY <1>1, <2>1, <2>2 DEF NoCarrierYet, Early
  <2> QED  BY <2>3, <2>4, <2>5 DEF HiveInv, HiveTypes
<1> QED  BY <1>2, <1>3

LEMMA HiveStep == HiveInv /\ [Next]_vars => HiveInv'
<1>1. HiveInv /\ UNCHANGED vars => HiveInv'
  BY DEF vars, linkVars, attemptVars, carrierVars, loopVars, HiveInv, HiveTypes, FlagTypes, SetTypes, NumberTypes,
    AttemptTypes, CallTypes, Numbered, NoCarrierYet, OneGoing, CarrierIsCurrents, ReadersAreUp, Early, Going
<1> QED
  BY <1>1, ConnectKeeps, AttemptKeeps, CarrierKeeps, DisconnectKeeps DEF Next

LEMMA HiveInvariant == Spec => []HiveInv
BY HiveInitial, HiveStep, PTL DEF Spec

(* Every flag, phase and table entry of the transport stays one of its kind,   *)
(* over either carrier (_hive.py:250-960).                                     *)
THEOREM HiveTypeCorrect == Spec => []TypeOK
<1>1. HiveInv => TypeOK  BY TypesAgree DEF HiveInv
<1> QED  BY <1>1, HiveInvariant, PTL

-----------------------------------------------------------------------------
(* Who may bring the link up after a disconnect.                               *)

(* A connect() a disconnect found does not own the link's attempt, unless it   *)
(* began its second one.                                                       *)
OvertakenAreOut ==
  \A p \in Connectors : p \in overtaken /\ current # None => conn[p].of # current \/ conn[p].at = "second"

(* No attempt was ever a second one, if no hub refuses KK.                     *)
NoSecond == ~KKMayFail => kkFailed = FALSE /\ \A p \in Connectors : conn[p].at # "second"

LEMMA OvertakenInitial == Init => OvertakenAreOut /\ NoSecond
BY DEF Init, OvertakenAreOut, NoSecond

LEMMA OvertakenStep ==
  ASSUME HiveInv, OvertakenAreOut, NoSecond, [Next]_vars
  PROVE  /\ OvertakenAreOut' /\ NoSecond'
         /\ ~transportConnected /\ transportConnected' => current' = current /\ current # None
<1>1. /\ NumberTypes /\ AttemptTypes /\ CallTypes /\ Numbered /\ overtaken \subseteq Connectors
      /\ transportConnected \in BOOLEAN
  BY DEF HiveInv, HiveTypes, SetTypes, FlagTypes
<1>2. ASSUME NEW p \in Connectors, Connect(p) \/ ConnectStep(p)
      PROVE  /\ OvertakenAreOut' /\ NoSecond' /\ (~transportConnected => ~transportConnected')
  <2>1. /\ UNCHANGED kkFailed /\ overtaken' \subseteq overtaken
        /\ \/ conn' = [conn EXCEPT ![p] = [at |-> "idle", of |-> None]] /\ UNCHANGED <<linkVars, attemptVars>>
           \/ /\ TakeOver(p, "first") /\ p \notin overtaken'
           \/ TakeOver(p, "second") /\ kkFailed
    BY <1>2 DEF Connect, ConnectStep, ConnectResumes, ConnectOnce
  <2>2. CASE conn' = [conn EXCEPT ![p] = [at |-> "idle", of |-> None]] /\ UNCHANGED <<linkVars, attemptVars>>
    BY <1>1, <2>1, <2>2 DEF linkVars, OvertakenAreOut, NoSecond, CallTypes, None
  <2>3. ASSUME NEW stage \in {"first", "second"}, TakeOver(p, stage),
               stage = "first" => p \notin overtaken', stage = "second" => kkFailed
        PROVE  /\ OvertakenAreOut' /\ NoSecond' /\ (~transportConnected => ~transportConnected')
    <3>1. /\ conn' = [conn EXCEPT ![p] = [at |-> stage, of |-> made']] /\ current' = made' /\ made' = made + 1
          /\ transportConnected' = FALSE /\ made \in Nat
      BY <1>1, <2>3, AttemptBound DEF TakeOver, NumberTypes
    <3>2. conn'[p] = [at |-> stage, of |-> made'] /\ \A q \in Connectors : q # p => conn'[q] = conn[q]
      BY <1>1, <3>1 DEF CallTypes
    <3>3. OvertakenAreOut'  BY <1>1, <2>1, <2>3, <3>1, <3>2 DEF OvertakenAreOut, Numbered
    <3>4. NoSecond'  BY <2>1, <2>3, <3>2 DEF NoSecond
    <3> QED  BY <3>1, <3>3, <3>4
  <2> QED  BY <2>1, <2>2, <2>3
<1>3. ASSUME NEW a \in Attempts, AttemptStep(a)
      PROVE  /\ OvertakenAreOut' /\ NoSecond'
             /\ ~transportConnected /\ transportConnected' => current' = current /\ current # None
  <2>1. AttemptMove(a)  BY <1>3, AttemptMoves DEF HiveInv, HiveTypes
  <2>2. UNCHANGED <<current, conn, overtaken>>  BY <2>1 DEF AttemptMove
  <2>3. ~KKMayFail /\ kkFailed = FALSE => kkFailed' = FALSE
    BY <1>3 DEF AttemptStep, AttemptStarts, OldClosed, OldCloseEnds, Opened, Handshaken, Aborted, OpenCarrier
  <2>4. ~transportConnected /\ transportConnected' => AttComesUp(a)
    BY <2>1 DEF AttemptMove, AttBegins, AttOpens, AttShakes, AttFails, AttAborts, AttEnds, SameLink, LoseLink
  <2> QED  BY <2>2, <2>3, <2>4 DEF OvertakenAreOut, NoSecond, AttComesUp, Valid, Attempts, None
<1>4. ASSUME NEW d \in Disconnectors, (\E retry \in BOOLEAN : Disconnect(d, retry)) \/ DisconnectStep(d)
      PROVE  /\ OvertakenAreOut' /\ NoSecond' /\ (~transportConnected => ~transportConnected')
  <2>1. /\ UNCHANGED <<conn, kkFailed>>
        /\ current' = None \/ UNCHANGED <<current, overtaken>>
        /\ transportConnected' \in {transportConnected, FALSE}
    BY <1>4 DEF Disconnect, LeaveCleanup, TakeDown, DisconnectStep, ReaderAwaited, Disconnected
  <2>2. OvertakenAreOut'  BY <2>1 DEF OvertakenAreOut
  <2>3. NoSecond'  BY <2>1 DEF NoSecond
  <2>4. ~transportConnected => ~transportConnected'  BY <2>1
  <2> QED  BY <2>2, <2>3, <2>4
<1>5. ASSUME UNCHANGED <<current, conn, overtaken, kkFailed>>, transportConnected' \in {transportConnected, FALSE}
      PROVE  /\ OvertakenAreOut' /\ NoSecond' /\ (~transportConnected => ~transportConnected')
  <2>1. OvertakenAreOut'  BY <1>5 DEF OvertakenAreOut
  <2>2. NoSecond'  BY <1>5 DEF NoSecond
  <2>3. ~transportConnected => ~transportConnected'  BY <1>5
  <2> QED  BY <2>1, <2>2, <2>3
<1>6. ASSUME (\E a \in Attempts : CarrierStep(a) \/ HubDrops(a)) \/ SendFails \/ UNCHANGED vars
      PROVE  UNCHANGED <<current, conn, overtaken, kkFailed>> /\ transportConnected' \in {transportConnected, FALSE}
  BY <1>6 DEF CarrierStep, HubDrops, ReaderEnds, GivesUp, ReaderDone, CleanedUp, CleanupFails, SendFails, linkVars, vars
<1> QED  BY <1>2, <1>3, <1>4, <1>5, <1>6 DEF Next

(* Whatever the hub refuses, only a connect() that went on to its second       *)
(* attempt, XX, can bring the link up after a disconnect() that found it.      *)
OnlySecondsComeUp ==
  [][(~transportConnected /\ transportConnected') =>
        \A p \in overtaken : conn[p].of # current' \/ conn[p].at = "second"]_vars

LEMMA OvertakenInvariant == Spec => [](HiveInv /\ OvertakenAreOut /\ NoSecond)
<1>1. HiveInv /\ OvertakenAreOut /\ NoSecond /\ [Next]_vars => (HiveInv /\ OvertakenAreOut /\ NoSecond)'
  BY OvertakenStep, HiveStep
<1> QED  BY <1>1, HiveInitial, OvertakenInitial, PTL DEF Spec

LEMMA WhoComesUp ==
  ASSUME HiveInv, OvertakenAreOut, NoSecond, [Next]_vars, ~transportConnected, transportConnected',
         NEW p \in overtaken
  PROVE  /\ conn[p].of # current' \/ conn[p].at = "second"
         /\ ~KKMayFail => conn[p].of # current'
<1>1. current' = current /\ current # None /\ p \in Connectors
  BY OvertakenStep DEF HiveInv, HiveTypes, SetTypes
<1> QED  BY <1>1 DEF OvertakenAreOut, NoSecond

(* disconnect() is final but for that second attempt, for any number of calls  *)
(* of either kind and whatever fails (_hive.py 555-600, 822-870).              *)
THEOREM OnlyARetryOutlivesDisconnect == Spec => OnlySecondsComeUp
<1>1. HiveInv /\ OvertakenAreOut /\ NoSecond /\ [Next]_vars
        => [(~transportConnected /\ transportConnected') =>
              \A p \in overtaken : conn[p].of # current' \/ conn[p].at = "second"]_vars
  BY WhoComesUp
<1> QED  BY <1>1, OvertakenInvariant, PTL DEF Spec, OnlySecondsComeUp

(* Over HTTPS, and wherever no hub refuses KK, disconnect() is final.          *)
THEOREM DisconnectIsFinalIfKKHolds ==
  ASSUME ~KKMayFail
  PROVE  Spec => DisconnectIsFinal
<1>1. HiveInv /\ OvertakenAreOut /\ NoSecond /\ [Next]_vars
        => [(~transportConnected /\ transportConnected') => \A p \in overtaken : conn[p].of # current']_vars
  BY WhoComesUp
<1> QED  BY <1>1, OvertakenInvariant, PTL DEF Spec, DisconnectIsFinal

-----------------------------------------------------------------------------
(* HiveTransport: who owns _closing, and the live link.                        *)

(* While something is closed there is no link, and nobody is making one.       *)
ClosingIsQuiet ==
  closing => /\ ~transportConnected
             /\ \A a \in Attempts : attempt[a] \in {"starting", "opening", "handshaking"} => a \in cancelled

(* The flag has one owner: an attempt that closes the old carrier ...          *)
OneOldCloser ==
  \A a \in Attempts : attempt[a] = "closingOld" =>
    /\ closing /\ \A b \in Attempts : attempt[b] = "closingOld" => b = a
    /\ \A d \in Disconnectors : disc[d].at \notin {"reading", "closing"}

(* ... or a disconnect.                                                        *)
OneDisconnect ==
  \A d \in Disconnectors : disc[d].at \in {"reading", "closing"} =>
    /\ \A e \in Disconnectors : disc[e].at \in {"reading", "closing"} => e = d
    /\ disc[d].at = "closing" \/ disc[d].of # None => closing

(* While a disconnect waits for the read loop there is no link either.         *)
ReadingIsQuiet ==
  \A d \in Disconnectors : disc[d].at = "reading" =>
    /\ ~transportConnected
    /\ \A a \in Attempts : attempt[a] \in {"opening", "handshaking"} => a \in cancelled

LiveInv == ClosingIsQuiet /\ OneOldCloser /\ OneDisconnect /\ ReadingIsQuiet /\ LiveIsCurrent

Busy(d) == disc[d].at \in {"reading", "closing"}
Shown(a) == attempt[a] \in {"starting", "opening", "handshaking"} /\ a \notin cancelled

LEMMA LiveInitial == Init => LiveInv
BY DEF Init, LiveInv, ClosingIsQuiet, OneOldCloser, OneDisconnect, ReadingIsQuiet, LiveIsCurrent

LEMMA LiveStutters ==
  ASSUME LiveInv, UNCHANGED <<current, carrier, attempt, connecting, cancelled, closing, disc>>,
         transportConnected' => /\ transportConnected /\ stopped' = stopped
                                /\ current \in readers \ ending => current \in readers' \ ending'
  PROVE  LiveInv'
<1> USE DEF LiveInv
<1>1. ClosingIsQuiet'  BY DEF ClosingIsQuiet
<1>2. OneOldCloser' /\ OneDisconnect'  BY DEF OneOldCloser, OneDisconnect
<1>3. ReadingIsQuiet'  BY DEF ReadingIsQuiet
<1>4. LiveIsCurrent'  BY DEF LiveIsCurrent
<1> QED  BY <1>1, <1>2, <1>3, <1>4

LEMMA ConnectKeepsLive ==
  ASSUME HiveInv, LiveInv, NEW p \in Connectors, Connect(p) \/ ConnectStep(p)
  PROVE  LiveInv'
<1>1. NumberTypes /\ AttemptTypes /\ Numbered  BY DEF HiveInv, HiveTypes
<1>2. /\ UNCHANGED <<closing, readers, ending, disc>>
      /\ \/ UNCHANGED <<linkVars, attemptVars>>
         \/ ~Refused /\ \E stage \in {"first", "second"} : TakeOver(p, stage)
  BY DEF Connect, ConnectStep, ConnectResumes, ConnectOnce, loopVars
<1>3. CASE UNCHANGED <<linkVars, attemptVars>>
  BY <1>2, <1>3, LiveStutters DEF linkVars, attemptVars
<1>4. CASE ~Refused /\ \E stage \in {"first", "second"} : TakeOver(p, stage)
  <2>1. /\ ~closing /\ made' \in Attempts /\ attempt' = [attempt EXCEPT ![made'] = "starting"]
        /\ transportConnected' = FALSE /\ UNCHANGED cancelled
    BY <1>1, <1>4, AttemptBound DEF Refused, TakeOver, NumberTypes, Attempts
  <2>2. ClosingIsQuiet' /\ LiveIsCurrent'  BY <1>2, <2>1 DEF ClosingIsQuiet, LiveIsCurrent
  <2>3. OneOldCloser' /\ OneDisconnect'
    BY <1>1, <1>2, <2>1 DEF LiveInv, OneOldCloser, OneDisconnect, AttemptTypes
  <2>4. ReadingIsQuiet'  BY <1>1, <1>2, <2>1 DEF LiveInv, ReadingIsQuiet, AttemptTypes
  <2> QED  BY <2>2, <2>3, <2>4 DEF LiveInv
<1> QED  BY <1>2, <1>3, <1>4

LEMMA AttemptKeepsLive ==
  ASSUME ~SameTurn, HiveInv, LiveInv, NEW a \in Attempts, AttemptMove(a)
  PROVE  LiveInv'
<1>1. /\ FlagTypes /\ AttemptTypes /\ OneGoing /\ CarrierIsCurrents
      /\ current # None => current \in Attempts
      /\ ClosingIsQuiet /\ OneOldCloser /\ OneDisconnect /\ ReadingIsQuiet /\ LiveIsCurrent
      /\ \A b \in ending : attempt[b] = "up"
  BY DEF HiveInv, HiveTypes, LiveInv, NumberTypes, SetTypes, ReadersAreUp, Maybe
<1>2. /\ \A b \in Attempts : b # a => attempt'[b] = attempt[b]
      /\ UNCHANGED <<current, disc, ending>>
  BY DEF AttemptMove
<1> USE DEF AttemptTypes
<1>3. CASE AttBegins(a)
  <2>1. /\ attempt[a] = "starting" /\ a \notin cancelled /\ attempt'[a] = "closingOld" /\ closing'
        /\ \A d \in Disconnectors : disc[d].at # "reading"
        /\ UNCHANGED <<carrier, connecting, transportConnected, stopped, cancelled, readers>>
    BY <1>3 DEF AttBegins, SameLink, Unread
  <2>2. ~closing /\ a = current /\ connecting /\ ~transportConnected
    BY <1>1, <2>1 DEF ClosingIsQuiet, OneGoing, Going, LiveIsCurrent
  <2>3. ClosingIsQuiet'  BY <1>1, <1>2, <2>1, <2>2 DEF ClosingIsQuiet, OneGoing, Going
  <2>4. OneOldCloser'  BY <1>1, <1>2, <2>1, <2>2 DEF OneOldCloser, OneDisconnect
  <2>5. OneDisconnect' /\ ReadingIsQuiet' /\ LiveIsCurrent'
    BY <1>1, <1>2, <2>1, <2>2 DEF OneDisconnect, ReadingIsQuiet, LiveIsCurrent
  <2> QED  BY <2>3, <2>4, <2>5 DEF LiveInv
<1>4. CASE AttOpens(a)
  <2>1. /\ attempt[a] \in {"starting", "closingOld"} /\ a \notin cancelled /\ attempt'[a] = "opening"
        /\ attempt[a] = "starting" => \A d \in Disconnectors : disc[d].at # "reading"
        /\ closing' = (closing /\ attempt[a] = "starting") /\ carrier' = a
        /\ UNCHANGED <<connecting, transportConnected, stopped, cancelled, readers>>
    BY <1>4 DEF AttOpens, Unread
  <2>2. ~transportConnected /\ ~closing'
    BY <1>1, <2>1 DEF ClosingIsQuiet, OneGoing, Going, LiveIsCurrent
  <2>3. \A b \in Attempts : attempt'[b] # "closingOld"
    BY <1>1, <1>2, <2>1 DEF ClosingIsQuiet, OneOldCloser
  <2>4. \A d \in Disconnectors : disc[d].at # "reading" /\ disc[d].at # "closing"
    BY <1>1, <2>1 DEF OneOldCloser, OneDisconnect, ClosingIsQuiet
  <2> QED
    BY <1>2, <2>1, <2>2, <2>3, <2>4
    DEF LiveInv, ClosingIsQuiet, OneOldCloser, OneDisconnect, ReadingIsQuiet, LiveIsCurrent
<1>5. CASE AttShakes(a)
  <2>1. /\ attempt[a] = "opening" /\ a \notin cancelled /\ attempt'[a] = "handshaking"
        /\ UNCHANGED <<carrier, connecting, transportConnected, stopped, closing, cancelled, readers>>
    BY <1>5 DEF AttShakes, SameLink
  <2>2. ~closing  BY <1>1, <2>1 DEF ClosingIsQuiet
  <2>3. ClosingIsQuiet' /\ ReadingIsQuiet'  BY <1>1, <1>2, <2>1, <2>2 DEF ClosingIsQuiet, ReadingIsQuiet
  <2>4. OneOldCloser' /\ OneDisconnect'  BY <1>1, <1>2, <2>1, <2>2 DEF OneOldCloser, OneDisconnect
  <2>5. LiveIsCurrent'  BY <1>1, <1>2, <2>1 DEF LiveIsCurrent
  <2> QED  BY <2>3, <2>4, <2>5 DEF LiveInv
<1>6. CASE AttComesUp(a)
  <2>1. /\ attempt[a] = "handshaking" /\ a \notin cancelled /\ attempt'[a] = "up" /\ a = current
        /\ connecting' = FALSE /\ stopped' = FALSE /\ readers' = readers \cup {a}
        /\ UNCHANGED <<carrier, closing, cancelled>>
    BY <1>6 DEF AttComesUp, Valid
  <2>2. ~closing /\ carrier = a  BY <1>1, <2>1 DEF ClosingIsQuiet, CarrierIsCurrents
  <2>3. \A d \in Disconnectors : disc[d].at # "reading"  BY <1>1, <2>1 DEF ReadingIsQuiet
  <2>4. ClosingIsQuiet' /\ ReadingIsQuiet'  BY <1>2, <2>1, <2>2, <2>3 DEF ClosingIsQuiet, ReadingIsQuiet
  <2>5. OneOldCloser' /\ OneDisconnect'  BY <1>1, <1>2, <2>1, <2>2 DEF OneOldCloser, OneDisconnect
  <2>6. LiveIsCurrent'  BY <1>1, <1>2, <2>1, <2>2 DEF LiveIsCurrent, Attempts, None
  <2> QED  BY <2>4, <2>5, <2>6 DEF LiveInv
<1>7. ASSUME AttFails(a) \/ AttAborts(a) \/ AttEnds(a)
      PROVE  LiveInv'
  <2>1. /\ attempt[a] \in {"starting", "closingOld", "opening", "handshaking", "aborting"}
        /\ attempt'[a] \in {"over", "aborting"} /\ cancelled' = cancelled \ {a}
        /\ closing' = (closing /\ attempt[a] # "closingOld") /\ UNCHANGED readers
    <3>1. CASE AttFails(a)  BY <1>1, <3>1 DEF AttFails, FlagTypes
    <3>2. CASE AttAborts(a)  BY <1>1, <3>2 DEF AttAborts, FlagTypes
    <3>3. CASE AttEnds(a)  BY <1>1, <3>3 DEF AttEnds, FlagTypes
    <3> QED  BY <1>7, <3>1, <3>2, <3>3
  <2>2. \/ UNCHANGED <<carrier, connecting, transportConnected, stopped>>
        \/ a = current /\ transportConnected' = FALSE
    BY <1>7 DEF AttFails, AttAborts, AttEnds, SameLink, LoseLink
  <2>3. ClosingIsQuiet'  BY <1>1, <1>2, <2>1, <2>2 DEF ClosingIsQuiet
  <2>4. OneOldCloser' /\ OneDisconnect'
    BY <1>1, <1>2, <2>1 DEF OneOldCloser, OneDisconnect
  <2>5. ReadingIsQuiet'  BY <1>1, <1>2, <2>1, <2>2 DEF ReadingIsQuiet
  <2>6. LiveIsCurrent'  BY <1>1, <1>2, <2>1, <2>2 DEF LiveIsCurrent
  <2> QED  BY <2>3, <2>4, <2>5, <2>6 DEF LiveInv
<1> QED  BY <1>3, <1>4, <1>5, <1>6, <1>7 DEF AttemptMove

LEMMA DisconnectKeepsLive ==
  ASSUME ~SameTurn, HiveInv, LiveInv, NEW d \in Disconnectors,
         (\E retry \in BOOLEAN : Disconnect(d, retry)) \/ DisconnectStep(d)
  PROVE  LiveInv'
<1>1. /\ AttemptTypes /\ CallTypes /\ OneGoing
      /\ ClosingIsQuiet /\ OneOldCloser /\ OneDisconnect /\ ReadingIsQuiet /\ LiveIsCurrent
  BY DEF HiveInv, HiveTypes, LiveInv
<1>2. UNCHANGED attempt /\ \A e \in Disconnectors : e # d => disc'[e] = disc[e]
  <2>1. CASE \E retry \in BOOLEAN : Disconnect(d, retry)
    BY <1>1, <2>1 DEF Disconnect, LeaveCleanup, TakeDown, CloseTarget, CallTypes
  <2>2. CASE DisconnectStep(d)
    BY <1>1, <2>2 DEF DisconnectStep, ReaderAwaited, Disconnected, CloseTarget, CallTypes, attemptVars
  <2> QED  BY <2>1, <2>2
<1>3. ASSUME NEW retry \in BOOLEAN, Disconnect(d, retry), LeaveCleanup(d)
      PROVE  LiveInv'
  <2>1. /\ closing /\ cancelled \subseteq cancelled' /\ UNCHANGED <<closing, transportConnected>>
        /\ disc' = [disc EXCEPT ![d].at = "over"]
    BY <1>3 DEF LeaveCleanup, StopAttempt
  <2>2. disc'[d].at = "over"  BY <1>1, <2>1 DEF CallTypes, DiscAt
  <2>3. ClosingIsQuiet' /\ LiveIsCurrent'  BY <1>1, <1>2, <2>1 DEF ClosingIsQuiet, LiveIsCurrent
  <2>4. OneOldCloser' /\ OneDisconnect'  BY <1>1, <1>2, <2>1, <2>2 DEF OneOldCloser, OneDisconnect
  <2>5. ReadingIsQuiet'  BY <1>1, <1>2, <2>1, <2>2 DEF ReadingIsQuiet
  <2> QED  BY <2>3, <2>4, <2>5 DEF LiveInv
<1>4. ASSUME NEW retry \in BOOLEAN, Disconnect(d, retry), TakeDown(d, retry)
      PROVE  LiveInv'
  <2>1. ~closing /\ transportConnected' = FALSE /\ StopAttempt  BY <1>4 DEF TakeDown
  <2>2. \A a \in Attempts : ~(attempt[a] \in {"starting", "opening", "handshaking"} /\ a \notin cancelled')
    BY <1>1, <2>1 DEF OneGoing, Going, StopAttempt, Running
  <2>3. \A e \in Disconnectors : disc[e].at \notin {"reading", "closing"}
    BY <1>1, <1>4, <2>1 DEF Disconnect, Settled, OneDisconnect
  <2>4. \A a \in Attempts : attempt'[a] # "closingOld"  BY <1>1, <1>2, <2>1 DEF OneOldCloser
  <2>5. \/ disc'[d].at = "over"
        \/ disc'[d].at = "closing" /\ closing'
        \/ disc'[d].at = "reading" /\ (disc'[d].of # None => closing')
    <3>1. CASE reader \in readers
      <4>1. PICK target : /\ closing' = (target # None)
                          /\ disc' = [disc EXCEPT ![d] = [at |-> "reading", of |-> target, reader |-> reader,
                                                           retry |-> retry]]
        BY <1>4, <3>1 DEF TakeDown
      <4>2. disc'[d].at = "reading" /\ disc'[d].of = target  BY <1>1, <4>1 DEF CallTypes
      <4> QED  BY <4>1, <4>2
    <3>2. ASSUME NEW target, CloseTarget(d, target, retry)
          PROVE  disc'[d].at = "over" \/ (disc'[d].at = "closing" /\ closing')
      BY <1>1, <3>2 DEF CloseTarget, CallTypes, DiscAt
    <3> QED  BY <1>4, <3>1, <3>2 DEF TakeDown
  <2>6. ClosingIsQuiet' /\ LiveIsCurrent'  BY <1>2, <2>1, <2>2 DEF ClosingIsQuiet, LiveIsCurrent
  <2>7. OneOldCloser' /\ OneDisconnect'  BY <1>2, <2>3, <2>4, <2>5 DEF OneOldCloser, OneDisconnect
  <2>8. ReadingIsQuiet'  BY <1>2, <2>1, <2>2 DEF ReadingIsQuiet
  <2> QED  BY <2>6, <2>7, <2>8 DEF LiveInv
<1>5. ASSUME DisconnectStep(d)
      PROVE  LiveInv'
  <2>1. /\ disc[d].at \in {"reading", "closing"} /\ UNCHANGED <<transportConnected, cancelled>>
        /\ disc[d].at = "reading" => CloseTarget(d, disc[d].of, disc[d].retry)
        /\ disc[d].at = "closing" => closing' = FALSE /\ disc' = [disc EXCEPT ![d].at = "over"]
    BY <1>5 DEF DisconnectStep, ReaderAwaited, Disconnected, attemptVars
  <2>2. ~transportConnected  BY <1>1, <2>1 DEF ReadingIsQuiet, OneDisconnect, ClosingIsQuiet
  <2>3. \/ closing' = FALSE /\ disc'[d].at = "over"
        \/ closing' = TRUE /\ disc'[d].at = "closing" /\ closing
    <3>1. CASE disc[d].at = "reading"
      BY <1>1, <2>1, <3>1 DEF CloseTarget, ToAwait, CallTypes, DiscAt, OneDisconnect, Attempts, None
    <3>2. CASE disc[d].at = "closing"  BY <1>1, <2>1, <3>2 DEF CallTypes, DiscAt
    <3> QED  BY <2>1, <3>1, <3>2
  <2>4. /\ \A a \in Attempts : attempt'[a] # "closingOld"
        /\ \A e \in Disconnectors : e # d => disc'[e].at \notin {"reading", "closing"}
    BY <1>1, <1>2, <2>1 DEF OneOldCloser, OneDisconnect
  <2>5. ClosingIsQuiet' /\ LiveIsCurrent'
    BY <1>1, <1>2, <2>1, <2>2, <2>3 DEF ClosingIsQuiet, LiveIsCurrent
  <2>6. OneOldCloser' /\ OneDisconnect'  BY <2>3, <2>4 DEF OneOldCloser, OneDisconnect
  <2>7. ReadingIsQuiet'  BY <2>3, <2>4 DEF ReadingIsQuiet
  <2> QED  BY <2>5, <2>6, <2>7 DEF LiveInv
<1> QED  BY <1>3, <1>4, <1>5 DEF Disconnect

LEMMA LiveStep ==
  ASSUME ~SameTurn, HiveInv, LiveInv, [Next]_vars
  PROVE  LiveInv'
<1>1. ASSUME NEW a \in Attempts, CarrierStep(a) \/ HubDrops(a)
      PROVE  LiveInv'
  <2>1. /\ UNCHANGED <<current, carrier, attempt, connecting, cancelled, closing, disc>>
        /\ transportConnected' => /\ transportConnected /\ stopped' = stopped
                                  /\ current \in readers \ ending => current \in readers' \ ending'
    BY <1>1 DEF CarrierStep, HubDrops, ReaderEnds, GivesUp, ReaderDone, CleanedUp, CleanupFails, linkVars, attemptVars,
      loopVars
  <2> QED  BY <2>1, LiveStutters
<1>2. ASSUME SendFails
      PROVE  LiveInv'
  BY <1>2, LiveStutters DEF SendFails, attemptVars, loopVars
<1>3. ASSUME UNCHANGED vars
      PROVE  LiveInv'
  BY <1>3, LiveStutters DEF vars, linkVars, attemptVars, loopVars
<1>4. ASSUME NEW a \in Attempts, AttemptStep(a)
      PROVE  LiveInv'
  BY <1>4, AttemptMoves, AttemptKeepsLive DEF HiveInv, HiveTypes
<1> QED  BY <1>1, <1>2, <1>3, <1>4, ConnectKeepsLive, DisconnectKeepsLive DEF Next

-----------------------------------------------------------------------------
(* HiveTransport: what the hub holds.                                          *)

(* A carrier that was closed is not held, and nothing opens it again.          *)
ClosedIsClosed ==
  \A c \in Attempts : cleanup[c] = "ok" => c \notin held /\ attempt[c] # "opening"

(* Cleanups do not fail.                                                       *)
NoneFailed == failedCleanup = None /\ \A c \in Attempts : cleanup[c] # "failed"

(* A task is not cancelled before its first turn.                              *)
CancelledHasRun == \A a \in Attempts : a \in cancelled => attempt[a] \notin {"none", "starting"}

(* Whoever waits for a cleanup has had it started.                             *)
AwaitedWasStarted ==
  /\ \A d \in Disconnectors : disc[d].at = "closing" =>
       disc[d].of \in Attempts /\ cleanup[disc[d].of] \in {"running", "ok"}
  /\ \A a \in Attempts : attempt[a] = "closingOld" =>
       old[a] \in Attempts /\ cleanup[old[a]] \in {"running", "ok"}

HeldInv == ClosedIsClosed /\ NoneFailed /\ CancelledHasRun /\ AwaitedWasStarted /\ NothingForgotten

LEMMA HeldInitial == Init => HeldInv
BY DEF Init, HeldInv, ClosedIsClosed, NoneFailed, CancelledHasRun, AwaitedWasStarted, NothingForgotten

LEMMA CloseStarts ==
  ASSUME AttemptTypes, NoneFailed, NEW c \in Attempts, NEW retry, CloseCarrier(c, retry)
  PROVE  \A b \in Attempts : cleanup'[b] = IF b = c /\ cleanup[b] = "none" THEN "running" ELSE cleanup[b]
BY DEF AttemptTypes, NoneFailed, CloseCarrier

(* A step that leaves every carrier with whoever has it.                       *)
LEMMA HeldStutters ==
  ASSUME HeldInv, UNCHANGED <<carrier, attempt, old, cancelled, failedCleanup, cleanup, disc>>, held' \subseteq held
  PROVE  HeldInv'
<1>1. ClosedIsClosed' /\ NoneFailed'  BY DEF HeldInv, ClosedIsClosed, NoneFailed
<1>2. CancelledHasRun' /\ AwaitedWasStarted'  BY DEF HeldInv, CancelledHasRun, AwaitedWasStarted
<1>3. NothingForgotten'  BY DEF HeldInv, NothingForgotten, Accounted
<1> QED  BY <1>1, <1>2, <1>3 DEF HeldInv

LEMMA ConnectKeepsHeld ==
  ASSUME HiveInv, HeldInv, NEW p \in Connectors, Connect(p) \/ ConnectStep(p)
  PROVE  HeldInv'
<1>1. NumberTypes /\ AttemptTypes /\ Numbered /\ held \subseteq Attempts  BY DEF HiveInv, HiveTypes, SetTypes
<1>2. /\ UNCHANGED <<failedCleanup, cleanup, held, disc>>
      /\ \/ UNCHANGED <<linkVars, attemptVars>>
         \/ \E stage \in {"first", "second"} : TakeOver(p, stage)
  BY DEF Connect, ConnectStep, ConnectResumes, ConnectOnce, carrierVars
<1>3. CASE UNCHANGED <<linkVars, attemptVars>>
  BY <1>2, <1>3, HeldStutters DEF linkVars, attemptVars
<1>4. CASE \E stage \in {"first", "second"} : TakeOver(p, stage)
  <2>1. /\ made' \in Attempts /\ attempt[made'] = "none" /\ attempt' = [attempt EXCEPT ![made'] = "starting"]
        /\ old' = [old EXCEPT ![made'] = carrier] /\ UNCHANGED cancelled
    BY <1>1, <1>4, AttemptBound DEF TakeOver, NumberTypes, Numbered, Attempts
  <2>2. /\ attempt'[made'] = "starting" /\ old'[made'] = carrier
        /\ \A a \in Attempts : a # made' => attempt'[a] = attempt[a] /\ old'[a] = old[a]
    BY <1>1, <2>1 DEF AttemptTypes
  <2>3. ClosedIsClosed' /\ NoneFailed'  BY <1>2, <2>1, <2>2 DEF HeldInv, ClosedIsClosed, NoneFailed
  <2>4. CancelledHasRun' /\ AwaitedWasStarted'
    BY <1>2, <2>1, <2>2 DEF HeldInv, CancelledHasRun, AwaitedWasStarted
  <2>5. NothingForgotten'
    <3> SUFFICES ASSUME NEW c \in held  PROVE  Accounted(c)'
      BY <1>2 DEF NothingForgotten
    <3>1. Accounted(c) /\ c \in Attempts /\ failedCleanup = None
      BY <1>1 DEF HeldInv, NothingForgotten, NoneFailed
    <3>2. CASE c = carrier  BY <2>1, <2>2, <3>2 DEF Accounted
    <3>3. CASE c # carrier
      BY <1>2, <2>1, <2>2, <3>1, <3>3 DEF Accounted, Attempts, None
    <3> QED  BY <3>2, <3>3
  <2> QED  BY <2>3, <2>4, <2>5 DEF HeldInv
<1> QED  BY <1>2, <1>3, <1>4

LEMMA AttemptKeepsHeld ==
  ASSUME ~CleanupMayFail, HiveInv, HeldInv, NEW a \in Attempts, AttemptMove(a)
  PROVE  HeldInv'
<1>1. /\ AttemptTypes /\ held \subseteq Attempts /\ carrier \in Maybe /\ NoCarrierYet /\ CarrierIsCurrents
      /\ ClosedIsClosed /\ NoneFailed /\ CancelledHasRun /\ AwaitedWasStarted /\ NothingForgotten
  BY DEF HiveInv, HiveTypes, SetTypes, NumberTypes, HeldInv
<1>2. /\ \A b \in Attempts : b # a => attempt'[b] = attempt[b]
      /\ UNCHANGED <<old, disc, failedCleanup>>
  BY DEF AttemptMove
<1>3. CASE AttBegins(a)
  <2>1. /\ attempt[a] = "starting" /\ attempt'[a] = "closingOld" /\ old[a] \in Attempts
        /\ CloseCarrier(old[a], FALSE) /\ a \notin cancelled /\ UNCHANGED <<carrier, cancelled, held>>
    BY <1>1, <1>3 DEF AttBegins, SameLink, AttemptTypes, Maybe
  <2>2. \A b \in Attempts : cleanup'[b] = IF b = old[a] /\ cleanup[b] = "none" THEN "running" ELSE cleanup[b]
    BY <1>1, <2>1, CloseStarts
  <2>3. ClosedIsClosed' /\ NoneFailed'  BY <1>1, <1>2, <2>1, <2>2 DEF ClosedIsClosed, NoneFailed
  <2>4. CancelledHasRun'  BY <1>1, <1>2, <2>1 DEF CancelledHasRun
  <2>5. AwaitedWasStarted'
    BY <1>1, <1>2, <2>1, <2>2 DEF AwaitedWasStarted, AttemptTypes, NoneFailed
  <2>6. NothingForgotten'
    <3> SUFFICES ASSUME NEW c \in held  PROVE  Accounted(c)'
      BY <2>1 DEF NothingForgotten
    <3>1. Accounted(c) /\ c \in Attempts  BY <1>1 DEF NothingForgotten
    <3> QED  BY <1>2, <2>1, <2>2, <3>1 DEF Accounted
  <2> QED  BY <2>3, <2>4, <2>5, <2>6 DEF HeldInv
<1>4. CASE AttOpens(a)
  <2>1. /\ attempt[a] \in {"starting", "closingOld"} /\ attempt'[a] = "opening" /\ a \notin cancelled
        /\ carrier' = a /\ UNCHANGED <<cancelled, cleanup, held>> /\ a = current
        /\ old[a] = None \/ cleanup[old[a]] = "ok"
    BY <1>4 DEF AttOpens, Valid
  <2>2. carrier = None /\ cleanup[a] = "none"  BY <1>1, <2>1 DEF CarrierIsCurrents, NoCarrierYet, Early
  <2>3. ClosedIsClosed' /\ NoneFailed'  BY <1>1, <1>2, <2>1, <2>2 DEF ClosedIsClosed, NoneFailed
  <2>4. CancelledHasRun' /\ AwaitedWasStarted'  BY <1>1, <1>2, <2>1 DEF CancelledHasRun, AwaitedWasStarted
  <2>5. NothingForgotten'
    <3> SUFFICES ASSUME NEW c \in held  PROVE  Accounted(c)'
      BY <2>1 DEF NothingForgotten
    <3>1. Accounted(c) /\ c \in Attempts /\ c # carrier /\ cleanup[c] # "ok" /\ c # None
      BY <1>1, <2>2 DEF NothingForgotten, ClosedIsClosed, Attempts, None
    <3> QED  BY <1>2, <2>1, <3>1 DEF Accounted
  <2> QED  BY <2>3, <2>4, <2>5 DEF HeldInv
<1>5. CASE AttShakes(a)
  <2>1. /\ attempt[a] = "opening" /\ attempt'[a] = "handshaking" /\ held' = held \cup {a}
        /\ a \notin cancelled /\ UNCHANGED <<carrier, cancelled, cleanup>>
    BY <1>5 DEF AttShakes, SameLink
  <2>2. ClosedIsClosed' /\ NoneFailed'  BY <1>1, <1>2, <2>1 DEF ClosedIsClosed, NoneFailed
  <2>3. CancelledHasRun' /\ AwaitedWasStarted'  BY <1>1, <1>2, <2>1 DEF CancelledHasRun, AwaitedWasStarted
  <2>4. NothingForgotten'  BY <1>1, <1>2, <2>1 DEF NothingForgotten, Accounted
  <2> QED  BY <2>2, <2>3, <2>4 DEF HeldInv
<1>6. CASE AttComesUp(a)
  <2>1. /\ attempt[a] = "handshaking" /\ attempt'[a] = "up" /\ a = current
        /\ UNCHANGED <<carrier, cancelled, cleanup, held>>
    BY <1>6 DEF AttComesUp, Valid
  <2>2. carrier = a  BY <1>1, <2>1 DEF CarrierIsCurrents
  <2>3. ClosedIsClosed' /\ NoneFailed'  BY <1>1, <1>2, <2>1 DEF ClosedIsClosed, NoneFailed
  <2>4. CancelledHasRun' /\ AwaitedWasStarted'  BY <1>1, <1>2, <2>1 DEF CancelledHasRun, AwaitedWasStarted
  <2>5. NothingForgotten'  BY <1>1, <1>2, <2>1, <2>2 DEF NothingForgotten, Accounted
  <2> QED  BY <2>3, <2>4, <2>5 DEF HeldInv
<1>7. CASE AttFails(a)
  <2>1. /\ attempt[a] \in {"starting", "closingOld"} /\ attempt'[a] = "over" /\ cancelled' = cancelled \ {a}
        /\ UNCHANGED <<cleanup, held>>
        /\ carrier' = carrier \/ (a = current /\ carrier' = None)
    BY <1>7 DEF AttFails, LoseLink, SameLink
  <2>2. \/ old[a] = None
        \/ old[a] \in Attempts /\ cleanup[old[a]] \in {"running", "ok"}
    BY <1>1, <1>7, <2>1 DEF AttFails, CancelledHasRun, AwaitedWasStarted
  <2>3. carrier' = carrier  BY <1>1, <2>1 DEF CarrierIsCurrents
  <2>4. ClosedIsClosed' /\ NoneFailed'  BY <1>1, <1>2, <2>1 DEF ClosedIsClosed, NoneFailed
  <2>5. CancelledHasRun' /\ AwaitedWasStarted'  BY <1>1, <1>2, <2>1 DEF CancelledHasRun, AwaitedWasStarted
  <2>6. NothingForgotten'
    <3> SUFFICES ASSUME NEW c \in held  PROVE  Accounted(c)'
      BY <2>1 DEF NothingForgotten
    <3>1. Accounted(c) /\ c \in Attempts /\ cleanup[c] # "ok" /\ c # None
      BY <1>1 DEF NothingForgotten, ClosedIsClosed, Attempts, None
    <3> QED  BY <1>2, <2>1, <2>2, <2>3, <3>1 DEF Accounted
  <2> QED  BY <2>4, <2>5, <2>6 DEF HeldInv
<1>8. CASE AttAborts(a)
  <2>1. /\ attempt[a] \in {"opening", "handshaking"} /\ attempt'[a] = "aborting" /\ cancelled' = cancelled \ {a}
        /\ CloseCarrier(a, FALSE)
        /\ held' = held \/ (attempt[a] = "opening" /\ held' = held \cup {a})
        /\ carrier' = carrier \/ (a = current /\ carrier' = None)
    BY <1>8 DEF AttAborts, LoseLink
  <2>2. \A b \in Attempts : cleanup'[b] = IF b = a /\ cleanup[b] = "none" THEN "running" ELSE cleanup[b]
    BY <1>1, <2>1, CloseStarts
  <2>3. a \in held' => cleanup'[a] = "running"
    BY <1>1, <2>1, <2>2 DEF ClosedIsClosed, AttemptTypes, NoneFailed
  <2>4. carrier' = carrier \/ carrier = a  BY <1>1, <2>1 DEF CarrierIsCurrents
  <2>5. ClosedIsClosed'  BY <1>1, <1>2, <2>1, <2>2, <2>3 DEF ClosedIsClosed
  <2>6. NoneFailed'  BY <1>1, <1>2, <2>2 DEF NoneFailed
  <2>7. CancelledHasRun' /\ AwaitedWasStarted'
    BY <1>1, <1>2, <2>1, <2>2 DEF CancelledHasRun, AwaitedWasStarted
  <2>8. NothingForgotten'
    <3> SUFFICES ASSUME NEW c \in held', c # a  PROVE  Accounted(c)'
      BY <2>3 DEF NothingForgotten, Accounted
    <3>1. c \in held /\ Accounted(c) /\ c \in Attempts  BY <1>1, <2>1 DEF NothingForgotten
    <3> QED  BY <1>2, <2>1, <2>2, <2>4, <3>1 DEF Accounted
  <2> QED  BY <2>5, <2>6, <2>7, <2>8 DEF HeldInv
<1>9. CASE AttEnds(a)
  <2>1. /\ attempt[a] = "aborting" /\ attempt'[a] = "over" /\ cancelled' = cancelled \ {a}
        /\ UNCHANGED <<carrier, cleanup, held>>
    BY <1>9 DEF AttEnds, SameLink
  <2>2. ClosedIsClosed' /\ NoneFailed'  BY <1>1, <1>2, <2>1 DEF ClosedIsClosed, NoneFailed
  <2>3. CancelledHasRun' /\ AwaitedWasStarted'  BY <1>1, <1>2, <2>1 DEF CancelledHasRun, AwaitedWasStarted
  <2>4. NothingForgotten'  BY <1>1, <1>2, <2>1 DEF NothingForgotten, Accounted
  <2> QED  BY <2>2, <2>3, <2>4 DEF HeldInv
<1> QED  BY <1>3, <1>4, <1>5, <1>6, <1>7, <1>8, <1>9 DEF AttemptMove

LEMMA CarrierKeepsHeld ==
  ASSUME ~CleanupMayFail, HiveInv, HeldInv, (\E a \in Attempts : CarrierStep(a) \/ HubDrops(a)) \/ SendFails
  PROVE  HeldInv'
<1>1. /\ AttemptTypes
      /\ ClosedIsClosed /\ NoneFailed /\ CancelledHasRun /\ AwaitedWasStarted /\ NothingForgotten
  BY DEF HiveInv, HiveTypes, HeldInv
<1>2. ASSUME NEW a \in Attempts, CleanedUp(a)
      PROVE  HeldInv'
  <2>1. /\ cleanup[a] = "running" /\ attempt[a] # "opening" /\ held' = held \ {a}
        /\ UNCHANGED <<carrier, attempt, old, cancelled, failedCleanup, disc>>
        /\ cleanup'[a] = "ok" /\ \A b \in Attempts : b # a => cleanup'[b] = cleanup[b]
    BY <1>1, <1>2 DEF CleanedUp, linkVars, attemptVars, AttemptTypes, NoneFailed
  <2>2. ClosedIsClosed' /\ NoneFailed'  BY <1>1, <2>1 DEF ClosedIsClosed, NoneFailed
  <2>3. CancelledHasRun'  BY <1>1, <2>1 DEF CancelledHasRun
  <2>4. AwaitedWasStarted'  BY <1>1, <2>1 DEF AwaitedWasStarted
  <2>5. NothingForgotten'
    <3> SUFFICES ASSUME NEW c \in held'  PROVE  Accounted(c)'
      BY DEF NothingForgotten
    <3>1. c \in held /\ c # a /\ Accounted(c)  BY <1>1, <2>1 DEF NothingForgotten
    <3>2. cleanup[c] = "running" => cleanup'[c] = "running"
      BY <1>2, <2>1, <3>1 DEF CleanedUp
    <3> QED  BY <2>1, <3>1, <3>2 DEF Accounted
  <2> QED  BY <2>2, <2>3, <2>4, <2>5 DEF HeldInv
<1>3. ASSUME NEW a \in Attempts, ReaderEnds(a) \/ ReaderDone(a) \/ HubDrops(a)
      PROVE  HeldInv'
  BY <1>3, HeldStutters DEF ReaderEnds, GivesUp, ReaderDone, HubDrops, linkVars, attemptVars, carrierVars
<1>4. ASSUME SendFails
      PROVE  HeldInv'
  BY <1>4, HeldStutters DEF SendFails, attemptVars
<1> QED  BY <1>2, <1>3, <1>4 DEF CarrierStep, CleanupFails

LEMMA TargetKeepsHeld ==
  ASSUME AttemptTypes, CallTypes, NoneFailed, NEW d \in Disconnectors, NEW target \in Maybe, NEW retry \in BOOLEAN,
         CloseTarget(d, target, retry)
  PROVE  /\ \A b \in Attempts : cleanup'[b] = cleanup[b] \/ (cleanup[b] = "none" /\ cleanup'[b] = "running")
         /\ \A e \in Disconnectors : e # d => disc'[e] = disc[e]
         /\ \/ /\ disc'[d].at = "closing" /\ disc'[d].of = target /\ target \in Attempts
               /\ cleanup'[target] \in {"running", "ok"}
            \/ disc'[d].at = "over" /\ (target = None \/ cleanup[target] = "ok")
<1>1. CASE target \in ToAwait(retry)
  <2>1. /\ target \in Attempts /\ CloseCarrier(target, retry)
        /\ disc' = [disc EXCEPT ![d] = [at |-> "closing", of |-> target, reader |-> None, retry |-> retry]]
    BY <1>1 DEF CloseTarget, ToAwait
  <2>2. \A b \in Attempts : cleanup'[b] = IF b = target /\ cleanup[b] = "none" THEN "running" ELSE cleanup[b]
    BY <2>1, CloseStarts
  <2>3. cleanup[target] \in {"none", "running", "ok"}  BY <2>1 DEF AttemptTypes, NoneFailed
  <2>4. disc'[d].at = "closing" /\ disc'[d].of = target /\ \A e \in Disconnectors : e # d => disc'[e] = disc[e]
    BY <2>1 DEF CallTypes
  <2> QED  BY <2>1, <2>2, <2>3, <2>4
<1>2. CASE target \notin ToAwait(retry)
  <2>1. disc' = [disc EXCEPT ![d].at = "over"] /\ UNCHANGED cleanup  BY <1>2 DEF CloseTarget
  <2>2. disc'[d].at = "over" /\ \A e \in Disconnectors : e # d => disc'[e] = disc[e]
    BY <2>1 DEF CallTypes, DiscAt
  <2>3. target = None \/ cleanup[target] = "ok"
    BY <1>2 DEF ToAwait, Maybe, AttemptTypes, NoneFailed
  <2> QED  BY <2>1, <2>2, <2>3
<1> QED  BY <1>1, <1>2

LEMMA DisconnectKeepsHeld ==
  ASSUME ~SameTurn, HiveInv, HeldInv, NEW d \in Disconnectors,
         (\E retry \in BOOLEAN : Disconnect(d, retry)) \/ DisconnectStep(d)
  PROVE  HeldInv'
<1>1. /\ AttemptTypes /\ CallTypes /\ held \subseteq Attempts /\ carrier \in Maybe
      /\ ClosedIsClosed /\ NoneFailed /\ CancelledHasRun /\ AwaitedWasStarted /\ NothingForgotten
  BY DEF HiveInv, HiveTypes, SetTypes, NumberTypes, HeldInv
<1>2. UNCHANGED <<attempt, old, failedCleanup, held>>
  BY DEF Disconnect, LeaveCleanup, TakeDown, DisconnectStep, ReaderAwaited, Disconnected, attemptVars
<1>3. CancelledHasRun'
  <2>1. CASE \E retry \in BOOLEAN : Disconnect(d, retry)
    BY <1>1, <1>2, <2>1 DEF Disconnect, Settled, LeaveCleanup, TakeDown, StopAttempt, Running, CancelledHasRun
  <2>2. CASE DisconnectStep(d)
    BY <1>1, <1>2, <2>2 DEF DisconnectStep, ReaderAwaited, Disconnected, attemptVars, CancelledHasRun
  <2> QED  BY <2>1, <2>2
(* In every case the cleanups go on, nobody else's call moves, and what was    *)
(* this call's or the link's is this call's now or was closed before.          *)
<1>4. ASSUME \A b \in Attempts : cleanup'[b] = cleanup[b] \/ (cleanup[b] = "none" /\ cleanup'[b] = "running"),
             \A e \in Disconnectors : e # d => disc'[e] = disc[e],
             disc'[d].at = "closing" => disc'[d].of \in Attempts /\ cleanup'[disc'[d].of] \in {"running", "ok"},
             \A c \in held : c = carrier \/ (disc[d].at \in {"reading", "closing"} /\ disc[d].of = c) =>
               \/ c = carrier' \/ cleanup[c] = "ok" \/ (disc'[d].at \in {"reading", "closing"} /\ disc'[d].of = c)
      PROVE  HeldInv'
  <2>1. ClosedIsClosed' /\ NoneFailed'  BY <1>1, <1>2, <1>4 DEF ClosedIsClosed, NoneFailed
  <2>2. AwaitedWasStarted'
    <3>1. ASSUME NEW e \in Disconnectors, disc'[e].at = "closing"
          PROVE  disc'[e].of \in Attempts /\ cleanup'[disc'[e].of] \in {"running", "ok"}
      BY <1>1, <1>4, <3>1 DEF AwaitedWasStarted
    <3>2. ASSUME NEW a \in Attempts, attempt'[a] = "closingOld"
          PROVE  old'[a] \in Attempts /\ cleanup'[old'[a]] \in {"running", "ok"}
      BY <1>1, <1>2, <1>4, <3>2 DEF AwaitedWasStarted
    <3> QED  BY <3>1, <3>2 DEF AwaitedWasStarted
  <2>3. NothingForgotten'
    <3> SUFFICES ASSUME NEW c \in held  PROVE  Accounted(c)'
      BY <1>2 DEF NothingForgotten
    <3>1. Accounted(c) /\ c \in Attempts /\ cleanup[c] # "ok" /\ c # failedCleanup
      BY <1>1 DEF NothingForgotten, ClosedIsClosed, NoneFailed, Attempts, None
    <3>2. CASE c = carrier \/ (disc[d].at \in {"reading", "closing"} /\ disc[d].of = c)
      BY <1>4, <3>1, <3>2 DEF Accounted
    <3>3. CASE ~(c = carrier \/ (disc[d].at \in {"reading", "closing"} /\ disc[d].of = c))
      BY <1>2, <1>4, <3>1, <3>3 DEF Accounted
    <3> QED  BY <3>2, <3>3
  <2> QED  BY <1>3, <2>1, <2>2, <2>3 DEF HeldInv
<1>5. ASSUME NEW retry \in BOOLEAN, Disconnect(d, retry), LeaveCleanup(d)
      PROVE  HeldInv'
  <2>1. disc' = [disc EXCEPT ![d].at = "over"] /\ UNCHANGED <<carrier, cleanup>> /\ disc[d].at = "new"
    BY <1>5 DEF LeaveCleanup, Disconnect
  <2>2. disc'[d].at = "over" /\ \A e \in Disconnectors : e # d => disc'[e] = disc[e]
    BY <1>1, <2>1 DEF CallTypes, DiscAt
  <2> QED  BY <1>4, <2>1, <2>2
<1>6. ASSUME NEW retry \in BOOLEAN, Disconnect(d, retry), TakeDown(d, retry)
      PROVE  HeldInv'
  <2>1. disc[d].at = "new" /\ failedCleanup = None  BY <1>1, <1>6 DEF Disconnect, NoneFailed
  <2>2. CASE reader \in readers
    <3>1. /\ UNCHANGED cleanup
          /\ disc' = [disc EXCEPT ![d] = [at |-> "reading", of |-> carrier, reader |-> reader, retry |-> retry]]
      BY <1>6, <2>1, <2>2 DEF TakeDown
    <3>2. /\ disc'[d].at = "reading" /\ disc'[d].of = carrier
          /\ \A e \in Disconnectors : e # d => disc'[e] = disc[e]
      BY <1>1, <3>1 DEF CallTypes
    <3> QED  BY <1>4, <2>1, <3>1, <3>2
  <2>3. CASE reader \notin readers
    <3>1. CloseTarget(d, carrier, retry)  BY <1>6, <2>1, <2>3 DEF TakeDown
    <3>2. /\ \A b \in Attempts : cleanup'[b] = cleanup[b] \/ (cleanup[b] = "none" /\ cleanup'[b] = "running")
          /\ \A e \in Disconnectors : e # d => disc'[e] = disc[e]
          /\ \/ /\ disc'[d].at = "closing" /\ disc'[d].of = carrier /\ carrier \in Attempts
                /\ cleanup'[carrier] \in {"running", "ok"}
             \/ disc'[d].at = "over" /\ (carrier = None \/ cleanup[carrier] = "ok")
      BY <1>1, <3>1, TargetKeepsHeld
    <3>3. None \notin held  BY <1>1 DEF Attempts, None
    <3> QED  BY <1>4, <2>1, <3>2, <3>3
  <2> QED  BY <2>2, <2>3
<1>7. ASSUME ReaderAwaited(d)
      PROVE  HeldInv'
  <2> DEFINE target == disc[d].of
  <2>1. target \in Maybe /\ disc[d].retry \in BOOLEAN  BY <1>1 DEF CallTypes, DiscAt
  <2>2. disc[d].at = "reading" /\ CloseTarget(d, target, disc[d].retry) /\ UNCHANGED carrier
    BY <1>7 DEF ReaderAwaited
  <2> HIDE DEF target
  <2>3. /\ \A b \in Attempts : cleanup'[b] = cleanup[b] \/ (cleanup[b] = "none" /\ cleanup'[b] = "running")
        /\ \A e \in Disconnectors : e # d => disc'[e] = disc[e]
        /\ \/ /\ disc'[d].at = "closing" /\ disc'[d].of = target /\ target \in Attempts
              /\ cleanup'[target] \in {"running", "ok"}
           \/ disc'[d].at = "over" /\ (target = None \/ cleanup[target] = "ok")
    BY <1>1, <2>1, <2>2, TargetKeepsHeld
  <2>4. None \notin held  BY <1>1 DEF Attempts, None
  <2> QED  BY <1>4, <2>2, <2>3, <2>4 DEF target
<1>8. ASSUME Disconnected(d)
      PROVE  HeldInv'
  <2>1. /\ disc[d].at = "closing" /\ cleanup[disc[d].of] = "ok" /\ UNCHANGED <<carrier, cleanup>>
        /\ disc' = [disc EXCEPT ![d].at = "over"]
    BY <1>1, <1>8 DEF Disconnected, AwaitedWasStarted
  <2>2. disc'[d].at = "over" /\ \A e \in Disconnectors : e # d => disc'[e] = disc[e]
    BY <1>1, <2>1 DEF CallTypes, DiscAt
  <2> QED  BY <1>4, <2>1, <2>2
<1> QED  BY <1>5, <1>6, <1>7, <1>8 DEF Disconnect, DisconnectStep

LEMMA HeldStep ==
  ASSUME ~SameTurn, ~CleanupMayFail, HiveInv, HeldInv, [Next]_vars
  PROVE  HeldInv'
<1>1. ASSUME NEW a \in Attempts, AttemptStep(a)
      PROVE  HeldInv'
  BY <1>1, AttemptMoves, AttemptKeepsHeld DEF HiveInv, HiveTypes
<1>2. ASSUME UNCHANGED vars
      PROVE  HeldInv'
  BY <1>2, HeldStutters DEF vars, linkVars, attemptVars, carrierVars
<1> QED  BY <1>1, <1>2, ConnectKeepsHeld, CarrierKeepsHeld, DisconnectKeepsHeld DEF Next

-----------------------------------------------------------------------------
(* What takes the live link down.                                              *)
Reasons ==
  \/ current' = current /\ carrier \in broken' /\ stopped'
  \/ connecting' /\ current' # current /\ carrier \in broken
  \/ current' = None /\ (stopped' \/ Disconnecting')

(* A cleanup ends, and has failed.                                             *)
OneFails == CleanupMayFail /\ \E c \in Attempts : cleanup[c] = "running" /\ cleanup'[c] = "failed"

LEMMA OwnEndDrops ==
  ASSUME ~SameTurn, HiveInv, LiveInv, [Next]_vars, transportConnected, ~transportConnected'
  PROVE  Reasons \/ OneFails
<1>1. /\ AttemptTypes /\ Numbered /\ NumberTypes /\ FlagTypes /\ CallTypes
      /\ current \in Attempts /\ carrier = current /\ attempt[current] = "up"
  BY DEF HiveInv, HiveTypes, LiveInv, LiveIsCurrent, NumberTypes, Maybe
<1>2. ASSUME NEW p \in Connectors, Connect(p) \/ ConnectStep(p)
      PROVE  Reasons
  <2>1. ~Refused /\ \E stage \in {"first", "second"} : TakeOver(p, stage)
    BY <1>2 DEF Connect, ConnectStep, ConnectResumes, ConnectOnce, linkVars
  <2>2. connecting' /\ current' # current  BY <1>1, <2>1, AttemptBound DEF TakeOver, Numbered, NumberTypes
  <2> QED  BY <2>1, <2>2 DEF Refused, IsConnected, Reasons
<1>3. ASSUME NEW a \in Attempts, AttemptStep(a)
      PROVE  FALSE
  <2>1. AttemptMove(a)  BY <1>1, <1>3, AttemptMoves
  <2> QED  BY <1>1, <2>1 DEF AttemptMove, AttBegins, AttOpens, AttShakes, AttComesUp, AttFails, AttAborts, AttEnds,
             SameLink, LoseLink
<1>4. ASSUME NEW a \in Attempts, CarrierStep(a) \/ HubDrops(a)
      PROVE  Reasons \/ OneFails
  <2>1. ReaderEnds(a) \/ CleanupFails(a)
    BY <1>4 DEF CarrierStep, HubDrops, ReaderDone, CleanedUp, linkVars
  <2>2. CASE ReaderEnds(a)  BY <1>1, <2>2 DEF ReaderEnds, GivesUp, carrierVars, Reasons
  <2>3. CASE CleanupFails(a)
    <3>1. cleanup'[a] = "failed"  BY <1>1, <2>3 DEF CleanupFails, AttemptTypes
    <3> QED  BY <2>3, <3>1 DEF CleanupFails, OneFails
  <2> QED  BY <2>1, <2>2, <2>3
<1>5. ASSUME NEW d \in Disconnectors, (\E retry \in BOOLEAN : Disconnect(d, retry)) \/ DisconnectStep(d)
      PROVE  Reasons
  <2>1. PICK retry \in BOOLEAN : Disconnect(d, retry) /\ TakeDown(d, retry)
    BY <1>5 DEF Disconnect, LeaveCleanup, DisconnectStep, ReaderAwaited, Disconnected
  <2>2. CASE reader \in readers
    <3>1. PICK target :
            disc' = [disc EXCEPT ![d] = [at |-> "reading", of |-> target, reader |-> reader, retry |-> retry]]
      BY <2>1, <2>2 DEF TakeDown
    <3>2. disc'[d].at = "reading"  BY <1>1, <3>1 DEF CallTypes
    <3> QED  BY <2>1, <3>2 DEF TakeDown, Disconnecting, Reasons
  <2>3. CASE reader \notin readers
    <3>1. PICK target : CloseTarget(d, target, retry)  BY <2>1, <2>3 DEF TakeDown
    <3>2. CASE target \in ToAwait(retry)
      <4>1. disc' = [disc EXCEPT ![d] = [at |-> "closing", of |-> target, reader |-> None, retry |-> retry]]
        BY <3>1, <3>2 DEF CloseTarget
      <4>2. disc'[d].at = "closing"  BY <1>1, <4>1 DEF CallTypes
      <4> QED  BY <2>1, <4>2 DEF TakeDown, Disconnecting, Reasons
    <3>3. CASE target \notin ToAwait(retry)
      BY <2>1, <3>1, <3>3 DEF CloseTarget, TakeDown, Reasons
    <3> QED  BY <3>2, <3>3
  <2> QED  BY <2>2, <2>3
<1>6. ASSUME SendFails
      PROVE  Reasons
  BY <1>6 DEF SendFails, Reasons
<1>7. ~UNCHANGED vars  BY DEF vars, linkVars
<1> QED  BY <1>2, <1>3, <1>4, <1>5, <1>6, <1>7 DEF Next

(* A HiveMind link goes down for a reason of its own, whatever the carriers and *)
(* however many calls overlap, with one exception: the cleanup of a carrier     *)
(* that fails, whosever that carrier was (_hive.py 590-602, 757-811, 843-919).  *)
EndsOrOneFails ==
  [][(transportConnected /\ ~transportConnected') => Reasons \/ OneFails]_vars

THEOREM OnlyAFailedCleanupDrops ==
  ASSUME ~SameTurn
  PROVE  Spec => EndsOrOneFails
<1>1. HiveInv /\ LiveInv /\ [Next]_vars
        => [(transportConnected /\ ~transportConnected') => Reasons \/ OneFails]_vars
  BY OwnEndDrops
<1>2. HiveInv /\ LiveInv /\ [Next]_vars => (HiveInv /\ LiveInv)'  BY HiveStep, LiveStep
<1> QED  BY <1>1, <1>2, HiveInitial, LiveInitial, PTL DEF Spec, EndsOrOneFails

(* A link that says it is up is its current attempt's, with its read loop      *)
(* running, however connects and disconnects overlap and whatever fails, a     *)
(* cleanup included (_hive.py 555-870).                                        *)
THEOREM LinkIsCurrent ==
  ASSUME ~SameTurn
  PROVE  Spec => []LiveIsCurrent
<1>1. HiveInv /\ LiveInv /\ [Next]_vars => (HiveInv /\ LiveInv)'  BY HiveStep, LiveStep
<1>2. LiveInv => LiveIsCurrent  BY DEF LiveInv
<1> QED  BY <1>1, <1>2, HiveInitial, LiveInitial, PTL DEF Spec

(* Nothing the hub holds is forgotten, over a carrier whose cleanup ends: each *)
(* socket has an owner that will close it (_hive.py 757-870).                  *)
THEOREM HubHoldsNothingForgotten ==
  ASSUME ~SameTurn, ~CleanupMayFail
  PROVE  Spec => []NothingForgotten
<1>1. HiveInv /\ HeldInv /\ [Next]_vars => (HiveInv /\ HeldInv)'  BY HiveStep, HeldStep
<1>2. HeldInv => NothingForgotten  BY DEF HeldInv
<1> QED  BY <1>1, <1>2, HiveInitial, HeldInitial, PTL DEF Spec

-----------------------------------------------------------------------------
(* MqttTransport: generations, clients and dialers. A client past the bound    *)
(* has no entry in any table, so nothing is said of it.                        *)
Numbers == /\ client \in Nat /\ generation \in Nat /\ built \in Nat /\ closes \in Nat
           /\ has \in [Dialers -> Nat] /\ gen \in [Dialers -> Nat] /\ place \in [Dialers -> Places]
           /\ mqttConnecting \in BOOLEAN
Tables ==
  /\ socket \in [Clients -> {"none", "open", "shut"}] /\ gone \in [Clients -> BOOLEAN] /\ cleaned \in [Clients -> BOOLEAN]
  /\ inbox \in [Clients -> Seq(Nat)] /\ sent \in [Clients -> Nat] /\ given \in [Clients -> Nat]

Active(d) == place[d] \notin {"idle", "over"}
Reserved(d) == place[d] \in {"cleans", "builds"}

(* A generation is one attempt's.                                              *)
OwnGeneration ==
  \A d \in Dialers :
    /\ gen[d] <= generation /\ (Active(d) => gen[d] > 0)
    /\ \A e \in Dialers : gen[d] = gen[e] => d = e \/ gen[d] = 0

(* The attempt of the current generation has no client before it installs one, *)
(* and nobody else's after.                                                    *)
OwnClient ==
  \A d \in Dialers : Active(d) /\ gen[d] = generation =>
    /\ client = NoOne \/ (client = has[d] /\ ~Reserved(d))
    /\ Reserved(d) /\ mqttConnecting => "handshake" \notin flags

(* A client that was not built yet has been given nothing.                     *)
Unbuilt ==
  /\ client <= built /\ closes <= built /\ \A d \in Dialers : has[d] <= built
  /\ \A c \in Clients : c > built => ~gone[c] /\ inbox[c] = <<>> /\ sent[c] = 0 /\ given[c] = 0

(* What waits in the queue of a session that goes on is what was sent last.    *)
QueueIsNext ==
  \A c \in Clients : c = client /\ ~gone[c] =>
    sent[c] = given[c] + Len(inbox[c]) /\ \A i \in 1..Len(inbox[c]) : inbox[c][i] = given[c] + i

(* Whoever has shaken hands has read a frame.                                  *)
ShakenHasRead == "handshake" \in flags /\ client # NoOne => client \in Clients /\ given[client] > 0

(* A client that was cleaned up has no socket, but one whose dial came late.   *)
CleanedIsShut ==
  /\ \A c \in Clients : cleaned[c] => gone[c]
  /\ \A c \in Clients : cleaned[c] /\ socket[c] = "open" => \E d \in Dialers : place[d] = "dialled" /\ has[d] = c
  /\ \A d \in Dialers : place[d] = "builds" /\ has[d] \in Clients => cleaned[has[d]]
  /\ closer # "closes" => closes = NoOne

MqttInv == /\ Numbers /\ Tables /\ OwnGeneration /\ OwnClient /\ Unbuilt /\ QueueIsNext /\ ShakenHasRead
           /\ CleanedIsShut /\ NoStraySocket

LEMMA MqttInitial == MqttInit => MqttInv
<1> SUFFICES ASSUME MqttInit PROVE MqttInv  OBVIOUS
<1> USE DEF MqttInit, NoOne
<1>1. Numbers  BY DEF Numbers, Places
<1>2. Tables  BY DEF Tables
<1>3. OwnGeneration /\ OwnClient  BY DEF OwnGeneration, OwnClient, Active
<1>4. Unbuilt  BY DEF Unbuilt, Clients
<1>5. QueueIsNext /\ ShakenHasRead  BY DEF QueueIsNext, ShakenHasRead, Clients
<1>6. CleanedIsShut /\ NoStraySocket  BY DEF CleanedIsShut, NoStraySocket
<1> QED  BY <1>1, <1>2, <1>3, <1>4, <1>5, <1>6 DEF MqttInv

-----------------------------------------------------------------------------
(* What a client's tables become.                                              *)
LEMMA PutGives ==
  ASSUME Tables, NEW c \in Clients, NEW f \in Nat
  PROVE  Put(c, f) \in [Clients -> Seq(Nat)] /\ \A b \in Clients : b # c => Put(c, f)[b] = inbox[b]
BY DEF Put, Tables

LEMMA CleansGives ==
  ASSUME Tables, NEW c, Cleans(c)
  PROVE  /\ socket' \in [Clients -> {"none", "open", "shut"}] /\ gone' \in [Clients -> BOOLEAN]
         /\ cleaned' \in [Clients -> BOOLEAN] /\ inbox' \in [Clients -> Seq(Nat)] /\ UNCHANGED <<sent, given, worker>>
         /\ \A b \in Clients : b # c =>
              socket'[b] = socket[b] /\ gone'[b] = gone[b] /\ cleaned'[b] = cleaned[b] /\ inbox'[b] = inbox[b]
         /\ c \in Clients /\ c # NoOne => cleaned'[c]
         /\ c \in Clients => \/ gone'[c] = gone[c] /\ cleaned'[c] = cleaned[c] /\ inbox'[c] = inbox[c] /\ socket'[c] = socket[c]
                             \/ gone'[c] /\ socket'[c] # "open"
<1>1. CASE c = NoOne \/ cleaned[c]
  BY <1>1 DEF Cleans, clientVars, Tables
<1>2. CASE c # NoOne /\ ~cleaned[c]
  <2>1. /\ gone' = [gone EXCEPT ![c] = TRUE] /\ cleaned' = [cleaned EXCEPT ![c] = TRUE] /\ inbox' = Put(c, Stop)
        /\ socket' = [socket EXCEPT ![c] = IF @ = "open" THEN "shut" ELSE @] /\ UNCHANGED <<worker, sent, given>>
    BY <1>2 DEF Cleans, Shuts
  <2>2. CASE c \in Clients
    <3>1. inbox' \in [Clients -> Seq(Nat)] /\ \A b \in Clients : b # c => inbox'[b] = inbox[b]
      BY <2>1, <2>2, PutGives DEF Stop
    <3> QED  BY <2>1, <2>2, <3>1 DEF Tables
  <2>3. CASE c \notin Clients
    <3>1. Put(c, Stop) = inbox  BY <2>3 DEF Put, Tables
    <3> QED  BY <2>1, <2>3, <3>1 DEF Tables
  <2> QED  BY <2>2, <2>3
<1> QED  BY <1>1, <1>2

-----------------------------------------------------------------------------
(* Types.                                                                      *)
DialerMoves == \E d \in Dialers : Reserve(d) \/ DialerStep(d)
CallbackMoves ==
  \E c \in Clients : OnConnect(c) \/ OnSubscribe(c) \/ OnDisconnect(c) \/ OnMessage(c) \/ WorkerEnds(c) \/ Handle(c)
                     \/ HandleFails(c)
CloserMoves == MqttDisconnect \/ MqttDisconnected \/ MqttSendFails

LEMMA DialerTypes ==
  ASSUME Numbers, NEW d \in Dialers, Reserve(d) \/ DialerStep(d)
  PROVE  Numbers'
<1> USE DEF Numbers, Places, Go, NoOne, state, counts, closers
<1>1. CASE Reserve(d)
  <2>1. /\ place' \in [Dialers -> Places] /\ UNCHANGED <<built, closes>> /\ client' \in {client, 0}
        /\ has' \in {has, [has EXCEPT ![d] = client]}
    BY <1>1 DEF Reserve
  <2>3. mqttConnecting' \in BOOLEAN  BY <1>1 DEF Reserve
  <2>2. \/ UNCHANGED <<generation, gen>>
        \/ generation' = generation + 1 /\ gen' = [gen EXCEPT ![d] = generation + 1]
    BY <1>1 DEF Reserve
  <2>4. generation' \in Nat /\ gen' \in [Dialers -> Nat]  BY <2>2
  <2>5. has' \in [Dialers -> Nat] /\ client' \in Nat  BY <2>1
  <2> QED  BY <2>1, <2>3, <2>4, <2>5
<1>2. CASE Cleaned(d)  BY <1>2 DEF Cleaned
<1>3. CASE Install(d)  BY <1>3 DEF Install
<1>4. CASE StartWorker(d) \/ Dial(d) \/ Dialled(d)  BY <1>4 DEF StartWorker, Dial, Dialled
<1>5. CASE Waited(d) \/ TimedOut(d)  BY <1>5 DEF Waited, TimedOut
<1>6. CASE Finish(d)  BY <1>6 DEF Finish
<1>7. CASE MqttAborts(d)
  <2>1. /\ place' \in [Dialers -> Places] /\ UNCHANGED <<generation, has, gen, built, closes>>
        /\ client' \in {client, 0}
    BY <1>7 DEF MqttAborts
  <2>2. mqttConnecting' \in BOOLEAN  BY <1>7 DEF MqttAborts
  <2> QED  BY <2>1, <2>2
<1>8. CASE MqttAborted(d) \/ Retry(d)  BY <1>8 DEF MqttAborted, Retry
<1> QED  BY <1>1, <1>2, <1>3, <1>4, <1>5, <1>6, <1>7, <1>8 DEF DialerStep

LEMMA NumbersStep == Numbers /\ [MqttNext]_mVars => Numbers'
<1> SUFFICES ASSUME Numbers, [MqttNext]_mVars PROVE Numbers'  OBVIOUS
<1>1. CASE CallbackMoves
  <2>1. UNCHANGED <<client, generation, mqttConnecting, dialers, closers>>
    BY <1>1 DEF CallbackMoves, OnConnect, OnSubscribe, OnDisconnect, OnMessage, WorkerEnds, Handle, HandleFails, state
  <2> QED  BY <2>1 DEF Numbers, dialers, closers, counts
<1>2. CASE CloserMoves
  <2>1. /\ UNCHANGED <<built, has, gen, place>> /\ generation' \in {generation, generation + 1}
        /\ client' \in {client, 0} /\ closes' \in {closes, client, 0}
    BY <1>2 DEF CloserMoves, MqttDisconnect, MqttDisconnected, MqttSendFails, dialers, closers, counts, NoOne
  <2>2. mqttConnecting' \in BOOLEAN
    BY <1>2 DEF Numbers, CloserMoves, MqttDisconnect, MqttDisconnected, MqttSendFails
  <2> QED  BY <2>1, <2>2 DEF Numbers
<1>3. CASE UNCHANGED mVars  BY <1>3 DEF Numbers, mVars
<1> QED  BY <1>1, <1>2, <1>3, DialerTypes DEF MqttNext, CallbackMoves, CloserMoves

LEMMA DialerTables ==
  ASSUME Tables, NEW d \in Dialers, Reserve(d) \/ DialerStep(d)
  PROVE  Tables'
<1>1. CASE Cleaned(d) \/ MqttAborted(d)
  <2>1. Cleans(has[d])  BY <1>1 DEF Cleaned, MqttAborted
  <2> QED  BY <2>1, CleansGives DEF Tables
<1>2. CASE MqttAborts(d)
  <2>1. Cleans(has[d]) \/ UNCHANGED clientVars  BY <1>2 DEF MqttAborts
  <2>2. CASE Cleans(has[d])  BY <2>2, CleansGives DEF Tables
  <2>3. CASE UNCHANGED clientVars  BY <2>3 DEF Tables, clientVars
  <2> QED  BY <2>1, <2>2, <2>3
<1>3. CASE Dial(d) \/ Dialled(d)  BY <1>3 DEF Dial, Dialled, ShutsLate, Tables
<1>4. CASE Reserve(d) \/ Install(d) \/ Waited(d) \/ TimedOut(d) \/ Finish(d) \/ Retry(d)
  BY <1>4 DEF Reserve, Install, Waited, TimedOut, Finish, Retry, clientVars, Tables
<1>5. CASE StartWorker(d)  BY <1>5 DEF StartWorker, Tables
<1> QED  BY <1>1, <1>2, <1>3, <1>4, <1>5 DEF DialerStep

LEMMA CallbackTables ==
  ASSUME Tables, NEW c \in Clients, OnConnect(c) \/ OnSubscribe(c) \/ OnDisconnect(c) \/ OnMessage(c)
                                    \/ WorkerEnds(c) \/ Handle(c) \/ HandleFails(c)
  PROVE  Tables'
<1>1. CASE OnConnect(c) \/ OnSubscribe(c)  BY <1>1 DEF OnConnect, OnSubscribe, clientVars, Tables
<1>2. CASE WorkerEnds(c)  BY <1>2 DEF WorkerEnds, Tables
<1>3. CASE OnDisconnect(c)
  <2>1. inbox' \in [Clients -> Seq(Nat)]  BY <1>3, PutGives DEF OnDisconnect, Stop, Tables
  <2>2. gone' \in [Clients -> BOOLEAN] /\ socket' \in [Clients -> {"none", "open", "shut"}]
    BY <1>3 DEF OnDisconnect, Tables
  <2>3. UNCHANGED <<cleaned, sent, given>>  BY <1>3 DEF OnDisconnect
  <2> QED  BY <2>1, <2>2, <2>3 DEF Tables
<1>4. CASE OnMessage(c)
  <2>1. inbox' \in [Clients -> Seq(Nat)] /\ sent' \in [Clients -> Nat]
    BY SMTT(30), <1>4, PutGives DEF OnMessage, Tables
  <2>2. gone' \in [Clients -> BOOLEAN] /\ socket' \in [Clients -> {"none", "open", "shut"}]
    BY <1>4 DEF OnMessage, Overflows, Tables
  <2>3. UNCHANGED <<cleaned, given>>  BY <1>4 DEF OnMessage
  <2> QED  BY <2>1, <2>2, <2>3 DEF Tables
<1>5. CASE Handle(c) \/ HandleFails(c)
  <2>1. inbox[c] \in Seq(Nat) /\ inbox[c] # <<>> /\ inbox' = [inbox EXCEPT ![c] = Tail(@)]
    BY <1>5 DEF Handle, HandleFails, Tables
  <2>2. Head(inbox[c]) \in Nat /\ Tail(inbox[c]) \in Seq(Nat)  BY <2>1
  <2>3. inbox' \in [Clients -> Seq(Nat)]  BY <2>1, <2>2 DEF Tables
  <2>4. /\ given' \in {given, [given EXCEPT ![c] = Head(inbox[c])]} /\ UNCHANGED <<cleaned, sent>>
        /\ gone' \in {gone, [gone EXCEPT ![c] = TRUE]} /\ socket' \in {socket, [socket EXCEPT ![c] = "shut"]}
    BY <1>5 DEF Handle, HandleFails
  <2>5. given' \in [Clients -> Nat]  BY <2>2, <2>4 DEF Tables
  <2> QED  BY <2>3, <2>4, <2>5 DEF Tables
<1> QED  BY <1>1, <1>2, <1>3, <1>4, <1>5

LEMMA TablesStep == Tables /\ [MqttNext]_mVars => Tables'
<1> SUFFICES ASSUME Tables, [MqttNext]_mVars PROVE Tables'  OBVIOUS
<1>1. CASE MqttDisconnected  BY <1>1, CleansGives DEF MqttDisconnected, Tables
<1>2. CASE MqttDisconnect \/ MqttSendFails \/ UNCHANGED mVars
  BY <1>2 DEF MqttDisconnect, MqttSendFails, mVars, clientVars, Tables
<1> QED  BY <1>1, <1>2, DialerTables, CallbackTables DEF MqttNext

-----------------------------------------------------------------------------
(* What a dialer does but to reserve and to install: nothing new.              *)
Quiet(d) ==
  /\ UNCHANGED <<gen, generation, has, built, closes, closer, sent, given>>
  /\ client' \in {client, NoOne}
  /\ mqttConnecting' => mqttConnecting
  /\ "handshake" \in flags' => "handshake" \in flags
  /\ \A e \in Dialers : e # d => place'[e] = place[e]
  /\ (Active(d) /\ ~Reserved(d)') \/ place'[d] \in {"idle", "over"} \/ (place[d] = "cleans" /\ place'[d] = "builds")

LEMMA QuietDialer ==
  ASSUME Numbers, NEW d \in Dialers, DialerStep(d), ~Install(d)
  PROVE  Quiet(d)
<1>1. place \in [Dialers -> Places] /\ mqttConnecting \in BOOLEAN  BY DEF Numbers
<1>2. UNCHANGED <<gen, generation, has, built, closes, closer, sent, given>>
  <2>1. CASE Cleaned(d) \/ MqttAborts(d) \/ MqttAborted(d)
    BY <2>1 DEF Cleaned, MqttAborts, MqttAborted, Cleans, Shuts, clientVars, counts, closers
  <2>2. CASE StartWorker(d) \/ Dial(d) \/ Dialled(d)
    BY <2>2 DEF StartWorker, Dial, Dialled, state, counts, closers
  <2>3. CASE Waited(d) \/ TimedOut(d) \/ Finish(d) \/ Retry(d)
    BY <2>3 DEF Waited, TimedOut, Finish, Retry, clientVars, state, counts, closers
  <2> QED  BY <2>1, <2>2, <2>3 DEF DialerStep
<1>3. client' \in {client, NoOne} /\ (mqttConnecting' => mqttConnecting) /\ flags' \subseteq flags
  <2>1. CASE Cleaned(d) \/ MqttAborts(d) \/ MqttAborted(d)  BY <2>1 DEF Cleaned, MqttAborts, MqttAborted
  <2>2. CASE StartWorker(d) \/ Dial(d) \/ Dialled(d)  BY <2>2 DEF StartWorker, Dial, Dialled, state
  <2>3. CASE Waited(d) \/ TimedOut(d) \/ Finish(d) \/ Retry(d)  BY <2>3 DEF Waited, TimedOut, Finish, Retry, state
  <2> QED  BY <2>1, <2>2, <2>3 DEF DialerStep
<1>4. \E next \in Places : Go(d, next) /\ \/ Active(d) /\ next \notin {"cleans", "builds"}
                                          \/ next \in {"idle", "over"}
                                          \/ place[d] = "cleans" /\ next = "builds"
  <2> USE DEF Places, Active
  <2>1. CASE Cleaned(d) \/ MqttAborts(d) \/ MqttAborted(d)  BY <2>1 DEF Cleaned, MqttAborts, MqttAborted
  <2>2. CASE StartWorker(d) \/ Dial(d) \/ Dialled(d)  BY <2>2 DEF StartWorker, Dial, Dialled
  <2>3. CASE Waited(d)  BY <2>3 DEF Waited
  <2>4. CASE TimedOut(d) \/ Finish(d) \/ Retry(d)  BY <2>4 DEF TimedOut, Finish, Retry
  <2> QED  BY <2>1, <2>2, <2>3, <2>4 DEF DialerStep
<1>5. PICK next \in Places : Go(d, next) /\ \/ Active(d) /\ next \notin {"cleans", "builds"}
                                            \/ next \in {"idle", "over"}
                                            \/ place[d] = "cleans" /\ next = "builds"
  BY <1>4
<1>6. place'[d] = next /\ \A e \in Dialers : e # d => place'[e] = place[e]
  BY <1>1, <1>5 DEF Go
<1> QED  BY <1>2, <1>3, <1>5, <1>6 DEF Quiet, Reserved

LEMMA OwnStep ==
  ASSUME Numbers, OwnGeneration, OwnClient, [MqttNext]_mVars
  PROVE  OwnGeneration' /\ OwnClient'
<1>1. ASSUME NEW d \in Dialers, Quiet(d)
      PROVE  OwnGeneration' /\ OwnClient'
  <2>1. OwnGeneration'  BY <1>1 DEF OwnGeneration, Quiet, Active
  <2>2. OwnClient'  BY <1>1 DEF OwnClient, Quiet, Active, Reserved
  <2> QED  BY <2>1, <2>2
<1>2. ASSUME NEW d \in Dialers, Reserve(d)
      PROVE  OwnGeneration' /\ OwnClient'
  <2>1. CASE MqttConnected \/ mqttConnecting \/ mqttClosing
    <3>1. UNCHANGED <<client, generation, mqttConnecting, flags, has, gen>> /\ place' = [place EXCEPT ![d] = "over"]
      BY <1>2, <2>1 DEF Reserve, Go, state
    <3>2. \A e \in Dialers : place'[e] = IF e = d THEN "over" ELSE place[e]  BY <3>1 DEF Numbers
    <3>3. OwnGeneration'  BY <3>1, <3>2 DEF OwnGeneration, Active
    <3>4. OwnClient'  BY <3>1, <3>2 DEF OwnClient, Active, Reserved
    <3> QED  BY <3>3, <3>4
  <2>2. CASE ~(MqttConnected \/ mqttConnecting \/ mqttClosing)
    <3>1. /\ generation' = generation + 1 /\ gen' = [gen EXCEPT ![d] = generation + 1]
          /\ client' = NoOne /\ flags' = {} /\ \E next : place' = [place EXCEPT ![d] = next]
      BY <1>2, <2>2 DEF Reserve, Go
    <3>2. /\ \A e \in Dialers : gen'[e] = IF e = d THEN generation + 1 ELSE gen[e]
          /\ \A e \in Dialers : e # d => place'[e] = place[e]
      BY <3>1 DEF Numbers
    <3>3. OwnGeneration'  BY <3>1, <3>2 DEF OwnGeneration, Active, Numbers
    <3>4. OwnClient'  BY <3>1 DEF OwnClient
    <3> QED  BY <3>3, <3>4
  <2> QED  BY <2>1, <2>2
<1>3. ASSUME NEW d \in Dialers, Install(d)
      PROVE  OwnGeneration' /\ OwnClient'
  <2>1. /\ place[d] = "builds" /\ UNCHANGED <<generation, mqttConnecting, flags, gen>>
        /\ has' = [has EXCEPT ![d] = built']
        /\ \/ Mine(d) /\ client' = built' /\ Go(d, "installed")
           \/ ~Mine(d) /\ client' = client /\ Go(d, "aborts")
    BY <1>3 DEF Install
  <2>2. /\ has'[d] = built' /\ \A e \in Dialers : e # d => has'[e] = has[e]
        /\ place'[d] \in {"installed", "aborts"} /\ \A e \in Dialers : e # d => place'[e] = place[e]
    BY <2>1 DEF Numbers, Go
  <2>3. OwnGeneration'  BY <2>1, <2>2 DEF OwnGeneration, Active
  <2>4. OwnClient'
    <3>1. CASE Mine(d) /\ client' = built'
      BY <2>1, <2>2, <2>3, <3>1 DEF OwnClient, OwnGeneration, Active, Reserved, Mine
    <3>2. CASE ~Mine(d) /\ client' = client
      BY <2>1, <2>2, <3>2 DEF OwnClient, Active, Reserved
    <3> QED  BY <2>1, <3>1, <3>2
  <2> QED  BY <2>3, <2>4
<1>4. ASSUME CallbackMoves
      PROVE  OwnGeneration' /\ OwnClient'
  <2>1. /\ UNCHANGED <<client, generation, mqttConnecting, dialers, closers>>
        /\ "handshake" \in flags' => "handshake" \in flags \/ client \in Clients
    BY <1>4 DEF CallbackMoves, OnConnect, OnSubscribe, OnDisconnect, OnMessage, Overflows, WorkerEnds, Handle,
       HandleFails, Reads, state
  <2>2. UNCHANGED <<gen, has, place>>  BY <2>1 DEF dialers
  <2>3. OwnGeneration'  BY <2>1, <2>2 DEF OwnGeneration, Active
  <2>4. OwnClient'  BY <2>1, <2>2 DEF OwnClient, Active, Reserved, Clients, NoOne
  <2> QED  BY <2>3, <2>4
<1>5. ASSUME CloserMoves \/ UNCHANGED mVars
      PROVE  OwnGeneration' /\ OwnClient'
  <2>1. /\ UNCHANGED <<gen, has, place>> /\ client' \in {client, NoOne}
        /\ \/ generation' = generation + 1
           \/ UNCHANGED <<generation, client, mqttConnecting>> /\ flags' \subseteq flags
    BY <1>5 DEF CloserMoves, MqttDisconnect, MqttDisconnected, MqttSendFails, dialers, mVars
  <2>2. OwnGeneration'  BY <2>1 DEF OwnGeneration, Active, Numbers
  <2>3. OwnClient'
    <3>1. CASE generation' = generation + 1
      BY <2>1, <3>1 DEF OwnClient, OwnGeneration, Numbers
    <3>2. CASE UNCHANGED <<generation, client, mqttConnecting>> /\ flags' \subseteq flags
      BY <2>1, <3>2 DEF OwnClient, Active, Reserved
    <3> QED  BY <2>1, <3>1, <3>2
  <2> QED  BY <2>2, <2>3
<1> QED  BY <1>1, <1>2, <1>3, <1>4, <1>5, QuietDialer DEF MqttNext, CallbackMoves, CloserMoves

-----------------------------------------------------------------------------
(* The frames: a step that reads and sends none only ends sessions.            *)
FrameInv == Unbuilt /\ QueueIsNext /\ ShakenHasRead

OnlyEnds ==
  \A c \in Clients : (c <= built /\ gone'[c]) \/ (gone'[c] = gone[c] /\ inbox'[c] = inbox[c])

LEMMA FramesKept ==
  ASSUME Numbers, FrameInv, OnlyEnds, UNCHANGED <<built, sent, given>>, client' \in {client, NoOne},
         closes' \in {closes, client, NoOne}, \A d \in Dialers : has'[d] \in {has[d], client},
         "handshake" \in flags' => "handshake" \in flags
  PROVE  FrameInv'
<1>1. Unbuilt'
  <2>1. client' <= built /\ closes' <= built /\ \A d \in Dialers : has'[d] <= built
    BY DEF FrameInv, Unbuilt, Numbers, NoOne
  <2>2. ASSUME NEW c \in Clients, c > built
        PROVE  ~gone'[c] /\ inbox'[c] = <<>> /\ sent[c] = 0 /\ given[c] = 0
    <3>1. ~gone[c] /\ inbox[c] = <<>> /\ sent[c] = 0 /\ given[c] = 0  BY <2>2 DEF FrameInv, Unbuilt
    <3>2. ~(c <= built)  BY <2>2 DEF Numbers, Clients
    <3> QED  BY <3>1, <3>2 DEF OnlyEnds
  <2> QED  BY <2>1, <2>2 DEF Unbuilt
<1>2. QueueIsNext'  BY DEF FrameInv, QueueIsNext, OnlyEnds, NoOne, Clients
<1>3. ShakenHasRead'  BY DEF FrameInv, ShakenHasRead
<1> QED  BY <1>1, <1>2, <1>3 DEF FrameInv

LEMMA CleansOnlyEnds ==
  ASSUME Tables, NEW c, Cleans(c), c \in Clients => c <= built
  PROVE  OnlyEnds
BY CleansGives DEF OnlyEnds

LEMMA DialerKeepsFrames ==
  ASSUME Numbers, Tables, FrameInv, NEW d \in Dialers, Reserve(d) \/ (DialerStep(d) /\ ~Install(d))
  PROVE  FrameInv'
<1>1. OnlyEnds
  <2>1. ASSUME Cleans(has[d])
        PROVE  OnlyEnds
    BY <2>1, CleansOnlyEnds DEF FrameInv, Unbuilt
  <2>2. CASE Cleaned(d) \/ MqttAborts(d) \/ MqttAborted(d)
    <3>1. Cleans(has[d]) \/ UNCHANGED clientVars  BY <2>2 DEF Cleaned, MqttAborts, MqttAborted
    <3> QED  BY <2>1, <3>1 DEF OnlyEnds, clientVars
  <2>3. CASE StartWorker(d) \/ Dial(d) \/ Dialled(d)  BY <2>3 DEF StartWorker, Dial, Dialled, OnlyEnds
  <2>4. CASE Waited(d) \/ TimedOut(d) \/ Finish(d) \/ Retry(d) \/ Reserve(d)
    BY <2>4 DEF Waited, TimedOut, Finish, Retry, Reserve, clientVars, OnlyEnds
  <2> QED  BY <2>2, <2>3, <2>4 DEF DialerStep
<1>2. CASE DialerStep(d) /\ ~Install(d)
  <2>1. Quiet(d)  BY <1>2, QuietDialer
  <2> QED  BY <1>1, <2>1, FramesKept DEF Quiet
<1>3. CASE Reserve(d)
  <2>1. /\ UNCHANGED <<built, sent, given, closes>> /\ client' \in {client, NoOne} /\ flags' \subseteq flags
        /\ has' \in {has, [has EXCEPT ![d] = client]}
    BY <1>3 DEF Reserve, clientVars, closers, state
  <2>2. \A e \in Dialers : has'[e] \in {has[e], client}  BY <2>1 DEF Numbers
  <2> QED  BY <1>1, <2>1, <2>2, FramesKept
<1> QED  BY <1>2, <1>3

LEMMA InstallKeepsFrames ==
  ASSUME Numbers, Tables, OwnClient, FrameInv, NEW d \in Dialers, Install(d)
  PROVE  FrameInv'
<1>1. /\ built' = built + 1 /\ UNCHANGED <<flags, gone, inbox, sent, given, closes>>
      /\ place[d] = "builds" /\ has' = [has EXCEPT ![d] = built']
      /\ (client' = built' /\ Mine(d)) \/ client' = client
  BY DEF Install, clientVars, closers
<1>2. Unbuilt'
  <2>1. client' <= built' /\ closes' <= built' /\ \A e \in Dialers : has'[e] <= built'
    <3>1. \A e \in Dialers : has'[e] \in {has[e], built + 1}  BY <1>1 DEF Numbers
    <3> QED  BY <1>1, <3>1 DEF FrameInv, Unbuilt, Numbers
  <2>2. ASSUME NEW c \in Clients, c > built'
        PROVE  ~gone'[c] /\ inbox'[c] = <<>> /\ sent'[c] = 0 /\ given'[c] = 0
    <3>1. c > built  BY <1>1, <2>2 DEF Numbers, Clients
    <3> QED  BY <1>1, <3>1 DEF FrameInv, Unbuilt
  <2> QED  BY <2>1, <2>2 DEF Unbuilt
<1>3. QueueIsNext'
  <2> SUFFICES ASSUME NEW c \in Clients, c = client', ~gone[c]
               PROVE  sent[c] = given[c] + Len(inbox[c]) /\ \A i \in 1..Len(inbox[c]) : inbox[c][i] = given[c] + i
    BY <1>1 DEF QueueIsNext
  <2>1. CASE client' = built + 1  BY <1>1, <2>1 DEF FrameInv, Unbuilt, Numbers, Clients
  <2>2. CASE client' = client  BY <2>2 DEF FrameInv, QueueIsNext
  <2> QED  BY <1>1, <2>1, <2>2
<1>4. ShakenHasRead'
  BY <1>1 DEF FrameInv, ShakenHasRead, OwnClient, Active, Reserved, Mine
<1> QED  BY <1>2, <1>3, <1>4 DEF FrameInv

LEMMA CallbackKeepsFrames ==
  ASSUME Numbers, Tables, FrameInv, NEW c \in Clients,
         OnConnect(c) \/ OnSubscribe(c) \/ OnDisconnect(c) \/ OnMessage(c) \/ WorkerEnds(c) \/ Handle(c) \/ HandleFails(c)
  PROVE  FrameInv'
<1>1. UNCHANGED <<client, has, closes, built>>
  BY DEF OnConnect, OnSubscribe, OnDisconnect, OnMessage, WorkerEnds, Handle, HandleFails, state, dialers, closers, counts
<1>2. client <= built  BY DEF FrameInv, Unbuilt
<1>3. CASE OnConnect(c) \/ OnSubscribe(c) \/ WorkerEnds(c)
  <2>1. OnlyEnds /\ UNCHANGED <<sent, given>> /\ ("handshake" \in flags' => "handshake" \in flags)
    BY <1>3 DEF OnConnect, OnSubscribe, WorkerEnds, OnlyEnds, clientVars, state
  <2> QED  BY <1>1, <2>1, FramesKept
<1>4. CASE OnDisconnect(c)
  <2>1. UNCHANGED <<sent, given>> /\ flags' \subseteq flags  BY <1>4 DEF OnDisconnect
  <2>2. OnlyEnds
    <3>1. CASE c = client
      <4>1. gone' = [gone EXCEPT ![c] = TRUE] /\ inbox' = Put(c, Stop)  BY <1>4, <3>1 DEF OnDisconnect
      <4>2. \A b \in Clients : b # c => inbox'[b] = inbox[b]  BY <4>1, PutGives DEF Stop
      <4> QED  BY <1>2, <3>1, <4>1, <4>2 DEF OnlyEnds, Tables
    <3>2. CASE c # client  BY <1>4, <3>2 DEF OnDisconnect, OnlyEnds
    <3> QED  BY <3>1, <3>2
  <2> QED  BY <1>1, <2>1, <2>2, FramesKept
<1>5. CASE HandleFails(c)
  <2>1. /\ UNCHANGED <<sent, given>> /\ flags' \subseteq flags /\ c = client
        /\ gone' = [gone EXCEPT ![c] = TRUE] /\ inbox' = [inbox EXCEPT ![c] = Tail(@)]
    BY <1>5 DEF HandleFails, Reads
  <2>2. OnlyEnds  BY <1>2, <2>1 DEF OnlyEnds, Tables
  <2> QED  BY <1>1, <2>1, <2>2, FramesKept
<1>6. CASE OnMessage(c)
  <2>1. /\ c = client /\ sent' = [sent EXCEPT ![c] = @ + 1] /\ UNCHANGED given /\ flags' \subseteq flags
        /\ \/ /\ inbox' = [inbox EXCEPT ![c] = Append(@, sent[c] + 1)] /\ UNCHANGED gone
           \/ gone' = [gone EXCEPT ![c] = TRUE] /\ UNCHANGED inbox
    BY <1>6 DEF OnMessage, Put, Overflows
  <2>2. Unbuilt'
    <3> SUFFICES ASSUME NEW b \in Clients, b > built
                 PROVE  ~gone'[b] /\ inbox'[b] = <<>> /\ sent'[b] = 0 /\ given[b] = 0
      BY <1>1, <2>1 DEF FrameInv, Unbuilt
    <3>1. ~gone[b] /\ inbox[b] = <<>> /\ sent[b] = 0 /\ given[b] = 0  BY DEF FrameInv, Unbuilt
    <3>2. b # c  BY <1>2, <2>1 DEF Numbers, Clients
    <3> QED  BY <2>1, <3>1, <3>2 DEF Tables
  <2>3. QueueIsNext'
    <3> SUFFICES ASSUME ~gone'[c]
                 PROVE  /\ sent'[c] = given[c] + Len(inbox'[c])
                        /\ \A i \in 1..Len(inbox'[c]) : inbox'[c][i] = given[c] + i
      BY <1>1, <2>1 DEF QueueIsNext
    <3>1. inbox'[c] = Append(inbox[c], sent[c] + 1) /\ ~gone[c]  BY <2>1 DEF Tables
    <3>2. /\ sent[c] = given[c] + Len(inbox[c])
          /\ \A i \in 1..Len(inbox[c]) : inbox[c][i] = given[c] + i
      BY <2>1, <3>1 DEF FrameInv, QueueIsNext
    <3>3. inbox[c] \in Seq(Nat) /\ given[c] \in Nat /\ sent[c] \in Nat /\ sent'[c] = sent[c] + 1
      BY <2>1 DEF Tables
    <3>4. /\ Len(inbox'[c]) = Len(inbox[c]) + 1 /\ Len(inbox[c]) \in Nat
          /\ inbox'[c][Len(inbox[c]) + 1] = sent[c] + 1
          /\ \A i \in 1..Len(inbox[c]) : inbox'[c][i] = inbox[c][i]
      BY <3>1, <3>3, AppendProperties
    <3>5. sent'[c] = given[c] + Len(inbox'[c])
      <4>1. sent[c] = given[c] + Len(inbox[c])  BY <3>2
      <4>2. Len(inbox'[c]) = Len(inbox[c]) + 1 /\ Len(inbox[c]) \in Nat  BY <3>4
      <4> QED  BY <3>3, <4>1, <4>2
    <3>6. ASSUME NEW i \in 1..Len(inbox'[c]) PROVE inbox'[c][i] = given[c] + i
      <4>1. CASE i \in 1..Len(inbox[c])  BY <3>2, <3>4, <4>1
      <4>2. CASE i = Len(inbox[c]) + 1
        <5>1. sent[c] + 1 = given[c] + i  BY <3>2, <3>3, <3>4, <4>2
        <5> QED  BY <3>4, <4>2, <5>1
      <4> QED  BY <3>4, <4>1, <4>2
    <3> QED  BY <3>5, <3>6
  <2>4. ShakenHasRead'  BY <1>1, <2>1 DEF FrameInv, ShakenHasRead
  <2> QED  BY <2>2, <2>3, <2>4 DEF FrameInv
<1>7. CASE Handle(c)
  <2>1. /\ c = client /\ ~gone[c] /\ inbox[c] # <<>> /\ UNCHANGED <<sent, gone>>
        /\ inbox' = [inbox EXCEPT ![c] = Tail(@)] /\ given' = [given EXCEPT ![c] = Head(inbox[c])]
    BY <1>7 DEF Handle, Reads
  <2>2. /\ sent[c] = given[c] + Len(inbox[c])
        /\ \A i \in 1..Len(inbox[c]) : inbox[c][i] = given[c] + i
    BY <2>1 DEF FrameInv, QueueIsNext
  <2>3. inbox[c] \in Seq(Nat) /\ given[c] \in Nat /\ sent[c] \in Nat  BY DEF Tables
  <2>8. Len(inbox[c]) >= 1 /\ Head(inbox[c]) = inbox[c][1]  BY <2>1, <2>3
  <2>9. Head(inbox[c]) = given[c] + 1  BY <2>2, <2>3, <2>8
  <2>10. /\ Len(Tail(inbox[c])) = Len(inbox[c]) - 1
         /\ \A i \in 1..Len(Tail(inbox[c])) : Tail(inbox[c])[i] = inbox[c][i + 1]
    BY <2>1, <2>3
  <2>4. /\ inbox'[c] = Tail(inbox[c]) /\ given'[c] = given[c] + 1
        /\ \A b \in Clients : b # c => inbox'[b] = inbox[b] /\ given'[b] = given[b]
    BY <2>1, <2>9 DEF Tables
  <2>5. Unbuilt'  BY <1>1, <1>2, <2>1, <2>4 DEF FrameInv, Unbuilt, Numbers, Clients
  <2>6. QueueIsNext'
    <3> SUFFICES sent[c] = given'[c] + Len(inbox'[c]) /\ \A i \in 1..Len(inbox'[c]) : inbox'[c][i] = given'[c] + i
      BY <1>1, <2>1 DEF QueueIsNext
    <3>1. Len(inbox[c]) \in Nat  BY <2>3
    <3>2. sent[c] = given'[c] + Len(inbox'[c])  BY <2>2, <2>3, <2>4, <2>10, <3>1
    <3>3. ASSUME NEW i \in 1..Len(inbox'[c])
          PROVE  inbox'[c][i] = given'[c] + i
      <4>1. i + 1 \in 1..Len(inbox[c]) /\ inbox'[c][i] = inbox[c][i + 1]  BY <2>4, <2>10, <3>1
      <4> QED  BY <2>2, <2>3, <2>4, <4>1
    <3> QED  BY <3>2, <3>3
  <2>7. ShakenHasRead'  BY <1>1, <2>1, <2>3, <2>4 DEF ShakenHasRead
  <2> QED  BY <2>5, <2>6, <2>7 DEF FrameInv
<1> QED  BY <1>3, <1>4, <1>5, <1>6, <1>7

LEMMA FramesStep ==
  ASSUME Numbers, Tables, OwnClient, FrameInv, [MqttNext]_mVars
  PROVE  FrameInv'
<1>1. CASE MqttDisconnect
  <2>1. /\ OnlyEnds /\ UNCHANGED <<built, sent, given, flags, has>> /\ client' \in {client, NoOne}
        /\ closes' \in {closes, client}
    BY <1>1 DEF MqttDisconnect, clientVars, dialers, counts, OnlyEnds
  <2> QED  BY <2>1, FramesKept
<1>2. CASE MqttDisconnected
  <2>1. Cleans(closes) /\ UNCHANGED <<built, client, has>> /\ closes' = NoOne /\ flags' \subseteq flags
    BY <1>2 DEF MqttDisconnected, dialers, counts
  <2>2. OnlyEnds  BY <2>1, CleansOnlyEnds DEF FrameInv, Unbuilt
  <2>3. UNCHANGED <<sent, given>>  BY <2>1, CleansGives
  <2> QED  BY <2>1, <2>2, <2>3, FramesKept
<1>3. CASE MqttSendFails \/ UNCHANGED mVars
  <2>1. /\ OnlyEnds /\ UNCHANGED <<built, sent, given, has, client, closes>> /\ flags' \subseteq flags
    BY <1>3 DEF MqttSendFails, mVars, clientVars, dialers, counts, closers, OnlyEnds
  <2> QED  BY <2>1, FramesKept
<1> QED  BY <1>1, <1>2, <1>3, DialerKeepsFrames, InstallKeepsFrames, CallbackKeepsFrames DEF MqttNext, DialerStep

-----------------------------------------------------------------------------
(* The sockets.                                                                *)
SocketInv == CleanedIsShut /\ NoStraySocket

DialsLate(c) == \E d \in Dialers : place[d] = "dialled" /\ has[d] = c

(* After a cleanup only a dial that comes late has a socket open.              *)
LEMMA CleansShuts ==
  ASSUME Tables, CleanedIsShut, NEW k, Cleans(k)
  PROVE  /\ \A c \in Clients : cleaned'[c] => gone'[c]
         /\ \A c \in Clients : cleaned'[c] /\ socket'[c] = "open" => DialsLate(c)
         /\ \A c \in Clients : (cleaned[c] => cleaned'[c]) /\ (socket'[c] = "open" => socket[c] = "open")
         /\ k \in Clients => cleaned'[k]
<1>1. /\ \A b \in Clients : b # k =>
           socket'[b] = socket[b] /\ gone'[b] = gone[b] /\ cleaned'[b] = cleaned[b]
      /\ k \in Clients => cleaned'[k]
      /\ k \in Clients => \/ gone'[k] = gone[k] /\ cleaned'[k] = cleaned[k] /\ socket'[k] = socket[k]
                          \/ gone'[k] /\ socket'[k] # "open"
  BY CleansGives DEF Clients, NoOne
<1>2. ASSUME NEW c \in Clients
      PROVE  /\ cleaned'[c] => gone'[c]
             /\ cleaned'[c] /\ socket'[c] = "open" => DialsLate(c)
             /\ (cleaned[c] => cleaned'[c]) /\ (socket'[c] = "open" => socket[c] = "open")
  <2>1. (cleaned[c] => gone[c]) /\ (cleaned[c] /\ socket[c] = "open" => DialsLate(c))
    BY DEF CleanedIsShut, DialsLate
  <2>2. CASE c # k  BY <1>1, <2>1, <2>2
  <2>3. CASE c = k /\ gone'[k] = gone[k] /\ cleaned'[k] = cleaned[k] /\ socket'[k] = socket[k]  BY <1>1, <2>1, <2>3
  <2>4. CASE c = k /\ gone'[k] /\ socket'[k] # "open"  BY <1>1, <2>4
  <2> QED  BY <1>1, <2>2, <2>3, <2>4
<1> QED  BY <1>1, <1>2

LEMMA SocketsKept ==
  ASSUME SocketInv, UNCHANGED <<client, place, has, closer, closes, cleaned>>,
         \A c \in Clients : (socket'[c] = "open" => socket[c] = "open") /\ (gone[c] => gone'[c])
  PROVE  SocketInv'
<1>1. CleanedIsShut'  BY DEF SocketInv, CleanedIsShut
<1>2. NoStraySocket'  BY DEF SocketInv, NoStraySocket, Attempting
<1> QED  BY <1>1, <1>2 DEF SocketInv

(* A dialer that goes on with its client, or stops with no socket of its own.  *)
LEMMA DialerGoesOn ==
  ASSUME Numbers, SocketInv, NEW d \in Dialers, UNCHANGED <<has, closes, closer>>, place[d] # "dialled",
         NEW next \in Places \ {"dialled"}, Go(d, next), next = "builds" /\ has[d] \in Clients => cleaned'[has[d]],
         \A c \in Clients : cleaned'[c] => gone'[c],
         \A c \in Clients : cleaned'[c] /\ socket'[c] = "open" => DialsLate(c),
         \A c \in Clients : (cleaned[c] => cleaned'[c]) /\ (socket'[c] = "open" => socket[c] = "open"),
         client' = client \/ (client' = NoOne /\ client \in {NoOne, has[d]} /\ next \notin {"idle", "over"}),
         next \in {"idle", "over"} => place[d] \in {"idle", "over"} \/ (has[d] \in Clients => cleaned'[has[d]])
                                      \/ client = has[d]
  PROVE  SocketInv'
<1>1. place'[d] = next /\ \A e \in Dialers : e # d => place'[e] = place[e]  BY DEF Go, Numbers
<1>2. \A c : DialsLate(c) => \E e \in Dialers : e # d /\ place'[e] = "dialled" /\ has[e] = c
  BY <1>1 DEF DialsLate
<1>3. CleanedIsShut'
  BY <1>1, <1>2 DEF SocketInv, CleanedIsShut
<1>4. NoStraySocket'
  <2> SUFFICES ASSUME NEW c \in Clients, socket'[c] = "open"
               PROVE  c \in {client', closes} \/ Attempting(c)'
    BY DEF NoStraySocket
  <2>1. c \in {client, closes} \/ Attempting(c)  BY DEF SocketInv, NoStraySocket
  <2>2. c # NoOne  BY DEF Clients, NoOne
  <2>3. CASE c \in {client, closes}
    BY <1>1, <2>2, <2>3 DEF Attempting
  <2>4. CASE Attempting(c)
    <3>1. PICK e \in Dialers : has[e] = c /\ place[e] \notin {"idle", "over"}  BY <2>4 DEF Attempting
    <3>2. CASE e # d  BY <1>1, <3>1, <3>2 DEF Attempting
    <3>3. CASE e = d /\ next \notin {"idle", "over"}  BY <1>1, <3>1, <3>3 DEF Attempting
    <3>4. CASE e = d /\ next \in {"idle", "over"} /\ cleaned'[c]
      BY <1>1, <1>2, <3>4 DEF Attempting
    <3>5. CASE e = d /\ next \in {"idle", "over"} /\ ~cleaned'[c]
      BY <3>1, <3>5
    <3> QED  BY <3>2, <3>3, <3>4, <3>5
  <2> QED  BY <2>1, <2>3, <2>4
<1> QED  BY <1>3, <1>4 DEF SocketInv

LEMMA DialerKeepsSockets ==
  ASSUME Numbers, Tables, OwnClient, SocketInv, NEW d \in Dialers, DialerStep(d), ~Install(d)
  PROVE  SocketInv'
<1>1. /\ CleanedIsShut /\ Quiet(d) /\ UNCHANGED <<has, closes, closer>>
  BY QuietDialer DEF SocketInv, Quiet
<1>2. ASSUME UNCHANGED <<socket, gone, cleaned>>
      PROVE  /\ \A c \in Clients : cleaned'[c] => gone'[c]
             /\ \A c \in Clients : cleaned'[c] /\ socket'[c] = "open" => DialsLate(c)
             /\ \A c \in Clients : (cleaned[c] => cleaned'[c]) /\ (socket'[c] = "open" => socket[c] = "open")
  BY <1>1, <1>2 DEF CleanedIsShut, DialsLate
<1>3. CASE Cleaned(d) \/ MqttAborted(d)
  <2>1. /\ Cleans(has[d]) /\ client' = client /\ place[d] # "dialled"
        /\ \E next \in {"builds", "over"} : Go(d, next)
    BY <1>3 DEF Cleaned, MqttAborted
  <2> QED  BY <1>1, <2>1, CleansShuts, DialerGoesOn DEF Places
<1>4. CASE MqttAborts(d)
  <2>1. place[d] = "aborts"  BY <1>4 DEF MqttAborts
  <2>2. CASE gen[d] = generation
    <3>1. /\ client' = NoOne /\ Go(d, "closesOwn") /\ UNCHANGED <<socket, gone, cleaned>>
      BY <1>4, <2>2 DEF MqttAborts, clientVars
    <3>2. client \in {NoOne, has[d]}  BY <2>1, <2>2 DEF OwnClient, Active
    <3> QED  BY <1>1, <1>2, <2>1, <3>1, <3>2, DialerGoesOn DEF Places
  <2>3. CASE gen[d] # generation
    <3>1. client' = client /\ Go(d, "over") /\ Cleans(has[d])  BY <1>4, <2>3 DEF MqttAborts
    <3> QED  BY <1>1, <2>1, <3>1, CleansShuts, DialerGoesOn DEF Places
  <2> QED  BY <2>2, <2>3
<1>5. CASE StartWorker(d) \/ Waited(d) \/ TimedOut(d) \/ Finish(d) \/ Retry(d)
  <2>1. UNCHANGED <<client, socket, gone, cleaned>>
    BY <1>5 DEF StartWorker, Waited, TimedOut, Finish, Retry, state, clientVars
  <2>2. /\ place[d] # "dialled"
        /\ \E next \in Places \ {"dialled", "builds"} :
             Go(d, next) /\ (next \in {"idle", "over"} => place[d] \in {"idle", "over"} \/ client = has[d])
    BY <1>5 DEF StartWorker, Waited, TimedOut, Finish, Retry, Places
  <2> QED  BY <1>1, <1>2, <2>1, <2>2, DialerGoesOn
<1>6. CASE Dial(d)
  <2>1. place[d] = "dials" /\ UNCHANGED <<client, gone, cleaned>>  BY <1>6 DEF Dial, state
  <2>2. CASE socket' = [socket EXCEPT ![has[d]] = "open"] /\ Go(d, "dialled")
    <3>1. place'[d] = "dialled" /\ \A e \in Dialers : e # d => place'[e] = place[e]  BY <2>2 DEF Go, Numbers
    <3>2. \A c \in Clients : socket'[c] = "open" => c = has[d] \/ socket[c] = "open"  BY <2>2 DEF Tables
    <3>3. CleanedIsShut'  BY <1>1, <2>1, <3>1, <3>2 DEF CleanedIsShut
    <3>4. NoStraySocket'
      BY <1>1, <2>1, <3>1, <3>2 DEF SocketInv, NoStraySocket, Attempting
    <3> QED  BY <3>3, <3>4 DEF SocketInv
  <2>3. CASE Go(d, "aborts") /\ UNCHANGED socket
    BY <1>1, <1>2, <2>1, <2>3, DialerGoesOn DEF Places
  <2> QED  BY <1>6, <2>2, <2>3 DEF Dial
<1>7. CASE Dialled(d)
  <2>1. place[d] = "dialled" /\ UNCHANGED <<client, gone, cleaned>>  BY <1>7 DEF Dialled, state
  <2>2. /\ place'[d] \in {"connects", "aborts"} /\ \A e \in Dialers : e # d => place'[e] = place[e]
    BY <1>7 DEF Dialled, Go, Numbers
  <2>3. /\ \A c \in Clients : socket'[c] = "open" => socket[c] = "open"
        /\ has[d] \in Clients => ~cleaned[has[d]] \/ socket'[has[d]] # "open"
    BY <1>1, <1>7 DEF Dialled, ShutsLate, Tables, CleanedIsShut
  <2>4. CleanedIsShut'  BY <1>1, <2>1, <2>2, <2>3 DEF CleanedIsShut
  <2>5. NoStraySocket'  BY <1>1, <2>1, <2>2, <2>3 DEF SocketInv, NoStraySocket, Attempting
  <2> QED  BY <2>4, <2>5 DEF SocketInv
<1> QED  BY <1>3, <1>4, <1>5, <1>6, <1>7 DEF DialerStep

LEMMA NewcomerKeepsSockets ==
  ASSUME Numbers, OwnClient, SocketInv, NEW d \in Dialers, Reserve(d) \/ Install(d)
  PROVE  SocketInv'
<1>1. UNCHANGED <<socket, gone, cleaned, closer, closes>>  BY DEF Reserve, Install, clientVars, closers
<1>2. CASE Install(d)
  <2>1. /\ place[d] = "builds" /\ has' = [has EXCEPT ![d] = built'] /\ \E next \in {"installed", "aborts"} : Go(d, next)
        /\ client' = client \/ Mine(d)
    BY <1>2 DEF Install
  <2>2. /\ place'[d] \in {"installed", "aborts"}
        /\ \A e \in Dialers : e # d => place'[e] = place[e] /\ has'[e] = has[e]
    BY <2>1 DEF Go, Numbers
  <2>3. CleanedIsShut'  BY <1>1, <2>1, <2>2 DEF SocketInv, CleanedIsShut
  <2>4. client' = client \/ client = NoOne  BY <2>1 DEF OwnClient, Active, Reserved, Mine
  <2>5. NoStraySocket'
    <3> SUFFICES ASSUME NEW c \in Clients, socket[c] = "open"
                 PROVE  c \in {client', closes} \/ Attempting(c)'
      BY <1>1 DEF NoStraySocket
    <3>1. c \in {client, closes} \/ Attempting(c)  BY DEF SocketInv, NoStraySocket
    <3>2. CASE c \in {client, closes}  BY <2>4, <3>2 DEF Clients, NoOne
    <3>3. CASE Attempting(c)
      <4>1. PICK e \in Dialers : has[e] = c /\ place[e] \notin {"idle", "over"}  BY <3>3 DEF Attempting
      <4>2. CASE e # d  BY <2>2, <4>1, <4>2 DEF Attempting
      <4>3. CASE e = d
        <5>1. cleaned[c]  BY <2>1, <4>1, <4>3 DEF SocketInv, CleanedIsShut
        <5>2. PICK f \in Dialers : place[f] = "dialled" /\ has[f] = c  BY <5>1 DEF SocketInv, CleanedIsShut
        <5> QED  BY <2>1, <2>2, <5>2 DEF Attempting
      <4> QED  BY <4>2, <4>3
    <3> QED  BY <3>1, <3>2, <3>3
  <2> QED  BY <2>3, <2>5 DEF SocketInv
<1>3. CASE Reserve(d)
  <2>1. /\ place[d] = "idle"
        /\ \/ Go(d, "over") /\ UNCHANGED <<client, has>>
           \/ /\ has' = [has EXCEPT ![d] = client] /\ client' = NoOne
              /\ Go(d, IF client # NoOne THEN "cleans" ELSE "builds")
    BY <1>3 DEF Reserve, state
  <2>2. CASE Go(d, "over") /\ UNCHANGED <<client, has>>
    <3>1. place'[d] = "over" /\ \A e \in Dialers : e # d => place'[e] = place[e]  BY <2>2 DEF Go, Numbers
    <3>2. CleanedIsShut'  BY <1>1, <2>1, <2>2, <3>1 DEF SocketInv, CleanedIsShut
    <3>3. NoStraySocket'  BY <1>1, <2>1, <2>2, <3>1 DEF SocketInv, NoStraySocket, Attempting
    <3> QED  BY <3>2, <3>3 DEF SocketInv
  <2>3. CASE /\ has' = [has EXCEPT ![d] = client] /\ client' = NoOne
             /\ Go(d, IF client # NoOne THEN "cleans" ELSE "builds")
    <3>1. /\ place'[d] = (IF client # NoOne THEN "cleans" ELSE "builds") /\ has'[d] = client
          /\ \A e \in Dialers : e # d => place'[e] = place[e] /\ has'[e] = has[e]
      BY <2>3 DEF Go, Numbers
    <3>2. NoOne \notin Clients  BY DEF Clients, NoOne
    <3>3. CleanedIsShut'  BY <1>1, <2>1, <3>1, <3>2 DEF SocketInv, CleanedIsShut
    <3>4. NoStraySocket'
      BY <1>1, <2>1, <3>1, <3>2 DEF SocketInv, NoStraySocket, Attempting
    <3> QED  BY <3>3, <3>4 DEF SocketInv
  <2> QED  BY <2>1, <2>2, <2>3
<1> QED  BY <1>2, <1>3

LEMMA SocketsStep ==
  ASSUME Numbers, Tables, OwnClient, SocketInv, [MqttNext]_mVars
  PROVE  SocketInv'
<1>1. ASSUME NEW c \in Clients, OnConnect(c) \/ OnSubscribe(c) \/ OnDisconnect(c) \/ OnMessage(c) \/ WorkerEnds(c)
                                \/ Handle(c) \/ HandleFails(c)
      PROVE  SocketInv'
  <2>1. UNCHANGED <<client, place, has, closer, closes, cleaned>>
    BY <1>1 DEF OnConnect, OnSubscribe, OnDisconnect, OnMessage, WorkerEnds, Handle, HandleFails, state, clientVars,
       dialers, closers
  <2>2. gone' \in {gone, [gone EXCEPT ![c] = TRUE]} /\ socket' \in {socket, [socket EXCEPT ![c] = "shut"]}
    BY <1>1 DEF OnConnect, OnSubscribe, OnDisconnect, OnMessage, Overflows, WorkerEnds, Handle, HandleFails, clientVars
  <2>3. \A b \in Clients : (socket'[b] = "open" => socket[b] = "open") /\ (gone[b] => gone'[b])
    BY <2>2 DEF Tables
  <2> QED  BY <2>1, <2>3, SocketsKept
<1>2. CASE MqttSendFails \/ UNCHANGED mVars
  BY <1>2, SocketsKept DEF MqttSendFails, mVars, clientVars, dialers, closers
<1>3. CASE MqttDisconnect
  <2>1. /\ UNCHANGED <<socket, gone, cleaned, place, has>> /\ closer = "idle"
        /\ \/ client' = client /\ closer' = "over" /\ closes' = closes
           \/ client' = NoOne /\ closer' = "closes" /\ closes' = client
    BY <1>3 DEF MqttDisconnect, clientVars, dialers
  <2>2. closes = NoOne  BY <2>1 DEF SocketInv, CleanedIsShut
  <2>3. CleanedIsShut'  BY <2>1, <2>2 DEF SocketInv, CleanedIsShut
  <2>4. NoStraySocket'  BY <2>1, <2>2 DEF SocketInv, NoStraySocket, Attempting, Clients, NoOne
  <2> QED  BY <2>3, <2>4 DEF SocketInv
<1>4. CASE MqttDisconnected
  <2>1. Cleans(closes) /\ UNCHANGED <<client, place, has>> /\ closes' = NoOne /\ closer' = "over"
    BY <1>4 DEF MqttDisconnected, dialers
  <2>2. /\ \A c \in Clients : cleaned'[c] => gone'[c]
        /\ \A c \in Clients : cleaned'[c] /\ socket'[c] = "open" => DialsLate(c)
        /\ \A c \in Clients : (cleaned[c] => cleaned'[c]) /\ (socket'[c] = "open" => socket[c] = "open")
        /\ closes \in Clients => cleaned'[closes]
    BY <2>1, CleansShuts DEF SocketInv
  <2>3. CleanedIsShut'  BY <2>1, <2>2 DEF SocketInv, CleanedIsShut, DialsLate
  <2>4. NoStraySocket'  BY <2>1, <2>2 DEF SocketInv, NoStraySocket, DialsLate, Attempting
  <2> QED  BY <2>3, <2>4 DEF SocketInv
<1> QED  BY <1>1, <1>2, <1>3, <1>4, DialerKeepsSockets, NewcomerKeepsSockets DEF MqttNext

LEMMA MqttStep == MqttInv /\ [MqttNext]_mVars => MqttInv'
BY NumbersStep, TablesStep, OwnStep, FramesStep, SocketsStep DEF MqttInv, FrameInv, SocketInv

LEMMA MqttInvariant == MqttSpec => []MqttInv
BY MqttInitial, MqttStep, PTL DEF MqttSpec

(* A closing transport has no client, and no dialer but one that cleans up is  *)
(* in a position to install one.                                               *)
ClosingHasNone ==
  mqttClosing => client = NoOne /\ \A d \in Dialers : Active(d) /\ Mine(d) => place[d] = "cleans"

(* The client is of the current generation: whoever dialled it made that, and  *)
(* who gave it up, or closes another, has it no more.                          *)
ClientIsCurrents ==
  /\ \A d \in Dialers : Active(d) /\ client # NoOne /\ has[d] = client => gen[d] = generation
  /\ \A d \in Dialers : place[d] = "closesOwn" => client = NoOne \/ gen[d] # generation
  /\ closes # NoOne => closes # client

(* It was not cleaned up.                                                      *)
ClientIsWhole == client \in Clients => ~cleaned[client]

GivenUpInv == ClosingHasNone /\ ClientIsCurrents /\ ClientIsWhole

LEMMA GivenUpInitial == MqttInit => GivenUpInv
BY DEF MqttInit, GivenUpInv, ClosingHasNone, ClientIsCurrents, ClientIsWhole, Active, NoOne, Clients

(* A step of a dialer that leaves the client, or lets it go.                   *)
LEMMA GivenUpGoesOn ==
  ASSUME GivenUpInv, Numbers, NEW d \in Dialers, NEW next, Go(d, next),
         UNCHANGED <<generation, has, gen, closes>>, client' \in {client, NoOne},
         mqttConnecting' => mqttConnecting, mqttClosing' => mqttClosing \/ (client' = NoOne /\ ~mqttConnecting'),
         place[d] = "cleans" => ~mqttClosing', Active(d),
         next = "closesOwn" => client' = NoOne,
         client' \in Clients => cleaned'[client'] = cleaned[client']
  PROVE  GivenUpInv'
<1>1. place'[d] = next /\ \A e \in Dialers : e # d => place'[e] = place[e]  BY DEF Go, Numbers
<1>2. ClosingHasNone'  BY <1>1 DEF GivenUpInv, ClosingHasNone, Active, Mine
<1>3. ClientIsCurrents'  BY <1>1 DEF GivenUpInv, ClientIsCurrents, Active
<1>4. ClientIsWhole'  BY DEF GivenUpInv, ClientIsWhole, Clients, NoOne
<1> QED  BY <1>2, <1>3, <1>4 DEF GivenUpInv

(* Who cleans up does not clean up the client.                                 *)
LEMMA CleansAnother ==
  ASSUME GivenUpInv, OwnClient, Tables, NEW d \in Dialers, client \in Clients,
         \/ place[d] = "cleans" /\ Cleans(has[d])
         \/ place[d] = "closesOwn" /\ Cleans(has[d])
         \/ place[d] = "aborts" /\ gen[d] # generation /\ Cleans(has[d])
  PROVE  cleaned'[client] = cleaned[client] /\ gone'[client] = gone[client] /\ socket'[client] = socket[client]
<1>1. has[d] # client
  BY DEF GivenUpInv, ClientIsCurrents, OwnClient, Active, Reserved, Clients, NoOne
<1>2. Cleans(has[d])  OBVIOUS
<1> QED  BY <1>1, <1>2, CleansGives

LEMMA GivenUpDialer ==
  ASSUME MqttInv, GivenUpInv, NEW d \in Dialers, Reserve(d) \/ DialerStep(d)
  PROVE  GivenUpInv'
<1>1. Numbers /\ Tables /\ OwnGeneration /\ OwnClient /\ Unbuilt /\ CleanedIsShut  BY DEF MqttInv
<1> USE DEF state, counts, closers, dialers
<1>2. CASE Reserve(d)
  <2>1. CASE Go(d, "over") /\ UNCHANGED <<state, has, gen>>
    <3>1. place'[d] = "over" /\ \A e \in Dialers : e # d => place'[e] = place[e]  BY <1>1, <2>1 DEF Go, Numbers
    <3>2. UNCHANGED <<closes, cleaned>>  BY <1>2 DEF Reserve, clientVars
    <3>3. ClosingHasNone'  BY <2>1, <3>1 DEF GivenUpInv, ClosingHasNone, Active, Mine
    <3>4. ClientIsCurrents' /\ ClientIsWhole'
      BY <2>1, <3>1, <3>2 DEF GivenUpInv, ClientIsCurrents, ClientIsWhole, Active
    <3> QED  BY <3>3, <3>4 DEF GivenUpInv
  <2>2. CASE ~(Go(d, "over") /\ UNCHANGED <<state, has, gen>>)
    <3>1. /\ gen' = [gen EXCEPT ![d] = generation + 1] /\ generation' = generation + 1
          /\ client' = NoOne /\ mqttClosing' = (client # NoOne)
          /\ Go(d, IF client # NoOne THEN "cleans" ELSE "builds")
      BY <1>2, <2>2 DEF Reserve
    <3>2. mqttClosing' => place'[d] = "cleans"  BY <1>1, <3>1 DEF Go, Numbers
    <3>3. \A e \in Dialers : Mine(e)' => e = d  BY <1>1, <3>1 DEF Mine, Numbers, OwnGeneration
    <3>4. ClosingHasNone'  BY <3>1, <3>2, <3>3 DEF ClosingHasNone
    <3>5. ClientIsCurrents' /\ ClientIsWhole'
      BY <1>2, <3>1 DEF Reserve, ClientIsCurrents, ClientIsWhole, Clients, NoOne
    <3> QED  BY <3>4, <3>5 DEF GivenUpInv
  <2> QED  BY <2>1, <2>2
<1>3. CASE Cleaned(d)
  <2>1. client \in Clients => cleaned'[client] = cleaned[client]
    BY <1>1, <1>3, CleansAnother DEF Cleaned
  <2> QED  BY <1>1, <1>3, <2>1, GivenUpGoesOn DEF Cleaned, Active
<1>4. CASE Install(d)
  <2>1. /\ built' = built + 1 /\ has' = [has EXCEPT ![d] = built'] /\ place[d] = "builds"
        /\ UNCHANGED <<generation, mqttConnecting, mqttClosing, gen, closes, cleaned>>
        /\ \/ Mine(d) /\ client' = built' /\ Go(d, "installed")
           \/ ~Mine(d) /\ client' = client /\ Go(d, "aborts")
    BY <1>4 DEF Install, clientVars
  <2>2. /\ has'[d] = built + 1 /\ place'[d] \in {"installed", "aborts"} /\ built \in Nat
        /\ \A e \in Dialers : e # d => place'[e] = place[e] /\ has'[e] = has[e]
    BY <1>1, <2>1 DEF Go, Numbers
  <2>3. /\ \A e \in Dialers : has[e] <= built /\ has[e] \in Nat
        /\ client <= built /\ closes <= built /\ client \in Nat /\ closes \in Nat
    BY <1>1 DEF Unbuilt, Numbers
  <2>4. CASE Mine(d) /\ client' = built'
    <3>1. ~mqttClosing  BY <2>1, <2>4 DEF GivenUpInv, ClosingHasNone, Active
    <3>2. \A e \in Dialers : gen[e] = generation => e = d
      BY <1>1, <2>1, <2>4 DEF OwnGeneration, Mine, Active
    <3>3. \A e \in Dialers : e # d => has'[e] # client'  BY <2>1, <2>2, <2>3, <2>4
    <3>4. ClosingHasNone'  BY <2>1, <3>1 DEF ClosingHasNone
    <3>5. ClientIsCurrents'
      <4>1. closes' = closes /\ client' = built + 1  BY <2>1, <2>4
      <4>2. closes' # client'  BY ONLY <2>2, <2>3, <4>1
      <4>3. gen[d] = generation  BY <2>4 DEF Mine
      <4> QED  BY <2>1, <2>2, <3>2, <3>3, <4>2, <4>3 DEF ClientIsCurrents
    <3>6. ClientIsWhole'
      <4> SUFFICES ASSUME client' \in Clients  PROVE  ~cleaned[client']  BY <2>1 DEF ClientIsWhole
      <4>1. client' > built  BY <2>1, <2>2, <2>4
      <4> QED  BY <1>1, <4>1 DEF Unbuilt, CleanedIsShut
    <3> QED  BY <3>4, <3>5, <3>6 DEF GivenUpInv
  <2>5. CASE ~Mine(d) /\ client' = client
    <3>1. ~Mine(d)'  BY <2>1, <2>5 DEF Mine
    <3>2. has'[d] # client  BY <2>2, <2>3
    <3>3. ClosingHasNone'  BY <2>1, <2>2, <2>5, <3>1 DEF GivenUpInv, ClosingHasNone, Active, Mine
    <3>4. ClientIsCurrents'  BY <2>1, <2>2, <2>5, <3>2 DEF GivenUpInv, ClientIsCurrents, Active
    <3>5. ClientIsWhole'  BY <2>1, <2>5 DEF GivenUpInv, ClientIsWhole
    <3> QED  BY <3>3, <3>4, <3>5 DEF GivenUpInv
  <2> QED  BY <2>1, <2>4, <2>5
<1>5. CASE StartWorker(d) \/ Dial(d) \/ Dialled(d)
  <2>1. UNCHANGED <<client, generation, mqttConnecting, mqttClosing, has, gen, closes, cleaned>>
        /\ place[d] \in {"installed", "dials", "dialled"}
    BY <1>5 DEF StartWorker, Dial, Dialled
  <2>2. Go(d, "aborts") \/ Go(d, "dials") \/ Go(d, "dialled") \/ Go(d, "connects")
    BY <1>5 DEF StartWorker, Dial, Dialled
  <2> QED  BY <1>1, <2>1, <2>2, GivenUpGoesOn DEF Active
<1>6. CASE Waited(d) \/ TimedOut(d) \/ Finish(d)
  <2>1. /\ UNCHANGED <<client, generation, mqttClosing, has, gen, closes, cleaned>>
        /\ mqttConnecting' => mqttConnecting
        /\ place[d] \in {"connects", "subscribes", "shakes", "finishes"}
    BY <1>6 DEF Waited, TimedOut, Finish, clientVars
  <2>2. Go(d, "aborts") \/ Go(d, "subscribes") \/ Go(d, "shakes") \/ Go(d, "finishes") \/ Go(d, "over")
    BY <1>6 DEF Waited, TimedOut, Finish
  <2> QED  BY <1>1, <2>1, <2>2, GivenUpGoesOn DEF Active
<1>7. CASE MqttAborts(d)
  <2>1. CASE gen[d] = generation
    <3>1. /\ client' = NoOne /\ mqttConnecting' = FALSE /\ Go(d, "closesOwn") /\ place[d] = "aborts"
          /\ UNCHANGED <<generation, has, gen, closes, cleaned>>
      BY <1>7, <2>1 DEF MqttAborts, clientVars
    <3> QED  BY <1>1, <3>1, GivenUpGoesOn DEF Active
  <2>2. CASE gen[d] # generation
    <3>1. /\ Cleans(has[d]) /\ Go(d, "over") /\ place[d] = "aborts"
          /\ UNCHANGED <<client, generation, mqttConnecting, mqttClosing, has, gen, closes>>
      BY <1>7, <2>2 DEF MqttAborts
    <3>2. client \in Clients => cleaned'[client] = cleaned[client]  BY <1>1, <2>2, <3>1, CleansAnother
    <3> QED  BY <1>1, <3>1, <3>2, GivenUpGoesOn DEF Active
  <2> QED  BY <2>1, <2>2
<1>8. CASE MqttAborted(d)
  <2>1. client \in Clients => cleaned'[client] = cleaned[client]
    BY <1>1, <1>8, CleansAnother DEF MqttAborted
  <2> QED  BY <1>1, <1>8, <2>1, GivenUpGoesOn DEF MqttAborted, Active
<1>9. CASE Retry(d)
  <2>1. UNCHANGED <<client, generation, mqttConnecting, mqttClosing, has, gen, closes, cleaned>> /\ Go(d, "idle")
    BY <1>9 DEF Retry, clientVars
  <2>2. place'[d] = "idle" /\ \A e \in Dialers : e # d => place'[e] = place[e]  BY <1>1, <2>1 DEF Go, Numbers
  <2>3. ClosingHasNone'  BY <2>1, <2>2 DEF GivenUpInv, ClosingHasNone, Active, Mine
  <2>4. ClientIsCurrents' /\ ClientIsWhole'
    BY <2>1, <2>2 DEF GivenUpInv, ClientIsCurrents, ClientIsWhole, Active
  <2> QED  BY <2>3, <2>4 DEF GivenUpInv
<1> QED  BY <1>2, <1>3, <1>4, <1>5, <1>6, <1>7, <1>8, <1>9 DEF DialerStep

LEMMA GivenUpStep ==
  ASSUME MqttInv, GivenUpInv, [MqttNext]_mVars
  PROVE  GivenUpInv'
<1>1. ASSUME UNCHANGED <<client, generation, mqttConnecting, mqttClosing, place, has, gen, closes, cleaned>>
      PROVE  GivenUpInv'
  BY <1>1 DEF GivenUpInv, ClosingHasNone, ClientIsCurrents, ClientIsWhole, Active, Mine
<1>2. CASE CallbackMoves \/ MqttSendFails \/ UNCHANGED mVars
  <2>1. UNCHANGED <<client, generation, mqttConnecting, mqttClosing, place, has, gen, closes, cleaned>>
    BY <1>2 DEF CallbackMoves, OnConnect, OnSubscribe, OnDisconnect, OnMessage, WorkerEnds, Handle, HandleFails,
       MqttSendFails, mVars, state, clientVars, dialers, closers
  <2> QED  BY <1>1, <2>1
<1>3. CASE MqttDisconnect
  <2>1. /\ generation' = generation + 1 /\ mqttConnecting' = FALSE /\ UNCHANGED <<place, has, gen, cleaned>>
        /\ closer = "idle"
        /\ \/ mqttClosing /\ client' = client /\ closes' = closes
           \/ client' = NoOne
    BY <1>3 DEF MqttDisconnect, clientVars, dialers
  <2>2. client' = NoOne  BY <2>1 DEF GivenUpInv, ClosingHasNone
  <2>3. ClosingHasNone'  BY <2>1, <2>2 DEF ClosingHasNone, Mine
  <2>4. closes' # NoOne => closes' # client'  BY <2>2
  <2> QED  BY <2>2, <2>3, <2>4 DEF GivenUpInv, ClientIsCurrents, ClientIsWhole, Clients, NoOne
<1>4. CASE MqttDisconnected
  <2>1. /\ Cleans(closes) /\ closes' = NoOne /\ mqttClosing' = FALSE
        /\ UNCHANGED <<client, generation, mqttConnecting, place, has, gen>>
    BY <1>4 DEF MqttDisconnected, dialers
  <2>2. ClientIsWhole'
    <3> SUFFICES ASSUME client \in Clients  PROVE  ~cleaned'[client]  BY <2>1 DEF ClientIsWhole
    <3>1. closes # client  BY DEF GivenUpInv, ClientIsCurrents, Clients, NoOne
    <3> QED  BY <2>1, <3>1, CleansGives DEF MqttInv, GivenUpInv, ClientIsWhole
  <2>3. ClosingHasNone'  BY <2>1 DEF ClosingHasNone
  <2>4. ClientIsCurrents'  BY <2>1 DEF GivenUpInv, ClientIsCurrents, Active
  <2> QED  BY <2>2, <2>3, <2>4 DEF GivenUpInv
<1> QED  BY <1>2, <1>3, <1>4, GivenUpDialer DEF MqttNext, CallbackMoves

(* Why a connected transport stops being connected.                            *)
MqttReasons ==
  \/ client' = client /\ gone'[client] /\ ~cleaned'[client]
  \/ client' = client /\ lastError' = "other"
  \/ client' = NoOne /\ generation' # generation
  \/ client' = NoOne /\ \E d \in Dialers : has[d] = client /\ gen[d] = generation /\ place[d] = "aborts"

LEMMA MqttOwnEnd ==
  ASSUME MqttInv, GivenUpInv, [MqttNext]_mVars, MqttConnected, ~MqttConnected'
  PROVE  MqttReasons
<1>1. /\ Numbers /\ Tables /\ OwnClient /\ client \in Clients /\ client # NoOne /\ socket[client] = "open"
      /\ {"connected", "handshake"} \subseteq flags /\ ~cleaned[client]
  BY DEF MqttInv, ShakenHasRead, MqttConnected, GivenUpInv, ClientIsWhole
<1>2. ~(UNCHANGED client /\ socket'[client] = socket[client] /\ flags \ {"subscribed"} \subseteq flags')
  BY <1>1 DEF MqttConnected
<1> USE DEF state, counts, closers, dialers
<1>3. ASSUME NEW d \in Dialers, Reserve(d) \/ DialerStep(d)
      PROVE  MqttReasons
  <2>1. CASE Reserve(d)  BY <1>2, <2>1 DEF Reserve, clientVars
  <2>2. CASE Cleaned(d)  BY <1>1, <1>2, <2>2, CleansAnother DEF Cleaned
  <2>3. CASE Install(d)
    <3>1. ~Mine(d)  BY <1>1, <2>3 DEF Install, OwnClient, Active, Reserved, Mine
    <3> QED  BY <1>2, <2>3, <3>1 DEF Install, clientVars
  <2>4. CASE StartWorker(d) \/ Dial(d)
    <3>1. UNCHANGED <<client, flags>> /\ socket' \in {socket, [socket EXCEPT ![has[d]] = "open"]}
      BY <2>4 DEF StartWorker, Dial
    <3> QED  BY <1>1, <1>2, <3>1 DEF Tables
  <2>5. CASE Dialled(d)
    <3>1. UNCHANGED <<client, flags, gone, cleaned>> /\ (has[d] = client => gone[client])
          /\ socket' = [socket EXCEPT ![has[d]] = "shut"]
      BY <1>2, <2>5 DEF Dialled, ShutsLate
    <3>2. has[d] = client  BY <1>1, <1>2, <3>1 DEF Tables
    <3> QED  BY <1>1, <3>1, <3>2 DEF MqttReasons
  <2>6. CASE Waited(d) \/ TimedOut(d) \/ Finish(d) \/ Retry(d)
    BY <1>2, <2>6 DEF Waited, TimedOut, Finish, Retry, clientVars
  <2>7. CASE MqttAborts(d)
    <3>1. CASE gen[d] = generation
      <4>1. client' = NoOne /\ place[d] = "aborts"  BY <2>7, <3>1 DEF MqttAborts
      <4>2. has[d] = client  BY <1>1, <3>1, <4>1 DEF OwnClient, Active
      <4> QED  BY <3>1, <4>1, <4>2 DEF MqttReasons
    <3>2. CASE gen[d] # generation
      BY <1>1, <1>2, <2>7, <3>2, CleansAnother DEF MqttAborts
    <3> QED  BY <3>1, <3>2
  <2>8. CASE MqttAborted(d)  BY <1>1, <1>2, <2>8, CleansAnother DEF MqttAborted
  <2> QED  BY <1>3, <2>1, <2>2, <2>3, <2>4, <2>5, <2>6, <2>7, <2>8 DEF DialerStep
<1>4. ASSUME NEW c \in Clients, OnConnect(c) \/ OnSubscribe(c) \/ WorkerEnds(c) \/ Handle(c)
      PROVE  MqttReasons
  BY <1>2, <1>4 DEF OnConnect, OnSubscribe, WorkerEnds, Handle, clientVars
<1>5. ASSUME NEW c \in Clients, OnDisconnect(c) \/ OnMessage(c) \/ HandleFails(c)
      PROVE  MqttReasons
  <2>1. UNCHANGED <<client, cleaned>>
    BY <1>5 DEF OnDisconnect, OnMessage, HandleFails
  <2>2. CASE c = client
    <3>1. gone'[client]
      BY <1>1, <1>2, <1>5, <2>2 DEF OnDisconnect, OnMessage, Overflows, HandleFails, Tables
    <3> QED  BY <1>1, <2>1, <3>1 DEF MqttReasons
  <2>3. CASE c # client
    BY <1>1, <1>2, <1>5, <2>3 DEF OnDisconnect, OnMessage, HandleFails, Reads, Tables
  <2> QED  BY <2>2, <2>3
<1>6. CASE MqttDisconnect
  <2>1. ~mqttClosing  BY <1>1 DEF GivenUpInv, ClosingHasNone
  <2> QED  BY <1>1, <1>6, <2>1 DEF MqttDisconnect, MqttReasons, Numbers
<1>7. CASE MqttDisconnected
  <2>1. closes # client  BY <1>1 DEF GivenUpInv, ClientIsCurrents
  <2>2. socket'[client] = socket[client]  BY <1>1, <1>7, <2>1, CleansGives DEF MqttDisconnected
  <2> QED  BY <1>1, <1>2, <1>7, <2>2 DEF MqttDisconnected
<1>8. CASE MqttSendFails  BY <1>8 DEF MqttSendFails, MqttReasons
<1>9. ~UNCHANGED mVars  BY <1>2 DEF mVars
<1> QED  BY <1>3, <1>4, <1>5, <1>6, <1>7, <1>8, <1>9 DEF MqttNext

-----------------------------------------------------------------------------
(* HttpsCarrier: its variables, one kind after the other.                      *)
Requests == [path : {"connect", "text", "binary", "send", "disconnect"}, at : Replicas,
             reply : {"none", "ok", "already", "error"}, batch : Seq(Nat)]
CarrierFlags ==
  admitted \in BOOLEAN /\ connected \in BOOLEAN /\ carrierStopped \in BOOLEAN /\ closed \in BOOLEAN /\ sending \in BOOLEAN
CarrierSets ==
  /\ cookie \in Replicas \cup {NoReplica} /\ admissions \subseteq Replicas
  /\ pending = NoRequest \/ pending \in Requests
FrameTypes == queue \in Seq(Nat) /\ got \in Seq(Nat) /\ outbox \in Seq(Nat) /\ queued \in Nat
CarrierTypes == CarrierFlags /\ CarrierSets /\ FrameTypes

(* A request under way is still wanted, and goes to the cookie's replica.      *)
RequestIsWanted ==
  /\ pending.path = "connect" => admission = "runs"
  /\ pending.path \in {"text", "binary"} => poller = pending.path
  /\ pending.path = "disconnect" => closeStep = "asks"
  /\ pending # NoRequest /\ cookie # NoReplica => pending.at = cookie

(* What the hub did with it.                                                   *)
HubHasActed ==
  /\ pending # NoRequest /\ pending.reply = "none" => pending.batch = <<>>
  /\ pending.path = "disconnect" /\ pending.reply # "none" => pending.at \notin admissions
  /\ pending.path = "connect" /\ pending.reply # "none" => pending.reply = "ok" /\ outbox = <<>> /\ queued = 0

(* The poller polls.                                                           *)
Polling == poller \in {"sleeps", "text", "binary"}

(* Where a carrier can be.                                                     *)
Opening ==
  admission = "runs" => /\ ~admitted /\ ~closed /\ poller = "none" /\ got = <<>>
                        /\ \A i \in 1..Len(queue) : queue[i] = End
                        /\ ~carrierStopped => queue = <<>> /\ receiver = "handshake"
Admitted ==
  /\ admitted => cookie # NoReplica
  /\ closed => ~admitted
  /\ closeStep = "asks" => admission # "runs"
Stopping ==
  /\ closeStep # "idle" => carrierStopped
  /\ carrierStopped => ~Polling
  /\ carrierStopped /\ receiver \notin {"none", "ended"} => \E i \in 1..Len(queue) : queue[i] = End
Reading ==
  Polling => /\ admitted /\ receiver \in {"handshake", "reads"}
             /\ poller = "binary" => receiver = "reads"
             /\ receiver = "reads" => got # <<>>

(* While the poller polls, what was taken, what waits to be, what an answer    *)
(* brings and what the hub still has are the frames the hub queued, in order.  *)
Batch == IF pending.path \in {"text", "binary"} THEN pending.batch ELSE <<>>
FramesFollow ==
  Polling =>
    /\ \A i \in 1..Len(got \o queue) : (got \o queue)[i] = i
    /\ \A i \in 1..Len(Batch) : Batch[i] = Len(got \o queue) + i
    /\ cookie \in admissions =>
         /\ queued = Len(got \o queue) + Len(Batch) + Len(outbox)
         /\ \A i \in 1..Len(outbox) : outbox[i] = Len(got \o queue) + Len(Batch) + i

CarrierInv == /\ CarrierTypes /\ RequestIsWanted /\ HubHasActed /\ Opening /\ Admitted /\ Stopping /\ Reading
              /\ FramesFollow /\ NoFrameLost /\ HeldIsKnown

-----------------------------------------------------------------------------
LEMMA CarrierInitial == CarrierInit => CarrierInv
<1> SUFFICES ASSUME CarrierInit PROVE CarrierInv  OBVIOUS
<1> USE DEF CarrierInit, NoRequest
<1>1. CarrierTypes
  <2>1. CarrierFlags  BY DEF CarrierFlags
  <2>2. CarrierSets  BY DEF CarrierSets
  <2>3. FrameTypes  BY DEF FrameTypes
  <2> QED  BY <2>1, <2>2, <2>3 DEF CarrierTypes
<1>2. RequestIsWanted /\ HubHasActed /\ Admitted /\ HeldIsKnown
  BY DEF RequestIsWanted, HubHasActed, Admitted, HeldIsKnown
<1>3. Opening /\ Stopping /\ Reading /\ FramesFollow
  BY DEF Opening, Stopping, Reading, FramesFollow, Polling
<1>4. NoFrameLost  BY DEF NoFrameLost
<1> QED  BY <1>1, <1>2, <1>3, <1>4 DEF CarrierInv

(* Once its answer is read or nobody waits for it, a request asks nothing.     *)
LEMMA NothingAsked ==
  ASSUME pending' = NoRequest
  PROVE  RequestIsWanted' /\ HubHasActed' /\ Batch' = <<>> /\ (pending \in Requests => pending # NoRequest)
BY DEF RequestIsWanted, HubHasActed, Batch, NoRequest, Requests

(* The frames stay as they are.                                                *)
LEMMA ReadKept ==
  ASSUME CarrierInv, UNCHANGED carried
  PROVE  NoFrameLost'
BY DEF CarrierInv, NoFrameLost, carried

LEMMA FramesFollowOn ==
  ASSUME CarrierInv, UNCHANGED <<carried, queued, outbox>>, Polling' => Polling /\ Batch' = Batch,
         Polling' /\ cookie' \in admissions' => cookie \in admissions
  PROVE  FramesFollow'
BY DEF CarrierInv, FramesFollow, carried

(* An answer moves the cookie of nobody who was admitted.                      *)
LEMMA CookieStays ==
  ASSUME CarrierInv, pending # NoRequest, pending.path # "connect", NEW good, Heard(good), admitted
  PROVE  cookie' = cookie
BY DEF CarrierInv, Admitted, RequestIsWanted, Heard

LEMMA OpenKeeps ==
  ASSUME CarrierInv, Open
  PROVE  CarrierInv'
<1> USE DEF Open, hubVars
<1>1. CarrierTypes'
  <2>1. CarrierFlags'  BY DEF CarrierFlags
  <2>2. CarrierSets'  BY DEF CarrierInv, CarrierTypes, CarrierSets
  <2>3. FrameTypes'  BY DEF CarrierInv, CarrierTypes, FrameTypes
  <2> QED  BY <2>1, <2>2, <2>3 DEF CarrierTypes
<1>2. RequestIsWanted' /\ HubHasActed'  BY NothingAsked
<1>3. HeldIsKnown'  BY DEF CarrierInv, HeldIsKnown, Admitted, NoRequest
<1>4. Opening' /\ Admitted' /\ Stopping' /\ Reading' /\ FramesFollow'
  BY DEF Opening, Admitted, Stopping, Reading, FramesFollow, Polling
<1>5. NoFrameLost'  BY DEF NoFrameLost
<1> QED  BY <1>1, <1>2, <1>3, <1>4, <1>5 DEF CarrierInv

LEMMA AskKeeps ==
  ASSUME CarrierInv, Ask
  PROVE  CarrierInv'
<1>1. PICK p \in Wanted, r \in IF cookie = NoReplica THEN Replicas ELSE {cookie} :
        pending' = [path |-> p, at |-> r, reply |-> "none", batch |-> <<>>]
  BY DEF Ask
<1>2. /\ pending = NoRequest /\ r \in Replicas /\ p \in {"connect", "text", "binary", "send", "disconnect"}
      /\ pending'.path = p /\ pending'.at = r /\ pending'.reply = "none" /\ pending'.batch = <<>>
  BY <1>1 DEF Ask, CarrierInv, CarrierTypes, CarrierSets, Wanted
<1>3. UNCHANGED <<cookie, carriers, carrierFlags, admission, poller, receiver, carried, closeStep, sending, hubVars, unheard>>
  BY DEF Ask
<1>4. CarrierTypes'
  <2>1. pending' \in Requests  BY <1>1, <1>2 DEF Requests
  <2> QED  BY <1>3, <2>1 DEF CarrierInv, CarrierTypes, CarrierFlags, CarrierSets, FrameTypes, carrierFlags, carried, hubVars
<1>5. RequestIsWanted'
  BY <1>1, <1>2, <1>3 DEF RequestIsWanted, Wanted
<1>6. HubHasActed'  BY <1>2 DEF HubHasActed
<1>7. Batch = <<>> /\ Batch' = <<>>  BY <1>2 DEF Batch, NoRequest
<1>8. HeldIsKnown'  BY <1>2, <1>3 DEF CarrierInv, HeldIsKnown, NoRequest, carrierFlags, hubVars
<1>9. Opening' /\ Admitted' /\ Stopping' /\ Reading'
  BY <1>3 DEF CarrierInv, Opening, Admitted, Stopping, Reading, Polling, carrierFlags, carried
<1>10. FramesFollow'  BY <1>3, <1>7, FramesFollowOn DEF Polling, hubVars
<1> QED  BY <1>3, <1>4, <1>5, <1>6, <1>8, <1>9, <1>10, ReadKept DEF CarrierInv

LEMMA ActsKeeps ==
  ASSUME CarrierInv, Acts
  PROVE  CarrierInv'
<1> DEFINE r == pending.at
           known == r \in admissions
           Text == IF outbox # <<>> /\ Head(outbox) = 1 THEN <<1>> ELSE <<>>
           Binary == IF Text = <<>> THEN outbox ELSE Tail(outbox)
           reply == IF pending.path = "connect" \/ known THEN "ok"
                    ELSE IF pending.path = "disconnect" THEN "already" ELSE "error"
           batch == CASE known /\ pending.path = "text" -> Text
                      [] known /\ pending.path = "binary" -> Binary [] OTHER -> <<>>
<1>1. UNCHANGED <<cookie, carriers, carrierFlags, admission, poller, receiver, carried, closeStep, sending, unheard, restarts>>
  BY DEF Acts
<1>2. pending # NoRequest /\ pending.reply = "none" /\ pending' = [pending EXCEPT !.reply = reply, !.batch = batch]
  BY DEF Acts
<1>3. pending \in Requests /\ outbox \in Seq(Nat) /\ queue \in Seq(Nat) /\ got \in Seq(Nat) /\ queued \in Nat
  BY <1>2 DEF CarrierInv, CarrierTypes, CarrierSets, FrameTypes
<1>4. Text \in Seq(Nat) /\ Binary \in Seq(Nat)  BY <1>3
<1>5. batch \in Seq(Nat) /\ reply \in {"ok", "already", "error"}  BY <1>4
<1>6. /\ pending' \in Requests /\ pending'.path = pending.path /\ pending'.at = pending.at
      /\ pending'.reply = reply /\ pending'.batch = batch
  <2> HIDE DEF reply, batch
  <2> QED  BY <1>2, <1>3, <1>5 DEF Requests
<1>7. admissions' = (CASE pending.path = "connect" -> admissions \cup {r}
                       [] pending.path = "disconnect" -> admissions \ {r} [] OTHER -> admissions)
  BY DEF Acts
<1>8. outbox' = (CASE pending.path \in {"connect", "disconnect"} -> <<>>
                   [] known /\ pending.path = "text" -> Binary [] known /\ pending.path = "binary" -> Text
                   [] OTHER -> outbox)
  BY DEF Acts
<1>9. queued' = IF pending.path \in {"connect", "disconnect"} THEN 0 ELSE queued
  BY DEF Acts
<1> HIDE DEF reply, batch, Text, Binary
<1>10. CarrierTypes'
  <2>1. CarrierFlags'  BY <1>1 DEF CarrierInv, CarrierTypes, CarrierFlags, carrierFlags
  <2>2. admissions' \subseteq Replicas
    BY <1>3, <1>7 DEF CarrierInv, CarrierTypes, CarrierSets, Requests
  <2>3. outbox' \in Seq(Nat)  BY <1>3, <1>4, <1>8
  <2>4. queued' \in Nat  BY <1>3, <1>9
  <2> QED  BY <1>1, <1>3, <1>6, <2>1, <2>2, <2>3, <2>4 DEF CarrierInv, CarrierTypes, CarrierSets, FrameTypes, carried
<1>11. RequestIsWanted'
  BY <1>1, <1>2, <1>6 DEF CarrierInv, RequestIsWanted
<1>12. HubHasActed'
  <2>1. pending'.reply # "none"  BY <1>5, <1>6
  <2>2. pending.path = "disconnect" => pending.at \notin admissions'  BY <1>7
  <2>3. pending.path = "connect" => reply = "ok" /\ outbox' = <<>> /\ queued' = 0  BY <1>8, <1>9 DEF reply
  <2> QED  BY <1>6, <2>1, <2>2, <2>3 DEF HubHasActed
<1>13. HeldIsKnown'
  BY <1>1, <1>6, <1>7 DEF CarrierInv, HeldIsKnown, carrierFlags
<1>14. Opening' /\ Admitted' /\ Stopping' /\ Reading'
  BY <1>1 DEF CarrierInv, Opening, Admitted, Stopping, Reading, Polling, carrierFlags, carried
<1>15. FramesFollow'
  <2> SUFFICES ASSUME Polling PROVE FramesFollow'  BY <1>1 DEF FramesFollow, Polling
  <2>1. admitted /\ r = cookie /\ pending.path \notin {"connect", "disconnect"}
    BY <1>2 DEF CarrierInv, Opening, Admitted, Stopping, Reading, RequestIsWanted, Polling
  <2>2. Batch = <<>>  BY <1>2 DEF CarrierInv, HubHasActed, Batch
  <2>3. admissions' = admissions /\ queued' = queued  BY <1>7, <1>9, <2>1
  <2>4. CASE ~known \/ pending.path \notin {"text", "binary"}
    <3>1. Batch' = <<>>
      <4>1. pending.path \in {"text", "binary"} => batch = <<>>  BY <2>4 DEF batch
      <4> QED  BY <1>6, <4>1 DEF Batch
    <3>2. outbox' = outbox  BY <1>8, <2>1, <2>4
    <3> QED  BY <1>1, <2>2, <2>3, <3>1, <3>2, FramesFollowOn
  <2>5. CASE known /\ pending.path \in {"text", "binary"}
    <3> DEFINE n == Len(got \o queue)
    <3>1. /\ \A i \in 1..n : (got \o queue)[i] = i
          /\ queued = n + Len(outbox) /\ \A i \in 1..Len(outbox) : outbox[i] = n + i
      BY <1>3, <2>1, <2>2, <2>5 DEF CarrierInv, FramesFollow
    <3>2. n \in Nat /\ got' = got /\ queue' = queue /\ cookie' = cookie  BY <1>1, <1>3 DEF carried
    <3>3. Batch' = batch  BY <1>6, <2>5 DEF Batch
    <3> HIDE DEF n
    <3>4. CASE pending.path = "text" /\ outbox # <<>> /\ n = 0
      <4>1. Head(outbox) = 1  BY <1>3, <3>1, <3>4
      <4>2. Batch' = <<1>> /\ outbox' = Tail(outbox)  BY <1>8, <2>5, <3>3, <3>4, <4>1 DEF batch, Text, Binary
      <4>3. Len(outbox') = Len(outbox) - 1 /\ \A i \in 1..Len(outbox') : outbox'[i] = 1 + i
        BY <1>3, <3>1, <3>4, <4>2
      <4> QED  BY <1>3, <2>3, <3>1, <3>2, <3>4, <4>2, <4>3 DEF FramesFollow, n
    <3>5. CASE pending.path = "text" /\ ~(outbox # <<>> /\ n = 0)
      <4>1. outbox # <<>> => Head(outbox) # 1  BY <1>3, <3>1, <3>2, <3>5
      <4>2. Text = <<>>  BY <4>1 DEF Text
      <4>3. Batch' = <<>> /\ outbox' = outbox  BY <1>8, <2>5, <3>3, <3>5, <4>2 DEF batch, Binary
      <4> QED  BY <2>2, <2>3, <1>1, <4>3, FramesFollowOn
    <3>6. CASE pending.path = "binary"
      <4>1. got # <<>>  BY <3>6 DEF CarrierInv, RequestIsWanted, Reading, Polling
      <4>2. n >= 1  BY <1>3, <4>1 DEF n
      <4>3. outbox # <<>> => Head(outbox) # 1  BY <1>3, <3>1, <3>2, <4>2
      <4>4. Text = <<>>  BY <4>3 DEF Text
      <4>5. Batch' = outbox /\ outbox' = <<>>  BY <1>8, <2>5, <3>3, <3>6, <4>4 DEF batch, Binary
      <4> QED  BY <1>3, <2>3, <3>1, <3>2, <4>5 DEF FramesFollow, n
    <3> QED  BY <2>5, <3>4, <3>5, <3>6
  <2> QED  BY <2>4, <2>5
<1> QED  BY <1>1, <1>10, <1>11, <1>12, <1>13, <1>14, <1>15, ReadKept DEF CarrierInv

LEMMA HubMovesKeep ==
  ASSUME CarrierInv, HubQueues \/ Restarts
  PROVE  CarrierInv'
<1>1. UNCHANGED <<cookie, carriers, carrierFlags, admission, poller, receiver, carried, closeStep, sending, pending, unheard>>
  BY DEF HubQueues, Restarts
<1>2. CarrierFlags' /\ Opening' /\ Admitted' /\ Stopping' /\ Reading' /\ RequestIsWanted'
  BY <1>1 DEF CarrierInv, CarrierTypes, CarrierFlags, Opening, Admitted, Stopping, Reading, RequestIsWanted, Polling,
     carrierFlags, carried
<1>3. Batch' = Batch  BY <1>1 DEF Batch
<1>4. admissions \subseteq Replicas /\ queue \in Seq(Nat) /\ got \in Seq(Nat) /\ outbox \in Seq(Nat) /\ queued \in Nat
  BY DEF CarrierInv, CarrierTypes, CarrierSets, FrameTypes
<1>5. CASE HubQueues
  <2>1. /\ cookie \in admissions /\ admitted /\ queued' = queued + 1 /\ outbox' = Append(outbox, queued + 1)
        /\ admissions' = admissions
    BY <1>5 DEF HubQueues
  <2>2. CarrierTypes'
    BY <1>1, <1>2, <1>4, <2>1 DEF CarrierInv, CarrierTypes, CarrierSets, FrameTypes, carried
  <2>3. pending.path # "connect"  BY <2>1 DEF CarrierInv, RequestIsWanted, Opening
  <2>4. HubHasActed'  BY <1>1, <2>1, <2>3 DEF CarrierInv, HubHasActed
  <2>5. HeldIsKnown'  BY <1>1, <2>1 DEF CarrierInv, HeldIsKnown, carrierFlags
  <2>6. FramesFollow'
    <3> SUFFICES ASSUME Polling PROVE FramesFollow'  BY <1>1 DEF FramesFollow, Polling
    <3> DEFINE n == Len(got \o queue)
               b == Len(Batch)
    <3>1. /\ \A i \in 1..n : (got \o queue)[i] = i /\ \A j \in 1..b : Batch[j] = n + j
          /\ queued = n + b + Len(outbox) /\ \A j \in 1..Len(outbox) : outbox[j] = n + b + j
      BY <2>1 DEF CarrierInv, FramesFollow
    <3>2. n \in Nat /\ b \in Nat
      BY <1>4 DEF CarrierInv, CarrierTypes, CarrierSets, Requests, NoRequest, Batch
    <3>3. /\ Len(outbox') = Len(outbox) + 1 /\ Len(outbox) \in Nat
          /\ \A i \in 1..Len(outbox') : outbox'[i] = IF i \in 1..Len(outbox) THEN outbox[i] ELSE queued + 1
      BY <1>4, <2>1
    <3>4. got' = got /\ queue' = queue /\ cookie' = cookie  BY <1>1 DEF carried
    <3>5. n' = n /\ b' = b  BY <1>3, <3>4
    <3>6. \A j \in 1..Len(outbox') : outbox'[j] = n + b + j
      <4> HIDE DEF n, b
      <4> QED  BY <3>1, <3>2, <3>3
    <3>7. queued' = n + b + Len(outbox')
      <4> HIDE DEF n, b
      <4> QED  BY <2>1, <3>1, <3>2, <3>3
    <3>8. (\A i \in 1..n : (got \o queue)[i] = i) /\ \A j \in 1..b : Batch[j] = n + j
      BY DEF CarrierInv, FramesFollow
    <3> QED  BY <1>3, <3>4, <3>6, <3>7, <3>8 DEF FramesFollow
  <2> QED  BY <1>1, <1>2, <2>2, <2>4, <2>5, <2>6, ReadKept DEF CarrierInv
<1>6. CASE Restarts
  <2>1. PICK r \in admissions : admissions' = admissions \ {r} /\ outbox' = IF r = cookie THEN <<>> ELSE outbox
    BY <1>6 DEF Restarts
  <2>2. queued' = queued  BY <1>6 DEF Restarts
  <2>3. CarrierTypes'
    BY <1>1, <1>2, <1>4, <2>1, <2>2 DEF CarrierInv, CarrierTypes, CarrierSets, FrameTypes, carried
  <2>4. HubHasActed'  BY <1>1, <2>1, <2>2 DEF CarrierInv, HubHasActed
  <2>5. HeldIsKnown'  BY <1>1, <2>1 DEF CarrierInv, HeldIsKnown, carrierFlags
  <2>6. FramesFollow'
    <3>1. CASE r = cookie  BY <1>1, <1>3, <2>1, <3>1 DEF CarrierInv, FramesFollow, Polling, carried
    <3>2. CASE r # cookie  BY <1>1, <1>3, <2>1, <2>2, <3>2, FramesFollowOn DEF Polling
    <3> QED  BY <3>1, <3>2
  <2> QED  BY <1>1, <1>2, <2>3, <2>4, <2>5, <2>6, ReadKept DEF CarrierInv
<1> QED  BY <1>5, <1>6

LEMMA AdmitsKeeps ==
  ASSUME CarrierInv, NEW good \in Outcomes, Admits(good)
  PROVE  CarrierInv'
<1>1. /\ pending # NoRequest /\ pending.path = "connect" /\ Heard(good) /\ admission' = "done"
      /\ admitted' = (good = "ok") /\ connected' = (good = "ok" /\ ~carrierStopped)
      /\ UNCHANGED <<carriers, carrierStopped, closed, carried, closeStep, sending, hubVars>>
  BY DEF Admits
<1>2. /\ unheard' = IF good = "lost" /\ pending.at \in admissions THEN unheard \cup {pending.at} ELSE unheard \ {pending.at}
      /\ poller' = IF good = "ok" /\ ~carrierStopped THEN "text" ELSE poller
      /\ receiver' = IF good = "ok" THEN receiver ELSE "ended"
  BY DEF Admits
<1>3. /\ pending \in Requests /\ ~admitted /\ ~closed /\ poller = "none" /\ got = <<>>
      /\ \A i \in 1..Len(queue) : queue[i] = End
      /\ ~carrierStopped => queue = <<>> /\ receiver = "handshake"
  BY <1>1 DEF CarrierInv, CarrierTypes, CarrierSets, RequestIsWanted, Opening
<1>4. good \in {"ok", "lost"} /\ (good = "ok" => pending.reply = "ok" /\ outbox = <<>> /\ queued = 0)
  BY <1>1 DEF Outcomes, CarrierInv, HubHasActed
<1>5. pending.at \in Replicas /\ pending.at # NoReplica  BY <1>3, CarrierShape DEF Requests
<1>6. cookie' = IF good = "ok" THEN pending.at ELSE cookie  BY <1>1, <1>4 DEF Heard
<1>7. pending' = NoRequest  BY <1>1 DEF Heard
<1>8. CarrierTypes'
  <2>1. CarrierFlags'  BY <1>1 DEF CarrierInv, CarrierTypes, CarrierFlags
  <2>2. CarrierSets'  BY <1>1, <1>5, <1>6, <1>7 DEF CarrierInv, CarrierTypes, CarrierSets, hubVars
  <2>3. FrameTypes'  BY <1>1 DEF CarrierInv, CarrierTypes, FrameTypes, carried, hubVars
  <2> QED  BY <2>1, <2>2, <2>3 DEF CarrierTypes
<1>9. Opening' /\ Reading'
  BY <1>1, <1>2, <1>3 DEF Opening, Reading, Polling
<1>10. Admitted'
  BY <1>1, <1>3, <1>5, <1>6 DEF CarrierInv, Admitted
<1>11. Stopping'
  BY <1>1, <1>2, <1>3 DEF CarrierInv, Stopping, Polling, carried
<1>12. FramesFollow'
  <2> SUFFICES ASSUME Polling' PROVE FramesFollow'  BY DEF FramesFollow
  <2>1. good = "ok" /\ ~carrierStopped  BY <1>2, <1>3 DEF Polling
  <2>2. got' = <<>> /\ queue' = <<>> /\ outbox' = <<>> /\ queued' = 0
    BY <1>1, <1>3, <1>4, <2>1 DEF carried, hubVars
  <2> QED  BY <1>7, <2>2, NothingAsked DEF FramesFollow
<1>13. HeldIsKnown'
  BY <1>1, <1>2, <1>3, <1>4, <1>6 DEF CarrierInv, HeldIsKnown, hubVars
<1> QED  BY <1>1, <1>7, <1>8, <1>9, <1>10, <1>11, <1>12, <1>13, NothingAsked, ReadKept DEF CarrierInv

(* What the queue gets comes last of all that was polled.                      *)
LEMMA Longer ==
  ASSUME NEW s \in Seq(Nat), NEW q \in Seq(Nat), NEW b \in Seq(Nat)
  PROVE  LET n == Len(s \o q)
         IN /\ Len(s \o (q \o b)) = n + Len(b) /\ n \in Nat /\ Len(b) \in Nat
            /\ \A i \in 1..n : (s \o (q \o b))[i] = (s \o q)[i]
            /\ \A i \in n+1..n+Len(b) : (s \o (q \o b))[i] = b[i - n]
<1>1. Len(s) \in Nat /\ Len(q) \in Nat /\ Len(b) \in Nat /\ q \o b \in Seq(Nat) /\ Len(q \o b) = Len(q) + Len(b)
      /\ Len(s \o q) = Len(s) + Len(q)
  OBVIOUS
<1>2. Len(s \o (q \o b)) = Len(s) + Len(q) + Len(b)  BY <1>1
<1>3. ASSUME NEW i \in 1..Len(s) + Len(q)
      PROVE  (s \o (q \o b))[i] = (s \o q)[i]
  BY <1>1
<1>4. ASSUME NEW i \in Len(s) + Len(q) + 1..Len(s) + Len(q) + Len(b)
      PROVE  (s \o (q \o b))[i] = b[i - (Len(s) + Len(q))]
  BY <1>1
<1> QED  BY <1>1, <1>2, <1>3, <1>4

LEMMA PolledKeeps ==
  ASSUME CarrierInv, NEW good \in Outcomes, Polled(good)
  PROVE  CarrierInv'
<1>1. /\ pending # NoRequest /\ pending.path \in {"text", "binary"} /\ Heard(good) /\ pending' = NoRequest
      /\ UNCHANGED <<carriers, admitted, connected, closed, admission, got, closeStep, sending, hubVars, unheard>>
  BY DEF Polled, Heard
<1>2. pending \in Requests /\ queue \in Seq(Nat) /\ got \in Seq(Nat) /\ pending.batch \in Seq(Nat) /\ Batch = pending.batch
  BY <1>1 DEF CarrierInv, CarrierTypes, CarrierSets, FrameTypes, Requests, Batch
<1>3. Polling /\ admitted /\ admission # "runs" /\ ~carrierStopped /\ closeStep = "idle"
      /\ receiver \in {"handshake", "reads"} /\ (receiver = "reads" => got # <<>>)
  BY <1>1 DEF CarrierInv, RequestIsWanted, Reading, Opening, Stopping, Polling
<1>4. cookie' = cookie  BY <1>1, <1>3, CookieStays
<1> DEFINE n == Len(got \o queue)
<1>5. (\A i \in 1..n : (got \o queue)[i] = i) /\ (\A i \in 1..Len(Batch) : Batch[i] = n + i)
  BY <1>3 DEF CarrierInv, FramesFollow
<1>6. CarrierSets'
  BY <1>1, <1>4 DEF CarrierInv, CarrierTypes, CarrierSets, hubVars
<1>7. Opening' /\ Admitted'
  BY <1>1, <1>3, <1>4 DEF CarrierInv, Opening, Admitted
<1>8. HeldIsKnown'  BY <1>1, <1>4 DEF CarrierInv, HeldIsKnown, hubVars
<1>9. CASE good = "ok"
  <2>1. /\ queue' = queue \o Batch /\ UNCHANGED <<carrierStopped, receiver>>
        /\ poller' = IF pending.path = "text" /\ receiver = "reads" THEN "binary" ELSE "sleeps"
    BY <1>2, <1>9 DEF Polled
  <2>2. CarrierTypes'
    <3>1. CarrierFlags'  BY <1>1, <2>1 DEF CarrierInv, CarrierTypes, CarrierFlags
    <3>2. FrameTypes'  BY <1>1, <1>2, <2>1 DEF CarrierInv, CarrierTypes, FrameTypes, hubVars
    <3> QED  BY <1>6, <3>1, <3>2 DEF CarrierTypes
  <2>3. Stopping' /\ Reading'
    BY <1>1, <1>3, <2>1 DEF CarrierInv, Stopping, Reading, Polling
  <2>4. /\ Len(got' \o queue') = n + Len(Batch) /\ n \in Nat /\ Len(Batch) \in Nat
        /\ \A i \in 1..n : (got' \o queue')[i] = (got \o queue)[i]
        /\ \A i \in n+1..n+Len(Batch) : (got' \o queue')[i] = Batch[i - n]
    BY ZenonT(40), <1>1, <1>2, <2>1, Longer
  <2>5. /\ Len(got' \o queue') = n + Len(Batch)
        /\ \A i \in 1..Len(got' \o queue') : (got' \o queue')[i] = i
    <3> HIDE DEF n
    <3>1. ASSUME NEW i \in 1..Len(got' \o queue') PROVE (got' \o queue')[i] = i
      <4>1. CASE i \in 1..n  BY <1>5, <2>4, <4>1
      <4>2. CASE i \notin 1..n
        <5>1. i \in n+1..n+Len(Batch) /\ i - n \in 1..Len(Batch)  BY <2>4, <4>2
        <5>2. (got' \o queue')[i] = Batch[i - n] /\ Batch[i - n] = n + (i - n)  BY <1>5, <2>4, <5>1
        <5> QED  BY <2>4, <5>1, <5>2
      <4> QED  BY <4>1, <4>2
    <3> QED  BY <2>4, <3>1
  <2>6. NoFrameLost'  BY <2>5 DEF NoFrameLost
  <2>7. FramesFollow'
    <3>1. Batch' = <<>> /\ Len(<<>>) = 0  BY <1>1, NothingAsked
    <3>2. /\ cookie \in admissions => queued = n + Len(Batch) + Len(outbox)
          /\ cookie \in admissions => \A i \in 1..Len(outbox) : outbox[i] = n + Len(Batch) + i
      BY <1>3 DEF CarrierInv, FramesFollow
    <3>3. n \in Nat /\ Len(Batch) \in Nat /\ outbox \in Seq(Nat) /\ UNCHANGED <<admissions, queued, outbox>>
      BY <1>1, <1>2 DEF CarrierInv, CarrierTypes, FrameTypes, hubVars
    <3> HIDE DEF n
    <3> QED  BY <1>4, <2>5, <3>1, <3>2, <3>3 DEF FramesFollow
  <2> QED  BY <1>1, <1>7, <1>8, <2>2, <2>3, <2>6, <2>7, NothingAsked DEF CarrierInv
<1>10. CASE good # "ok" /\ receiver = "handshake"
  <2>1. poller' = "ended" /\ receiver' = "ended" /\ UNCHANGED <<carrierStopped, queue>>
    BY <1>10 DEF Polled, PollFails
  <2>2. CarrierTypes'
    <3>1. CarrierFlags'  BY <1>1, <2>1 DEF CarrierInv, CarrierTypes, CarrierFlags
    <3>2. FrameTypes'  BY <1>1, <2>1 DEF CarrierInv, CarrierTypes, FrameTypes, hubVars
    <3> QED  BY <1>6, <3>1, <3>2 DEF CarrierTypes
  <2>3. Stopping' /\ Reading' /\ FramesFollow'
    BY <1>1, <1>3, <2>1 DEF Stopping, Reading, FramesFollow, Polling
  <2> QED  BY <1>1, <1>7, <1>8, <2>1, <2>2, <2>3, NothingAsked, ReadKept DEF CarrierInv, carried
<1>11. CASE good # "ok" /\ receiver # "handshake"
  <2>1. poller' = "ended" /\ carrierStopped' = TRUE /\ queue' = Append(queue, End) /\ UNCHANGED receiver
    BY <1>11 DEF Polled, PollFails
  <2>2. CarrierTypes'
    <3>1. CarrierFlags'  BY <1>1, <2>1 DEF CarrierInv, CarrierTypes, CarrierFlags
    <3>2. FrameTypes'  BY <1>1, <2>1 DEF CarrierInv, CarrierTypes, FrameTypes, hubVars, End
    <3> QED  BY <1>6, <3>1, <3>2 DEF CarrierTypes
  <2>3. Reading' /\ FramesFollow'
    BY <2>1 DEF Reading, FramesFollow, Polling
  <2>4. Stopping'
    <3>1. Len(queue') = Len(queue) + 1 /\ queue'[Len(queue) + 1] = End /\ Len(queue) \in Nat  BY <1>2, <2>1
    <3>2. Len(queue) + 1 \in 1..Len(queue')  BY <3>1
    <3> QED  BY <2>1, <3>1, <3>2 DEF Stopping, Polling
  <2>5. NoFrameLost'
    <3>1. /\ Len(got' \o queue') = n + 1 /\ n \in Nat /\ (got' \o queue')[n + 1] = End
          /\ \A i \in 1..n : (got' \o queue')[i] = (got \o queue)[i]
      BY <1>1, <1>2, <2>1 DEF End
    <3> HIDE DEF n
    <3>2. ASSUME NEW i \in 1..n + 1
          PROVE  \/ (got' \o queue')[i] = i
                 \/ \A j \in i..n + 1 : (got' \o queue')[j] = End
      <4>1. CASE i \in 1..n  BY <1>5, <3>1, <4>1
      <4>2. CASE i = n + 1  BY <3>1, <4>2
      <4> QED  BY <3>1, <4>1, <4>2
    <3> QED  BY <3>1, <3>2 DEF NoFrameLost
  <2> QED  BY <1>1, <1>7, <1>8, <2>2, <2>3, <2>4, <2>5, NothingAsked DEF CarrierInv
<1> QED  BY <1>9, <1>10, <1>11

LEMMA SendKeeps ==
  ASSUME CarrierInv, NEW good \in Outcomes, Sent(good)
  PROVE  CarrierInv'
<1>1. /\ pending # NoRequest /\ pending.path = "send" /\ Heard(good) /\ pending' = NoRequest /\ sending' = FALSE
      /\ UNCHANGED <<carriers, carrierFlags, admission, poller, receiver, carried, closeStep, hubVars, unheard>>
  BY DEF Sent, Heard
<1>2. pending.at \in Replicas /\ pending.at # NoReplica
  BY <1>1, CarrierShape DEF CarrierInv, CarrierTypes, CarrierSets, Requests
<1>3. cookie' \in {cookie, pending.at}  BY <1>1 DEF Heard
<1>4. admitted => cookie' = cookie  BY <1>1, CookieStays
<1>5. CarrierTypes'
  <2>1. CarrierFlags'  BY <1>1 DEF CarrierInv, CarrierTypes, CarrierFlags, carrierFlags
  <2>2. CarrierSets'  BY <1>1, <1>2, <1>3 DEF CarrierInv, CarrierTypes, CarrierSets, hubVars
  <2>3. FrameTypes'  BY <1>1 DEF CarrierInv, CarrierTypes, FrameTypes, carried, hubVars
  <2> QED  BY <2>1, <2>2, <2>3 DEF CarrierTypes
<1>6. Opening' /\ Stopping' /\ Reading'
  BY <1>1 DEF CarrierInv, Opening, Stopping, Reading, Polling, carrierFlags, carried
<1>7. Admitted'  BY <1>1, <1>4 DEF CarrierInv, Admitted, carrierFlags
<1>8. HeldIsKnown'  BY <1>1, <1>4 DEF CarrierInv, HeldIsKnown, carrierFlags, hubVars
<1>9. FramesFollow'
  <2>1. Batch = <<>> /\ Batch' = <<>>  BY <1>1, NothingAsked DEF Batch
  <2>2. Polling' => Polling /\ cookie' = cookie  BY <1>1, <1>4 DEF CarrierInv, Reading, Polling
  <2> QED  BY <1>1, <2>1, <2>2, FramesFollowOn DEF hubVars
<1> QED  BY <1>1, <1>5, <1>6, <1>7, <1>8, <1>9, NothingAsked, ReadKept DEF CarrierInv

LEMMA ReleasedKeeps ==
  ASSUME CarrierInv, NEW good \in Outcomes, Released(good)
  PROVE  CarrierInv'
<1>1. /\ pending # NoRequest /\ pending.path = "disconnect" /\ Heard(good) /\ pending' = NoRequest
      /\ UNCHANGED <<carriers, connected, carrierStopped, admission, poller, receiver, carried, sending, hubVars, unheard>>
  BY DEF Released, Heard
<1>2. \/ Acknowledged(good) /\ admitted' = FALSE /\ closed' = TRUE /\ closeStep' = "over"
      \/ closeStep' = "failed" /\ UNCHANGED <<admitted, closed>>
  BY DEF Released
<1>3. admission # "runs" /\ carrierStopped /\ ~Polling
  BY <1>1 DEF CarrierInv, RequestIsWanted, Admitted, Stopping
<1>4. pending.at \in Replicas /\ pending.at # NoReplica
  BY <1>1, CarrierShape DEF CarrierInv, CarrierTypes, CarrierSets, Requests
<1>5. cookie' \in {cookie, pending.at}  BY <1>1 DEF Heard
<1>6. admitted => cookie' = cookie /\ cookie = pending.at
  BY <1>1, CookieStays DEF CarrierInv, Admitted, RequestIsWanted
<1>7. Acknowledged(good) => pending.at \notin admissions
  BY <1>1 DEF Acknowledged, Outcomes, CarrierInv, HubHasActed
<1>8. CarrierTypes'
  <2>1. CarrierFlags'
    <3>1. admitted' \in BOOLEAN /\ closed' \in BOOLEAN  BY <1>2 DEF CarrierInv, CarrierTypes, CarrierFlags
    <3> QED  BY <1>1, <3>1 DEF CarrierInv, CarrierTypes, CarrierFlags
  <2>2. CarrierSets'  BY <1>1, <1>4, <1>5 DEF CarrierInv, CarrierTypes, CarrierSets, hubVars
  <2>3. FrameTypes'  BY <1>1 DEF CarrierInv, CarrierTypes, FrameTypes, carried, hubVars
  <2> QED  BY <2>1, <2>2, <2>3 DEF CarrierTypes
<1>9. Opening' /\ Reading' /\ FramesFollow'
  BY <1>1, <1>3 DEF Opening, Reading, FramesFollow, Polling
<1>10. Admitted'
  <2>1. admitted' => cookie' # NoReplica  BY <1>2, <1>4, <1>6
  <2>2. closed' => ~admitted'  BY <1>2 DEF CarrierInv, Admitted
  <2> QED  BY <1>1, <1>3, <2>1, <2>2 DEF Admitted
<1>11. Stopping'  BY <1>1, <1>3 DEF CarrierInv, Stopping, Polling, carried
<1>12. HeldIsKnown'
  <2>1. UNCHANGED <<admissions, unheard>> /\ pending.path # "connect"  BY <1>1 DEF hubVars
  <2>2. CASE admitted' = admitted  BY <1>6, <2>1, <2>2 DEF CarrierInv, HeldIsKnown
  <2>3. CASE Acknowledged(good)  BY <1>6, <1>7, <2>1, <2>3 DEF CarrierInv, HeldIsKnown
  <2> QED  BY <1>2, <2>2, <2>3
<1> QED  BY <1>1, <1>8, <1>9, <1>10, <1>11, <1>12, NothingAsked, ReadKept DEF CarrierInv

LEMMA PollAgainKeeps ==
  ASSUME CarrierInv, PollAgain \/ SendHttp
  PROVE  CarrierInv'
<1>1. UNCHANGED <<cookie, carriers, carrierFlags, admission, receiver, carried, closeStep, pending, hubVars, unheard>>
      /\ (poller' = poller \/ (poller = "sleeps" /\ poller' = "text" /\ ~carrierStopped)) /\ sending' \in {sending, TRUE}
  BY DEF PollAgain, SendHttp
<1>2. Polling' = Polling /\ (poller' # poller => Polling /\ ~carrierStopped)  BY <1>1 DEF Polling
<1>3. CarrierTypes'
  <2>1. CarrierFlags'
    <3>1. sending' \in BOOLEAN  BY <1>1 DEF CarrierInv, CarrierTypes, CarrierFlags
    <3> QED  BY <1>1, <3>1 DEF CarrierInv, CarrierTypes, CarrierFlags, carrierFlags
  <2>2. CarrierSets'  BY <1>1 DEF CarrierInv, CarrierTypes, CarrierSets, hubVars
  <2>3. FrameTypes'  BY <1>1 DEF CarrierInv, CarrierTypes, FrameTypes, carried, hubVars
  <2> QED  BY <2>1, <2>2, <2>3 DEF CarrierTypes
<1>4. RequestIsWanted' /\ HubHasActed' /\ Batch' = Batch
  BY <1>1 DEF CarrierInv, RequestIsWanted, HubHasActed, Batch, hubVars
<1>5. Opening'  BY <1>1 DEF CarrierInv, Opening, carrierFlags, carried
<1>6. Admitted' /\ Stopping' /\ Reading'
  BY <1>1, <1>2 DEF CarrierInv, Admitted, Stopping, Reading, Polling, carrierFlags, carried
<1>7. HeldIsKnown'  BY <1>1 DEF CarrierInv, HeldIsKnown, carrierFlags, hubVars
<1>8. FramesFollow'  BY <1>1, <1>2, <1>4, FramesFollowOn DEF hubVars
<1> QED  BY <1>1, <1>3, <1>4, <1>5, <1>6, <1>7, <1>8, ReadKept DEF CarrierInv

(* The first that waits is taken: what was polled is the same, or is shorter.  *)
LEMMA Taken ==
  ASSUME NEW s \in Seq(Nat), NEW q \in Seq(Nat), q # <<>>
  PROVE  /\ Append(s, Head(q)) \o Tail(q) = s \o q
         /\ (s \o q)[Len(s) + 1] = Head(q) /\ Len(s \o q) = Len(s \o Tail(q)) + 1 /\ Len(s) < Len(s \o q)
         /\ \A i \in 1..Len(s) : (s \o Tail(q))[i] = (s \o q)[i]
         /\ \A i \in Len(s) + 1..Len(s \o Tail(q)) : (s \o Tail(q))[i] = (s \o q)[i + 1]
<1>1. Head(q) \in Nat /\ Tail(q) \in Seq(Nat) /\ Len(q) \in Nat \ {0} /\ Len(s) \in Nat /\ Len(Tail(q)) = Len(q) - 1
  OBVIOUS
<1>2. \A i \in 1..Len(q) - 1 : Tail(q)[i] = q[i + 1]  BY <1>1
<1>3. Head(q) = q[1]  OBVIOUS
<1>4. Append(s, Head(q)) \in Seq(Nat) /\ Len(Append(s, Head(q))) = Len(s) + 1  BY <1>1
<1>5. Append(s, Head(q)) \o Tail(q) \in Seq(Nat) /\ s \o q \in Seq(Nat)  BY <1>1, <1>4
<1>6. Len(Append(s, Head(q)) \o Tail(q)) = Len(s \o q)  BY <1>1, <1>4
<1>7. ASSUME NEW i \in 1..Len(s \o q)
      PROVE  (Append(s, Head(q)) \o Tail(q))[i] = (s \o q)[i]
  <2>1. Len(s \o q) = Len(s) + Len(q)  BY <1>1
  <2>2. CASE i \in 1..Len(s)  BY <1>1, <1>4, <2>2
  <2>3. CASE i = Len(s) + 1  BY <1>1, <1>3, <1>4, <2>3
  <2>4. CASE i \in Len(s) + 2..Len(s) + Len(q)
    <3>1. (Append(s, Head(q)) \o Tail(q))[i] = Tail(q)[i - (Len(s) + 1)]  BY <1>1, <1>4, <2>4
    <3>2. (s \o q)[i] = q[i - Len(s)]  BY <1>1, <2>4
    <3>3. i - (Len(s) + 1) \in 1..Len(q) - 1 /\ (i - (Len(s) + 1)) + 1 = i - Len(s)  BY <1>1, <2>4
    <3> QED  BY <1>2, <3>1, <3>2, <3>3
  <2> QED  BY <1>1, <2>1, <2>2, <2>3, <2>4
<1>8. Append(s, Head(q)) \o Tail(q) = s \o q  BY <1>5, <1>6, <1>7, SeqEqual
<1>9. ASSUME NEW i \in Len(s) + 1..Len(s \o Tail(q))
      PROVE  (s \o Tail(q))[i] = (s \o q)[i + 1]
  <2>1. Len(s \o Tail(q)) = Len(s) + Len(q) - 1  BY <1>1
  <2>2. i - Len(s) \in 1..Len(q) - 1 /\ (i - Len(s)) + 1 = (i + 1) - Len(s)  BY <1>1, <2>1
  <2>3. (s \o Tail(q))[i] = Tail(q)[i - Len(s)]  BY <1>1, <2>1
  <2>4. (s \o q)[i + 1] = q[(i + 1) - Len(s)]  BY <1>1, <2>1
  <2> QED  BY <1>2, <2>2, <2>3, <2>4
<1>10. (s \o q)[Len(s) + 1] = Head(q)  BY <1>1, <1>3
<1>11. Len(s \o q) = Len(s \o Tail(q)) + 1 /\ Len(s) < Len(s \o q)  BY <1>1
<1>12. \A i \in 1..Len(s) : (s \o Tail(q))[i] = (s \o q)[i]  BY <1>1
<1> QED  BY <1>8, <1>9, <1>10, <1>11, <1>12

LEMMA TakeKeeps ==
  ASSUME CarrierInv, TakeFrame
  PROVE  CarrierInv'
<1>1. /\ queue # <<>> /\ receiver \in {"handshake", "reads"} /\ queue' = Tail(queue)
      /\ UNCHANGED <<cookie, carriers, carrierFlags, admission, poller, closeStep, sending, pending, hubVars, unheard>>
  BY DEF TakeFrame
<1>2. \/ Head(queue) = End /\ receiver' = "ended" /\ got' = got
      \/ Head(queue) # End /\ receiver' = "reads" /\ got' = Append(got, Head(queue))
  BY DEF TakeFrame
<1>3. queue \in Seq(Nat) /\ got \in Seq(Nat)  BY DEF CarrierInv, CarrierTypes, FrameTypes
<1>4. /\ Head(queue) \in Nat /\ Head(queue) = queue[1] /\ Tail(queue) \in Seq(Nat) /\ Len(queue) \in Nat \ {0}
      /\ Len(Tail(queue)) = Len(queue) - 1 /\ \A i \in 1..Len(queue) - 1 : Tail(queue)[i] = queue[i + 1]
  BY <1>1, <1>3
<1>5. CarrierTypes'
  <2>1. CarrierFlags'  BY <1>1 DEF CarrierInv, CarrierTypes, CarrierFlags, carrierFlags
  <2>2. CarrierSets'  BY <1>1 DEF CarrierInv, CarrierTypes, CarrierSets, hubVars
  <2>3. got' \in Seq(Nat)
    <3>1. Append(got, Head(queue)) \in Seq(Nat)  BY <1>3, <1>4, AppendProperties
    <3> QED  BY <1>2, <1>3, <3>1
  <2>4. FrameTypes'  BY <1>1, <1>4, <2>3 DEF CarrierInv, CarrierTypes, FrameTypes, hubVars
  <2> QED  BY <2>1, <2>2, <2>4 DEF CarrierTypes
<1>6. RequestIsWanted' /\ HubHasActed' /\ Admitted' /\ Batch' = Batch
  BY <1>1 DEF CarrierInv, RequestIsWanted, HubHasActed, Admitted, Batch, carrierFlags, hubVars
<1>7. HeldIsKnown'  BY <1>1 DEF CarrierInv, HeldIsKnown, carrierFlags, hubVars
<1>8. Opening'
  <2> SUFFICES ASSUME admission = "runs" PROVE Opening'  BY <1>1 DEF Opening
  <2>1. /\ ~admitted /\ ~closed /\ poller = "none" /\ got = <<>> /\ carrierStopped
        /\ \A i \in 1..Len(queue) : queue[i] = End
    BY <1>1 DEF CarrierInv, Opening
  <2>2. Head(queue) = End /\ \A i \in 1..Len(Tail(queue)) : Tail(queue)[i] = End  BY <1>4, <2>1
  <2> QED  BY <1>1, <1>2, <2>1, <2>2 DEF Opening, carrierFlags
<1>9. Stopping'
  <2> SUFFICES ASSUME carrierStopped, receiver' # "ended"
               PROVE  \E i \in 1..Len(Tail(queue)) : Tail(queue)[i] = End
    BY <1>1 DEF CarrierInv, Stopping, Polling, carrierFlags
  <2>1. PICK i \in 1..Len(queue) : queue[i] = End  BY <1>1 DEF CarrierInv, Stopping
  <2>2. i # 1  BY <1>2, <1>4, <2>1
  <2>3. i - 1 \in 1..Len(queue) - 1 /\ (i - 1) + 1 = i  BY <1>4, <2>2
  <2> QED  BY <1>4, <2>1, <2>3
<1> DEFINE n == Len(got \o queue)
<1>10. /\ Append(got, Head(queue)) \o Tail(queue) = got \o queue
       /\ (got \o queue)[Len(got) + 1] = Head(queue) /\ n = Len(got \o Tail(queue)) + 1 /\ Len(got) < n
       /\ \A i \in 1..Len(got) : (got \o Tail(queue))[i] = (got \o queue)[i]
       /\ \A i \in Len(got) + 1..Len(got \o Tail(queue)) : (got \o Tail(queue))[i] = (got \o queue)[i + 1]
  BY <1>1, <1>3, Taken
<1>11. n \in Nat /\ Len(got) \in Nat  BY <1>3
<1>12. Polling => Head(queue) # End
  <2>1. ASSUME Polling PROVE Head(queue) = Len(got) + 1
    <3>1. \A i \in 1..n : (got \o queue)[i] = i  BY <2>1 DEF CarrierInv, FramesFollow
    <3> HIDE DEF n
    <3>2. Len(got) + 1 \in 1..n  BY <1>10, <1>11
    <3> QED  BY <1>10, <3>1, <3>2
  <2> QED  BY <1>11, <2>1 DEF End
<1>13. Reading'
  <2>1. got' # <<>> \/ Head(queue) = End
    <3>1. Append(got, Head(queue)) # <<>>  BY <1>3, <1>4, AppendProperties
    <3> QED  BY <1>2, <3>1
  <2> QED  BY <1>1, <1>2, <1>12, <2>1 DEF CarrierInv, Reading, Polling, carrierFlags
<1>14. FramesFollow'
  <2> SUFFICES ASSUME Polling PROVE FramesFollow'  BY <1>1 DEF FramesFollow, Polling
  <2>1. got' \o queue' = got \o queue  BY <1>1, <1>2, <1>10, <1>12
  <2> QED  BY <1>1, <1>6, <2>1 DEF CarrierInv, FramesFollow, hubVars
<1>15. NoFrameLost'
  <2>1. \A i \in 1..n : (got \o queue)[i] = i \/ \A j \in i..n : (got \o queue)[j] = End
    BY DEF CarrierInv, NoFrameLost
  <2>2. CASE Head(queue) # End
    <3>1. got' \o queue' = got \o queue  BY <1>1, <1>2, <1>10, <2>2
    <3> QED  BY <2>1, <3>1 DEF NoFrameLost
  <2>3. CASE Head(queue) = End
    <3> DEFINE r == got \o Tail(queue)
    <3>1. got' \o queue' = r /\ n = Len(r) + 1 /\ Len(r) \in Nat
      <4>1. got' = got /\ queue' = Tail(queue)  BY <1>1, <1>2, <2>3
      <4>2. r \in Seq(Nat)  BY <1>3, <1>4
      <4>3. Len(r) \in Nat  BY <4>2
      <4> QED  BY <1>10, <4>1, <4>3
    <3>2. \A i \in 1..Len(got) : r[i] = (got \o queue)[i]  BY <1>10
    <3>3. \A i \in Len(got) + 1..Len(r) : r[i] = (got \o queue)[i + 1]  BY <1>10
    <3> HIDE DEF n, r
    <3>4. \A j \in Len(got) + 1..n : (got \o queue)[j] = End
      <4>1. Len(got) + 1 \in 1..n /\ (got \o queue)[Len(got) + 1] # Len(got) + 1  BY <1>10, <1>11, <2>3 DEF End
      <4> QED  BY <2>1, <4>1
    <3>5. ASSUME NEW j \in Len(got) + 1..Len(r) PROVE r[j] = End
      <4>1. j + 1 \in Len(got) + 1..n  BY <1>11, <3>1
      <4> QED  BY <3>3, <3>4, <4>1
    <3>6. ASSUME NEW i \in 1..Len(r)
          PROVE  r[i] = i \/ \A j \in i..Len(r) : r[j] = End
      <4>1. CASE i > Len(got)  BY <1>11, <3>1, <3>5, <4>1
      <4>2. CASE i <= Len(got) /\ (got \o queue)[i] = i  BY <1>11, <3>2, <4>2
      <4>3. CASE i <= Len(got) /\ \A j \in i..n : (got \o queue)[j] = End
        <5>1. ASSUME NEW j \in i..Len(r) PROVE r[j] = End
          <6>1. CASE j <= Len(got)
            <7>1. j \in 1..Len(got) /\ j \in i..n  BY <1>11, <3>1, <6>1
            <7> QED  BY <3>2, <4>3, <7>1
          <6>2. CASE j > Len(got)  BY <1>11, <3>1, <3>5, <6>2
          <6> QED  BY <1>11, <3>1, <6>1, <6>2
        <5> QED  BY <5>1
      <4>4. i \in 1..n  BY <3>1
      <4>5. (got \o queue)[i] = i \/ \A j \in i..n : (got \o queue)[j] = End  BY <2>1, <4>4
      <4>6. i > Len(got) \/ i <= Len(got)  BY <1>11
      <4> QED  BY <4>1, <4>2, <4>3, <4>5, <4>6
    <3> QED  BY <3>1, <3>6 DEF NoFrameLost
  <2> QED  BY <2>2, <2>3
<1> QED  BY <1>5, <1>6, <1>7, <1>8, <1>9, <1>13, <1>14, <1>15 DEF CarrierInv

LEMMA CloseKeeps ==
  ASSUME CarrierInv, Close
  PROVE  CarrierInv'
<1>1. /\ closeStep \in {"idle", "failed"} /\ closeStep' = "waits" /\ carrierStopped' = TRUE /\ connected' = FALSE
      /\ UNCHANGED <<cookie, carriers, admitted, closed, admission, receiver, got, sending, hubVars, unheard>>
  BY DEF Close
<1>2. queue' = IF closeStep = "idle" THEN Append(queue, End) ELSE queue  BY DEF Close
<1>3. poller' = IF poller = "none" THEN poller ELSE "ended"  BY DEF Close
<1>4. pending' = IF pending # NoRequest /\ pending.path \in {"text", "binary"} THEN NoRequest ELSE pending  BY DEF Close
<1>5. queue \in Seq(Nat) /\ got \in Seq(Nat)  BY DEF CarrierInv, CarrierTypes, FrameTypes
<1>6. /\ queue' \in Seq(Nat)
      /\ closeStep = "idle" => /\ Len(queue') = Len(queue) + 1 /\ queue'[Len(queue) + 1] = End /\ Len(queue) \in Nat
                               /\ \A i \in 1..Len(queue) : queue'[i] = queue[i]
  BY <1>2, <1>5 DEF End
<1>7. CarrierTypes'
  <2>1. CarrierFlags'  BY <1>1 DEF CarrierInv, CarrierTypes, CarrierFlags
  <2>2. CarrierSets'  BY <1>1, <1>4 DEF CarrierInv, CarrierTypes, CarrierSets, hubVars
  <2>3. FrameTypes'  BY <1>1, <1>6 DEF CarrierInv, CarrierTypes, FrameTypes, hubVars
  <2> QED  BY <2>1, <2>2, <2>3 DEF CarrierTypes
<1>8. RequestIsWanted' /\ HubHasActed'
  <2>1. CASE pending' = NoRequest  BY <2>1, NothingAsked
  <2>2. CASE pending' = pending /\ pending # NoRequest
    <3>1. pending.path \notin {"text", "binary", "disconnect"}
      BY <1>1, <1>4, <2>2, NothingAsked DEF CarrierInv, RequestIsWanted
    <3> QED  BY <1>1, <2>2, <3>1 DEF CarrierInv, RequestIsWanted, HubHasActed, hubVars
  <2> QED  BY <1>4, <2>1, <2>2
<1>9. HeldIsKnown'
  <2>1. pending.path = "connect" => pending' = pending  BY <1>4
  <2> QED  BY <1>1, <2>1 DEF CarrierInv, HeldIsKnown, hubVars
<1>10. Opening'
  <2>1. ASSUME \A i \in 1..Len(queue) : queue[i] = End
        PROVE  \A i \in 1..Len(queue') : queue'[i] = End
    BY <1>2, <1>6, <2>1
  <2> QED  BY <1>1, <1>3, <2>1 DEF CarrierInv, Opening
<1>11. Admitted' /\ Reading' /\ FramesFollow'
  BY <1>1, <1>3 DEF CarrierInv, Admitted, Reading, FramesFollow, Polling
<1>12. Stopping'
  <2>1. ASSUME receiver \notin {"none", "ended"}
        PROVE  \E i \in 1..Len(queue') : queue'[i] = End
    <3>1. CASE closeStep = "idle"
      <4>1. Len(queue) + 1 \in 1..Len(queue')  BY <1>6, <3>1
      <4> QED  BY <1>6, <3>1, <4>1
    <3>2. CASE closeStep # "idle"  BY <1>2, <2>1, <3>2 DEF CarrierInv, Stopping
    <3> QED  BY <3>1, <3>2
  <2> QED  BY <1>1, <1>3, <2>1 DEF Stopping, Polling
<1>13. NoFrameLost'
  <2>1. CASE closeStep # "idle"  BY <1>1, <1>2, <2>1, ReadKept DEF carried
  <2>2. CASE closeStep = "idle"
    <3> DEFINE n == Len(got \o queue)
    <3>1. \A i \in 1..n : (got \o queue)[i] = i \/ \A j \in i..n : (got \o queue)[j] = End
      BY DEF CarrierInv, NoFrameLost
    <3>2. /\ Len(got' \o queue') = n + 1 /\ n \in Nat /\ (got' \o queue')[n + 1] = End
          /\ \A i \in 1..n : (got' \o queue')[i] = (got \o queue)[i]
      BY <1>1, <1>2, <1>5, <2>2 DEF End
    <3> HIDE DEF n
    <3>3. ASSUME NEW i \in 1..n + 1
          PROVE  (got' \o queue')[i] = i \/ \A j \in i..n + 1 : (got' \o queue')[j] = End
      <4>1. CASE i = n + 1  BY <3>2, <4>1
      <4>2. CASE i \in 1..n /\ (got \o queue)[i] = i  BY <3>2, <4>2
      <4>3. CASE i \in 1..n /\ \A j \in i..n : (got \o queue)[j] = End
        <5>1. ASSUME NEW j \in i..n + 1 PROVE (got' \o queue')[j] = End
          <6>1. CASE j = n + 1  BY <3>2, <6>1
          <6>2. CASE j # n + 1
            <7>1. j \in i..n /\ j \in 1..n  BY <3>2, <4>3, <6>2
            <7>2. (got' \o queue')[j] = (got \o queue)[j]  BY <3>2, <7>1
            <7>3. (got \o queue)[j] = End  BY <4>3, <7>1
            <7> QED  BY <7>2, <7>3
          <6> QED  BY <6>1, <6>2
        <5> QED  BY <5>1
      <4>4. i = n + 1 \/ i \in 1..n  BY <3>2
      <4> QED  BY <3>1, <4>1, <4>2, <4>3, <4>4
    <3> QED  BY <3>2, <3>3 DEF NoFrameLost
  <2> QED  BY <2>1, <2>2
<1> QED  BY <1>7, <1>8, <1>9, <1>10, <1>11, <1>12, <1>13 DEF CarrierInv

LEMMA CloseOnKeeps ==
  ASSUME CarrierInv, CloseOn
  PROVE  CarrierInv'
<1>1. /\ closeStep = "waits" /\ admission # "runs"
      /\ UNCHANGED <<cookie, carriers, admitted, connected, carrierStopped, admission, poller, receiver, carried,
                     sending, pending, hubVars, unheard>>
  BY DEF CloseOn, CloseWaited
<1>2. \/ admitted /\ closeStep' = "asks" /\ closed' = closed
      \/ ~admitted /\ closeStep' = "over" /\ closed' = TRUE
  BY DEF CloseOn
<1>3. CarrierTypes'
  <2>1. CarrierFlags'
    <3>1. closed' \in BOOLEAN  BY <1>2 DEF CarrierInv, CarrierTypes, CarrierFlags
    <3> QED  BY <1>1, <3>1 DEF CarrierInv, CarrierTypes, CarrierFlags
  <2>2. CarrierSets'  BY <1>1 DEF CarrierInv, CarrierTypes, CarrierSets, hubVars
  <2>3. FrameTypes'  BY <1>1 DEF CarrierInv, CarrierTypes, FrameTypes, carried, hubVars
  <2> QED  BY <2>1, <2>2, <2>3 DEF CarrierTypes
<1>4. RequestIsWanted' /\ HubHasActed' /\ Batch' = Batch
  BY <1>1 DEF CarrierInv, RequestIsWanted, HubHasActed, Batch, hubVars
<1>5. Opening' /\ Stopping' /\ Reading'
  BY <1>1 DEF CarrierInv, Opening, Stopping, Reading, Polling, carried
<1>6. Admitted'  BY <1>1, <1>2 DEF CarrierInv, Admitted
<1>7. HeldIsKnown'  BY <1>1 DEF CarrierInv, HeldIsKnown, hubVars
<1>8. FramesFollow'  BY <1>1, <1>4, FramesFollowOn DEF Polling, hubVars
<1> QED  BY <1>1, <1>3, <1>4, <1>5, <1>6, <1>7, <1>8, ReadKept DEF CarrierInv

LEMMA HttpsStep == CarrierInv /\ [CarrierNext]_httpsVars => CarrierInv'
<1> SUFFICES ASSUME CarrierInv, [CarrierNext]_httpsVars PROVE CarrierInv'  OBVIOUS
<1>1. CASE UNCHANGED httpsVars
  <2>1. /\ UNCHANGED <<cookie, carriers, carrierFlags, admission, poller, receiver, carried, closeStep, sending>>
        /\ UNCHANGED <<pending, hubVars, unheard>>
    BY <1>1 DEF httpsVars, carrierFlags, carried, hubVars
  <2>2. CarrierTypes'
    BY <2>1 DEF CarrierInv, CarrierTypes, CarrierFlags, CarrierSets, FrameTypes, carrierFlags, carried, hubVars
  <2>3. RequestIsWanted' /\ HubHasActed' /\ Batch' = Batch
    BY <2>1 DEF CarrierInv, RequestIsWanted, HubHasActed, Batch, hubVars
  <2>4. Opening' /\ Admitted' /\ Stopping' /\ Reading'
    BY <2>1 DEF CarrierInv, Opening, Admitted, Stopping, Reading, Polling, carrierFlags, carried
  <2>5. HeldIsKnown'  BY <2>1 DEF CarrierInv, HeldIsKnown, carrierFlags, hubVars
  <2>6. FramesFollow'  BY <2>1, <2>3, FramesFollowOn DEF Polling, hubVars
  <2> QED  BY <2>1, <2>2, <2>3, <2>4, <2>5, <2>6, ReadKept DEF CarrierInv
<1>2. CASE Answer
  BY <1>2, AdmitsKeeps, PolledKeeps, SendKeeps, ReleasedKeeps DEF Answer
<1>3. CASE CarrierNext /\ ~Answer
  BY <1>3, OpenKeeps, AskKeeps, ActsKeeps, HubMovesKeep, PollAgainKeeps, TakeKeeps, CloseKeeps, CloseOnKeeps
  DEF CarrierNext
<1> QED  BY <1>1, <1>2, <1>3

LEMMA CarrierInvariant == CarrierSpec => []CarrierInv
BY CarrierInitial, HttpsStep, PTL DEF CarrierSpec

(* A session that ended has its end in the queue, or its reader has gone.      *)
LEMMA EndWaits == CarrierInv => HeldIsKnown /\ NoFrameLost /\ EndIsHeard
<1> SUFFICES ASSUME CarrierInv, carrierStopped, queue = <<>> PROVE receiver \in {"none", "ended"}
  BY DEF CarrierInv, EndIsHeard
<1> QED  BY DEF CarrierInv, Stopping

-----------------------------------------------------------------------------
(* What every client of an MQTT broker keeps: an open socket has an owner that *)
(* will shut it, a session that goes on has read or will read each frame, and  *)
(* only its own handshake connects it (transport.py 388-987).                  *)
THEOREM MqttSessionsAreWhole == MqttSpec => [](NoStraySocket /\ NoFrameSkipped /\ ConnectedIsCurrent)
<1>1. MqttInv => NoStraySocket /\ NoFrameSkipped /\ ConnectedIsCurrent
  BY DEF MqttInv, QueueIsNext, NoFrameSkipped, ShakenHasRead, ConnectedIsCurrent, MqttConnected
<1> QED  BY <1>1, MqttInvariant, PTL

(* An MQTT link goes down for a reason of its own, for any number of threads,  *)
(* clients and frames (transport.py 430-488, 716-775, 919-1002).               *)
THEOREM MqttLinksEndTruly == MqttSpec => MqttEndsForAReason
<1>1. MqttInv /\ GivenUpInv /\ [MqttNext]_mVars => (MqttInv /\ GivenUpInv)'  BY MqttStep, GivenUpStep
<1>2. MqttInv /\ GivenUpInv /\ [MqttNext]_mVars
        => [MqttConnected /\ ~MqttConnected' =>
              \/ client' = client /\ gone'[client] /\ ~cleaned'[client]
              \/ client' = client /\ lastError' = "other"
              \/ client' = NoOne /\ generation' # generation
              \/ /\ client' = NoOne
                 /\ \E d \in Dialers : has[d] = client /\ gen[d] = generation /\ place[d] = "aborts"]_mVars
  BY MqttOwnEnd DEF MqttReasons
<1> QED  BY <1>1, <1>2, MqttInitial, GivenUpInitial, PTL DEF MqttSpec, MqttEndsForAReason

(* What a hub that is polled over HTTPS and its client know of each other: an  *)
(* admission is known or its answer was lost, frames are read in order up to   *)
(* the end, and the end is told (_hive.py 1258-1369).                          *)
THEOREM HttpsSessionsAreWhole == CarrierSpec => [](HeldIsKnown /\ NoFrameLost /\ EndIsHeard)
BY EndWaits, CarrierInvariant, PTL

-----------------------------------------------------------------------------
(* A behaviour is one transport's, and the other two stand still.              *)
LEMMA EachStandsStill ==
  /\ AllInit => Init /\ MqttInit /\ CarrierInit
  /\ [AllNext]_<<part, vars, mVars, httpsVars>> => [Next]_vars /\ [MqttNext]_mVars /\ [CarrierNext]_httpsVars
<1>1. AllInit => Init /\ MqttInit /\ CarrierInit  BY DEF AllInit
<1>2. ASSUME AllNext \/ UNCHANGED <<part, vars, mVars, httpsVars>>
      PROVE  [Next]_vars /\ [MqttNext]_mVars /\ [CarrierNext]_httpsVars
  BY <1>2 DEF AllNext
<1> QED  BY <1>1, <1>2

LEMMA EachKeepsItsOwn == AllSpec => Spec /\ MqttSpec /\ CarrierSpec
BY EachStandsStill, PTL DEF AllSpec, Spec, MqttSpec, CarrierSpec

(* Frames reach the reader in the order the hub sent them with none skipped,   *)
(* or the session has ended and says so (transport.py 919-975, _hive.py        *)
(* 1277-1343).                                                                 *)
THEOREM FramesComeInOrder == AllSpec => []FramesInOrder
<1>1. MqttInv => NoFrameSkipped  BY DEF MqttInv, QueueIsNext, NoFrameSkipped
<1>2. MqttInv /\ CarrierInv => FramesInOrder  BY <1>1, EndWaits DEF FramesInOrder
<1> QED  BY <1>2, EachKeepsItsOwn, MqttInvariant, CarrierInvariant, PTL

(* Nothing is open behind a transport's back: the link that is up is the       *)
(* current one's, and every carrier, socket and admission has an owner that    *)
(* will close it (_hive.py 540-870, 1258-1369; transport.py 716-726).          *)
THEOREM WhatIsOpenIsAccounted ==
  ASSUME ~SameTurn, ~CleanupMayFail
  PROVE  AllSpec => []OpenIsAccounted
<1>1. Spec => [](LiveIsCurrent /\ NothingForgotten)
  BY LinkIsCurrent, HubHoldsNothingForgotten, PTL
<1>2. LiveIsCurrent /\ NothingForgotten /\ NoStraySocket /\ ConnectedIsCurrent /\ HeldIsKnown => OpenIsAccounted
  BY DEF OpenIsAccounted
<1> QED  BY <1>1, <1>2, EachKeepsItsOwn, MqttSessionsAreWhole, HttpsSessionsAreWhole, PTL

(* Whatever the transport, a link that goes down does so for a reason of its    *)
(* own, and whoever waits is told: no overtaken attempt, read loop, callback or *)
(* cleanup takes it down. A cleanup that fails late does, in a build whose      *)
(* cleanups fail (_hive.py 590-602, 757-776, 811, 843-861; transport.py         *)
(* 430-488, 716-775, 919-1002).                                                *)
THEOREM LinksEndTruly ==
  ASSUME ~SameTurn, ~CleanupMayFail
  PROVE  AllSpec => LinksEndForAReason
<1>1. [(transportConnected /\ ~transportConnected') => Reasons \/ OneFails]_vars
        => [(transportConnected /\ ~transportConnected') =>
              \/ current' = current /\ carrier \in broken' /\ stopped'
              \/ connecting' /\ current' # current /\ carrier \in broken
              \/ current' = None /\ (stopped' \/ Disconnecting')]_vars
  BY DEF Reasons, OneFails
<1>2. Spec => EndsForAReason  BY <1>1, OnlyAFailedCleanupDrops, PTL DEF EndsOrOneFails, EndsForAReason
<1> QED  BY <1>2, EachKeepsItsOwn, MqttLinksEndTruly, PTL DEF LinksEndForAReason

==============================================================================
