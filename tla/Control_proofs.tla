---------------------------- MODULE Control_proofs ----------------------------
(* Whatever the tasks, writers, waits, connections and editors of a control    *)
(* plane: the credentials are right, a shared configuration is changed         *)
(* atomically, and what its calls report is what happened.                     *)
EXTENDS MCControl, SequenceTheorems, TLAPS

-----------------------------------------------------------------------------
(* The shared configuration.                                                   *)
\* What a put carries, what it is told of, and what was applied.
Carries ==
  \A w \in Writers :
    answered[w] = "none" =>
      body[w] = IF w \in Replacers THEN Delta[w] ELSE DeepMerge(snapshot[w], Delta[w])
Landed == \A w \in Writers : w \in landed <=> answered[w] = "applied"
Truth ==
  \A w \in Writers :
    /\ told[w] = "ok" => answered[w] = "applied"
    /\ told[w] = "conflict" => answered[w] = "conflict"
    /\ told[w] # "none" => phase[w] = "over"
    /\ phase[w] = "over" => told[w] # "none"
    /\ phase[w] = "new" => answered[w] = "unsent"
    /\ phase[w] = "reading" => answered[w] \in {"unsent", "conflict"}
    /\ w \in Replacers => phase[w] # "reading" /\ answered[w] # "conflict"

ConfigInv == TypeOK /\ Carries /\ Landed /\ Truth

\* Deep merging gives a configuration.
LEMMA MergeType ==
  ASSUME NEW b \in Configs, NEW c \in Configs
  PROVE  DeepMerge(b, c) \in Configs
<1> SUFFICES ASSUME NEW k \in Keys
             PROVE  DeepMerge(b, c)[k] \in Leaf \cup Mappings
  BY DEF Configs, DeepMerge
<1>1. b[k] \in Leaf \cup Mappings /\ c[k] \in Leaf \cup Mappings
  BY DEF Configs
<1>2. CASE c[k] = Absent
  BY <1>1, <1>2 DEF DeepMerge
<1>3. CASE c[k] # Absent /\ b[k] \in Mappings /\ c[k] \in Mappings
  <2>1. \A s \in SubKeys : b[k][s] \in Leaf /\ c[k][s] \in Leaf
    BY <1>3 DEF Mappings
  <2> DEFINE m == [s \in SubKeys |-> IF c[k][s] = Absent THEN b[k][s] ELSE c[k][s]]
  <2>2. m \in Mappings
    BY <2>1 DEF Mappings
  <2>3. DeepMerge(b, c)[k] = m
    BY <1>3 DEF DeepMerge
  <2> QED BY <2>2, <2>3
<1>4. CASE c[k] # Absent /\ ~(b[k] \in Mappings /\ c[k] \in Mappings)
  BY <1>1, <1>4 DEF DeepMerge
<1> QED BY <1>2, <1>3, <1>4

LEMMA InvInit == Init => ConfigInv
<1> SUFFICES ASSUME Init PROVE ConfigInv
  OBVIOUS
<1> USE DEF Init
<1>1. Nothing \in Configs
  BY DEF Nothing, Configs, Leaf
<1>2. TypeOK
  BY <1>1, MergeShape DEF TypeOK, Told
<1>3. Carries /\ Landed /\ Truth
  BY DEF Carries, Landed, Truth
<1> QED BY <1>2, <1>3 DEF ConfigInv

LEMMA TypeStep ==
  ASSUME TypeOK, [Next]_mergeVars
  PROVE  TypeOK'
<1> USE DEF TypeOK, Told
<1>1. ASSUME NEW w \in Writers, Start(w) PROVE TypeOK'
  <2>1. attempt' \in [Writers -> 0..Attempts]
    <3>1. 1 \in 0..Attempts
      BY MergeShape
    <3> QED BY <1>1, <3>1 DEF Start
  <2>2. Delta[w] \in Configs
    BY MergeShape
  <2>3. CASE w \in Replacers
    BY <1>1, <2>1, <2>2, <2>3 DEF Start, Put
  <2>4. CASE w \notin Replacers
    BY <1>1, <2>1, <2>4 DEF Start
  <2> QED BY <2>3, <2>4
<1>2. ASSUME NEW w \in Writers, ReadAnswered(w) PROVE TypeOK'
  <2>1. DeepMerge(config, Delta[w]) \in Configs
    BY MergeType, MergeShape
  <2> QED BY <1>2, <2>1 DEF ReadAnswered, Put
<1>3. ASSUME NEW w \in Writers, PutArrives(w) PROVE TypeOK'
  BY <1>3 DEF PutArrives
<1>4. ASSUME NEW w \in Writers, PutAnswered(w) PROVE TypeOK'
  BY <1>4 DEF PutAnswered, Over
<1>5. ASSUME NEW w \in Writers, Conflict(w) PROVE TypeOK'
  <2>1. attempt' \in [Writers -> 0..Attempts]
    <3>1. attempt[w] # Attempts => attempt[w] + 1 \in 0..Attempts
      BY MergeShape
    <3> QED BY <1>5, <3>1 DEF Conflict
  <2> QED BY <1>5, <2>1 DEF Conflict, Over
<1>6. ASSUME NEW w \in Writers, Fails(w) PROVE TypeOK'
  BY <1>6 DEF Fails, Over
<1>7. CASE UNCHANGED mergeVars
  BY <1>7 DEF mergeVars
<1> QED BY <1>1, <1>2, <1>3, <1>4, <1>5, <1>6, <1>7 DEF Next

LEMMA TruthStep ==
  ASSUME ConfigInv, [Next]_mergeVars
  PROVE  Carries' /\ Landed' /\ Truth'
<1> USE DEF ConfigInv, TypeOK, Told, Carries, Landed, Truth
<1>1. ASSUME NEW w \in Writers, Start(w) PROVE Carries' /\ Landed' /\ Truth'
  BY <1>1, MergeShape DEF Start, Put
<1>2. ASSUME NEW w \in Writers, ReadAnswered(w) PROVE Carries' /\ Landed' /\ Truth'
  BY <1>2 DEF ReadAnswered, Put
<1>3. ASSUME NEW w \in Writers, PutArrives(w) PROVE Carries' /\ Landed' /\ Truth'
  BY <1>3 DEF PutArrives, Matches
<1>4. ASSUME NEW w \in Writers, PutAnswered(w) PROVE Carries' /\ Landed' /\ Truth'
  BY <1>4 DEF PutAnswered, Over
<1>5. ASSUME NEW w \in Writers, Conflict(w) PROVE Carries' /\ Landed' /\ Truth'
  BY <1>5 DEF Conflict, Over
<1>6. ASSUME NEW w \in Writers, Fails(w) PROVE Carries' /\ Landed' /\ Truth'
  BY <1>6 DEF Fails, Over
<1>7. CASE UNCHANGED mergeVars
  BY <1>7 DEF mergeVars
<1> QED BY <1>1, <1>2, <1>3, <1>4, <1>5, <1>6, <1>7 DEF Next

\* The invariant holds of every behaviour.
LEMMA InvHolds == Spec => []ConfigInv
<1>1. Init => ConfigInv
  BY InvInit
<1>2. ConfigInv /\ [Next]_mergeVars => ConfigInv'
  BY TypeStep, TruthStep DEF ConfigInv
<1> QED BY <1>1, <1>2, PTL DEF Spec

(* Type correctness: what is stored and put is always a configuration.         *)
THEOREM TypeCorrect == Spec => []TypeOK
<1>1. ConfigInv => TypeOK
  BY DEF ConfigInv
<1> QED BY <1>1, InvHolds, PTL

\* The stored configuration a change meets, and the one it leaves.
LEMMA LandsOnCurrent ==
  ASSUME ConfigInv, NEW w \in Writers, PutArrives(w), Matches(w)
  PROVE  config' = Changed(w, config) /\ w \notin landed /\ landed' = landed \cup {w}
  BY DEF PutArrives, Matches, Changed, ConfigInv, Carries, Landed

(* Every step is one of the atomic changes, an honest answer, or invisible     *)
(* (control.py 1394-1410).                                                     *)
LEMMA StepSimulates ==
  ASSUME ConfigInv, [Next]_mergeVars
  PROVE  [Atomic!AtomicNext]_<<config, landed, told>>
<1> USE DEF Atomic!AtomicNext
<1>1. ASSUME NEW w \in Writers, Start(w) PROVE UNCHANGED <<config, landed, told>>
  BY <1>1 DEF Start
<1>2. ASSUME NEW w \in Writers, ReadAnswered(w) PROVE UNCHANGED <<config, landed, told>>
  BY <1>2 DEF ReadAnswered
<1>3. ASSUME NEW w \in Writers, PutArrives(w)
      PROVE  Atomic!Apply(w) \/ UNCHANGED <<config, landed, told>>
  <2>1. told[w] # "conflict"
    BY <1>3 DEF PutArrives, ConfigInv, Truth
  <2>2. CASE Matches(w)
    <3>1. UNCHANGED told
      BY <1>3 DEF PutArrives
    <3> QED BY <1>3, <2>1, <2>2, <3>1, LandsOnCurrent DEF Atomic!Apply
  <2>3. CASE ~Matches(w)
    BY <1>3, <2>3 DEF PutArrives
  <2> QED BY <2>2, <2>3
<1>4. ASSUME NEW w \in Writers, PutAnswered(w) PROVE Atomic!Tell(w, "ok")
  BY <1>4 DEF PutAnswered, Over, Atomic!Tell, ConfigInv, Landed, Truth, TypeOK, Told
<1>5. ASSUME NEW w \in Writers, Conflict(w)
      PROVE  Atomic!Tell(w, "conflict") \/ UNCHANGED <<config, landed, told>>
  BY <1>5 DEF Conflict, Over, Atomic!Tell, ConfigInv, Landed, Truth, TypeOK, Told
<1>6. ASSUME NEW w \in Writers, Fails(w) PROVE Atomic!Tell(w, "failed")
  BY <1>6 DEF Fails, Over, Atomic!Tell, ConfigInv, Landed, Truth, TypeOK, Told
<1>7. CASE UNCHANGED mergeVars
  BY <1>7 DEF mergeVars
<1> QED BY <1>1, <1>2, <1>3, <1>4, <1>5, <1>6, <1>7 DEF Next

(* However many writers there are and however their reads, puts and losses     *)
(* interleave, the calls are atomic changes of the configuration and their     *)
(* callers are told the truth (control.py 1365-1456).                          *)
THEOREM Refinement == Spec => ImplementsAtomic
<1>1. Init => Atomic!AtomicInit
  BY MergeShape DEF Init, Atomic!AtomicInit
<1>2. ConfigInv /\ [Next]_mergeVars => [Atomic!AtomicNext]_Atomic!atomicVars
  BY StepSimulates DEF Atomic!atomicVars
<1> QED BY <1>1, <1>2, InvHolds, PTL DEF Spec, ImplementsAtomic, Atomic!AtomicSpec

(* A guarded change keeps every key it does not name as it was when it landed  *)
(* (control.py 1402-1405).                                                     *)
THEOREM OthersKept == Spec => KeepsTheRest
<1>1. ASSUME ConfigInv, [Next]_mergeVars, NEW w \in (landed' \ landed) \ Replacers, NEW k \in Keys
      PROVE  /\ Delta[w][k] = Absent => config'[k] = config[k]
             /\ config[k] \in Mappings /\ Delta[w][k] \in Mappings =>
                  \A s \in SubKeys : Delta[w][k][s] = Absent => config'[k][s] = config[k][s]
  <2>1. w \in Writers
    BY <1>1, TypeStep DEF ConfigInv, TypeOK
  <2>2. PutArrives(w) /\ Matches(w)
    BY <1>1, <2>1 DEF Next, mergeVars, Start, ReadAnswered, PutArrives, PutAnswered, Conflict, Fails
  <2>3. config' = DeepMerge(config, Delta[w])
    BY <1>1, <2>1, <2>2, LandsOnCurrent DEF Changed
  <2>4. Delta[w][k] = Absent => config'[k] = config[k]
    BY <2>3 DEF DeepMerge
  <2>5. ASSUME config[k] \in Mappings, Delta[w][k] \in Mappings, Delta[w][k] # Absent,
               NEW s \in SubKeys, Delta[w][k][s] = Absent
        PROVE  config'[k][s] = config[k][s]
    BY <2>3, <2>5 DEF DeepMerge
  <2>6. ASSUME Delta[w][k] = Absent PROVE config'[k] = config[k]
    BY <2>4, <2>6
  <2> QED BY <2>4, <2>5, <2>6
<1>2. ConfigInv /\ [Next]_mergeVars =>
        [\A w \in (landed' \ landed) \ Replacers : \A k \in Keys :
           /\ Delta[w][k] = Absent => config'[k] = config[k]
           /\ config[k] \in Mappings /\ Delta[w][k] \in Mappings =>
                \A s \in SubKeys : Delta[w][k][s] = Absent => config'[k][s] = config[k][s]]_mergeVars
  BY <1>1
<1> QED BY <1>2, InvHolds, PTL DEF Spec, KeepsTheRest

-----------------------------------------------------------------------------
(* Credentials.                                                                *)
(* Whose answer is what: a token is given out once, to a task that then ends;  *)
(* what a code has come to stays; a revoke of the token in use is sent with    *)
(* it; and no token that died lives again.                                     *)
Kept ==
  /\ access \in minted \cup {None} /\ tokenId \in minted \cup {None}
  /\ alive \subseteq minted /\ minted \subseteq Tokens
  /\ DOMAIN task = Tasks /\ answer \in [Tasks -> Answers] /\ DOMAIN own = Tasks
  /\ target \in [Tasks -> minted \cup {None}] /\ bearer \in [Tasks -> minted \cup {None}]
  /\ DOMAIN code = Codes /\ DOMAIN intervals = Codes /\ slow \in [Codes -> Nat]

Revokers == Revokes \cup Named

GivenOnce ==
  \A t \in SignIns :
    /\ t \in minted => task[t] \in Finals \/ (task[t] = "asking" /\ answer[t] \in {"token", "lost"})
    /\ answer[t] = "token" => t \in minted

CodesStay ==
  \A t \in Devices :
    /\ answer[t] = "token" => code[CodeOf[t]] = "redeemed"
    /\ answer[t] \in {"denied", "expired"} => code[CodeOf[t]] = answer[t]

RevokesFit ==
  \A t \in Revokers :
    /\ own[t] => bearer[t] = target[t]
    /\ answer[t] = "gone" => target[t] \notin alive
    /\ answer[t] = "unknown" => bearer[t] \notin alive
    /\ task[t] = "new" => answer[t] = "none"

SignInInv == Kept /\ GivenOnce /\ CodesStay /\ RevokesFit /\ TokensAreRight

LEMMA TasksApart ==
  /\ \A t \in Revokers : t \notin SignIns /\ t \in Tasks
  /\ \A t \in SignIns : t \in Tasks /\ t \in Tokens
  /\ \A t \in Devices : t \in SignIns /\ t \notin Passwords /\ CodeOf[t] \in Codes
  /\ \A t \in Passwords : t \in SignIns
  /\ None \notin Tasks /\ None \notin Nat
BY SignInShape DEF Revokers, SignIns, Tasks, Tokens, Devices

LEMMA SignInStarts == SignInInit => SignInInv
BY TasksApart, SignInShape
   DEF SignInInit, SignInInv, Kept, GivenOnce, CodesStay, RevokesFit, TokensAreRight,
       IdNamesTheToken, RevokedIsDead, SlowDownsAdd, Answers

(* The client's steps that read no answer.                                     *)
LEMMA ClientGoesOn ==
  ASSUME SignInInv, NEW t \in Tasks, StartSignIn(t) \/ Wakes(t) \/ Late(t)
  PROVE  SignInInv'
<1>1. /\ access' = access /\ tokenId' = tokenId /\ intervals' = intervals /\ target' = target
      /\ own' = own /\ bearer' = bearer /\ answer' = answer /\ alive' = alive
      /\ minted' = minted /\ code' = code /\ slow' = slow
      /\ \/ task' = task
         \/ task[t] \in {"new", "sleeping"} /\ task' = [task EXCEPT ![t] = "asking"]
  BY DEF StartSignIn, Wakes, Late, Asks, clientVars, taskVars, apiVars
<1>2. \A u \in Tasks :
        task'[u] = task[u] \/ (task[u] \in {"new", "sleeping"} /\ task'[u] = "asking")
  BY <1>1 DEF SignInInv, Kept
<1>3. Kept' /\ CodesStay'  BY <1>1 DEF SignInInv, Kept, CodesStay
<1>4. GivenOnce'
  BY <1>1, <1>2, TasksApart DEF SignInInv, GivenOnce, Finals
<1>5. RevokesFit'
  BY <1>1, <1>2, TasksApart DEF SignInInv, RevokesFit
<1>6. TokensAreRight'
  BY <1>1, <1>2 DEF SignInInv, TokensAreRight, IdNamesTheToken, RevokedIsDead, SlowDownsAdd
<1> QED  BY <1>3, <1>4, <1>5, <1>6 DEF SignInInv

LEMMA RevokeStarts ==
  ASSUME SignInInv, NEW t \in Tasks, StartRevoke(t)
  PROVE  SignInInv'
<1> DEFINE of == IF t \in Named THEN NamedToken[t] ELSE tokenId
<1>1. /\ access' = access /\ tokenId' = tokenId /\ intervals' = intervals
      /\ answer' = answer /\ alive' = alive /\ minted' = minted /\ code' = code
      /\ slow' = slow /\ task[t] = "new" /\ t \in Revokers
      /\ target' = [target EXCEPT ![t] = of]
      /\ own' = [own EXCEPT ![t] = of # None /\ of = tokenId]
      /\ bearer' = [bearer EXCEPT ![t] = access]
  BY DEF StartRevoke, clientVars, apiVars, Revokers
<1>2. of \in minted \cup {None}
  BY DEF StartRevoke, SignInInv, Kept
<1>3. /\ DOMAIN task' = Tasks /\ \A u \in Tasks \ {t} : task'[u] = task[u]
      /\ task'[t] = "revoked" => of = None
  <2> DEFINE how == CASE of = None -> IF revokedOwn /\ access = None THEN "revoked" ELSE "noId"
                      [] of # None /\ access = None -> "failed"
                      [] OTHER -> "asking"
  <2>1. task' = [task EXCEPT ![t] = how]  BY DEF StartRevoke
  <2>2. how = "revoked" => of = None  OBVIOUS
  <2> QED  BY <2>1, <2>2 DEF SignInInv, Kept
<1>4. of # None /\ of = tokenId => access = of
  BY DEF SignInInv, TokensAreRight, IdNamesTheToken
<1>5. t \in Tasks /\ t \notin SignIns  BY <1>1, TasksApart
<1> HIDE DEF of
<1>6. Kept'  BY <1>1, <1>2, <1>3 DEF SignInInv, Kept
<1>7. GivenOnce' /\ CodesStay'
  BY <1>1, <1>3, <1>5, TasksApart DEF SignInInv, GivenOnce, CodesStay
<1>8. RevokesFit'
  <2>1. target'[t] = of /\ bearer'[t] = access /\ (own'[t] => of # None /\ of = tokenId)
    BY <1>1 DEF SignInInv, Kept
  <2>2. \A u \in Tasks \ {t} : target'[u] = target[u] /\ bearer'[u] = bearer[u] /\ own'[u] = own[u]
    BY <1>1 DEF SignInInv, Kept
  <2>3. answer[t] = "none"  BY <1>1 DEF SignInInv, RevokesFit
  <2> QED
    BY <1>1, <1>3, <1>4, <2>1, <2>2, <2>3, TasksApart DEF SignInInv, RevokesFit
<1>9. TokensAreRight'
  <2>1. \A u \in Tasks \ {t} : target'[u] = target[u]  BY <1>1 DEF SignInInv, Kept
  <2>2. target'[t] = of  BY <1>1 DEF SignInInv, Kept
  <2> QED
    BY <1>1, <1>3, <2>1, <2>2
       DEF SignInInv, TokensAreRight, IdNamesTheToken, RevokedIsDead, SlowDownsAdd
<1> QED  BY <1>6, <1>7, <1>8, <1>9 DEF SignInInv

(* The API gives out at most the one token of the task it answers, which had   *)
(* none.                                                                       *)
LEMMA ApiAnswers ==
  ASSUME SignInInv, NEW t \in Tasks, Answer(t) \/ Lost(t)
  PROVE  SignInInv'
<1>1. /\ access' = access /\ tokenId' = tokenId /\ intervals' = intervals /\ target' = target
      /\ own' = own /\ bearer' = bearer /\ slow' = slow /\ task' = task
      /\ task[t] = "asking"
  BY DEF Answer, Lost, AnswerPassword, AnswerPoll, AnswerRevoke, Waiting, clientVars
<1>2. PICK a \in Answers \ {"none"} : answer' = [answer EXCEPT ![t] = a]
  BY DEF Answer, Lost, AnswerPassword, AnswerPoll, AnswerRevoke, Says, Answers
<1>3. /\ answer'[t] = a /\ \A u \in Tasks \ {t} : answer'[u] = answer[u]
      /\ answer' \in [Tasks -> Answers]
  BY <1>2 DEF SignInInv, Kept
<1>4. /\ minted \subseteq minted' /\ minted' \subseteq minted \cup {t}
      /\ alive' \subseteq alive \cup (minted' \ minted) /\ alive' \subseteq minted'
      /\ minted' # minted => t \in SignIns /\ a = "token"
      /\ a = "token" => t \in minted'
      /\ t \notin minted \/ a = "lost"
  <2>1. CASE Lost(t)
    <3>1. a = "lost"  BY <1>2, <2>1 DEF Lost, Says, SignInInv, Kept
    <3> QED  BY <2>1, <3>1 DEF Lost, apiVars, SignInInv, Kept
  <2>2. CASE Answer(t)
    <3>1. t \notin minted
      <4>1. answer[t] = "none"
        BY <2>2 DEF Answer, AnswerPassword, AnswerPoll, AnswerRevoke, Waiting
      <4>2. t \in SignIns => t \notin minted
        BY <1>1, <4>1 DEF SignInInv, GivenOnce, Finals
      <4> QED  BY <4>2 DEF SignInInv, Kept, Tokens
    <3>2. CASE AnswerPassword(t)
      BY <1>2, <3>1, <3>2, TasksApart DEF AnswerPassword, Mint, Says, SignInInv, Kept
    <3>3. CASE AnswerPoll(t)
      <4>1. CASE UNCHANGED apiVars /\ a # "token"
        BY <3>1, <4>1 DEF apiVars, SignInInv, Kept
      <4>2. CASE /\ Says(t, "token") /\ minted' = minted \cup {t}
                 /\ alive' \in {alive \cup {t}, (alive \ Devices) \cup {t}}
        <5>1. t \in SignIns  BY <3>3, TasksApart DEF AnswerPoll
        <5>2. a = "token"  BY <1>2, <4>2 DEF Says, SignInInv, Kept
        <5> QED  BY <3>1, <4>2, <5>1, <5>2 DEF SignInInv, Kept
      <4>3. \A x \in Answers : Says(t, x) => a = x
        BY <1>2 DEF Says, SignInInv, Kept
      <4>4. CASE \E x \in {"pending", "slow_down", "denied", "expired", "refused"} :
                   Says(t, x) /\ UNCHANGED apiVars
        BY <4>1, <4>3, <4>4 DEF Answers
      <4>5. \/ \E x \in {"pending", "slow_down", "denied", "expired", "refused"} :
                  Says(t, x) /\ UNCHANGED apiVars
            \/ /\ Says(t, "token") /\ minted' = minted \cup {t}
               /\ alive' \in {alive \cup {t}, (alive \ Devices) \cup {t}}
        BY <3>3 DEF AnswerPoll
      <4> QED  BY <4>2, <4>4, <4>5
    <3>4. CASE AnswerRevoke(t)
      BY <1>2, <3>1, <3>4 DEF AnswerRevoke, Says, SignInInv, Kept
    <3> QED  BY <2>2, <3>2, <3>3, <3>4 DEF Answer
  <2> QED  BY <2>1, <2>2
<1>5. /\ DOMAIN code' = Codes
      /\ \A c \in Codes : code'[c] = code[c] \/ (code[c] = "approved" /\ code'[c] = "redeemed")
      /\ t \in Devices /\ a = "token" => code'[CodeOf[t]] = "redeemed"
      /\ t \in Devices /\ a \in {"denied", "expired"} => code'[CodeOf[t]] = a
  <2>1. CASE Lost(t)
    <3>1. a = "lost"  BY <1>2, <2>1 DEF Lost, Says, SignInInv, Kept
    <3> QED  BY <2>1, <3>1 DEF Lost, apiVars, SignInInv, Kept
  <2>2. CASE AnswerPassword(t)
    BY <2>2, TasksApart DEF AnswerPassword, SignInInv, Kept
  <2>3. CASE AnswerPoll(t)
    <3> DEFINE mine == CodeOf[t]
    <3>1. mine \in Codes /\ answer'[t] = a  BY <1>3, <2>3, TasksApart DEF AnswerPoll
    <3>2. CASE code' = code /\ a \in {"pending", "slow_down", "refused"}
      BY <3>2 DEF SignInInv, Kept
    <3>3. CASE code' = code /\ a \in {"denied", "expired"} /\ a = code[mine]
      BY <3>3 DEF SignInInv, Kept
    <3>4. CASE code[mine] = "approved" /\ code' = [code EXCEPT ![mine] = "redeemed"] /\ a = "token"
      BY <3>1, <3>4 DEF SignInInv, Kept
    <3>5. \A x : Says(t, x) => x = a
      BY <1>2 DEF Says, SignInInv, Kept
    <3>6. \/ code' = code /\ a \in {"pending", "slow_down", "refused"}
          \/ code' = code /\ a \in {"denied", "expired"} /\ a = code[mine]
          \/ /\ code[mine] = "approved" /\ code' = [code EXCEPT ![mine] = "redeemed"]
             /\ a = "token"
      BY <2>3, <3>5, Zenon DEF AnswerPoll, apiVars
    <3> QED  BY <3>2, <3>3, <3>4, <3>6
  <2>4. CASE AnswerRevoke(t)
    <3>1. t \notin Devices /\ code' = code
      BY <2>4, TasksApart DEF AnswerRevoke, Revokers
    <3> QED  BY <3>1 DEF SignInInv, Kept
  <2> QED  BY <2>1, <2>2, <2>3, <2>4 DEF Answer
<1>6. t \in Revokers =>
        /\ a = "gone" => target[t] \notin alive'
        /\ a = "unknown" => bearer[t] \notin alive'
  <2>1. \A x : Says(t, x) => x = a
    BY <1>2 DEF Says, SignInInv, Kept
  <2> SUFFICES ASSUME t \in Revokers PROVE /\ a = "gone" => target[t] \notin alive'
                                           /\ a = "unknown" => bearer[t] \notin alive'
    OBVIOUS
  <2>2. Lost(t) \/ AnswerRevoke(t)
    BY TasksApart DEF Answer, AnswerPassword, AnswerPoll
  <2> QED  BY <2>1, <2>2 DEF Lost, AnswerRevoke
<1>7. Kept'
  <2>1. minted' \subseteq Tokens  BY <1>4, TasksApart DEF SignInInv, Kept
  <2>2. target \in [Tasks -> minted' \cup {None}] /\ bearer \in [Tasks -> minted' \cup {None}]
    BY <1>4 DEF SignInInv, Kept
  <2> QED  BY <1>1, <1>3, <1>4, <1>5, <2>1, <2>2 DEF SignInInv, Kept
<1>8. GivenOnce'
  <2>1. ASSUME NEW u \in SignIns, u \in minted'
        PROVE  task'[u] \in Finals \/ (task'[u] = "asking" /\ answer'[u] \in {"token", "lost"})
    <3>1. CASE u = t
      BY <1>1, <1>3, <1>4, <2>1, <3>1
    <3>2. CASE u # t
      BY <1>1, <1>3, <1>4, <2>1, <3>2, TasksApart DEF SignInInv, GivenOnce
    <3> QED  BY <3>1, <3>2
  <2>2. ASSUME NEW u \in SignIns, answer'[u] = "token"
        PROVE  u \in minted'
    BY <1>3, <1>4, <2>2, TasksApart DEF SignInInv, GivenOnce
  <2> QED  BY <2>1, <2>2 DEF GivenOnce
<1>9. CodesStay'
  BY <1>3, <1>5, TasksApart DEF SignInInv, CodesStay
<1>10. \A k \in minted \cup {None} : k \notin alive => k \notin alive'
  BY <1>4, TasksApart DEF SignInInv, Kept, Tokens
<1>11. RevokesFit'
  <2> SUFFICES ASSUME NEW u \in Revokers
               PROVE  /\ own[u] => bearer[u] = target[u]
                      /\ answer'[u] = "gone" => target[u] \notin alive'
                      /\ answer'[u] = "unknown" => bearer[u] \notin alive'
                      /\ task[u] = "new" => answer'[u] = "none"
    BY <1>1 DEF RevokesFit
  <2>1. target[u] \in minted \cup {None} /\ bearer[u] \in minted \cup {None} /\ u \in Tasks
    BY TasksApart DEF SignInInv, Kept
  <2> QED  BY <1>1, <1>3, <1>6, <1>10, <2>1 DEF SignInInv, RevokesFit
<1>12. TokensAreRight'
  <2>1. RevokedIsDead'
    <3> SUFFICES ASSUME NEW u \in Tasks, task[u] = "revoked", target[u] # None
                 PROVE  target[u] \notin alive'
      BY <1>1 DEF RevokedIsDead
    <3>1. target[u] \in minted  BY DEF SignInInv, Kept
    <3> QED  BY <1>10, <3>1 DEF SignInInv, TokensAreRight, RevokedIsDead
  <2>2. IdNamesTheToken' /\ SlowDownsAdd'
    BY <1>1, <1>5 DEF SignInInv, TokensAreRight, IdNamesTheToken, SlowDownsAdd
  <2> QED  BY <2>1, <2>2 DEF TokensAreRight
<1> QED  BY <1>7, <1>8, <1>9, <1>11, <1>12 DEF SignInInv

-----------------------------------------------------------------------------
(* What the API does by itself.                                                *)
LEMMA ApiGoesOn ==
  ASSUME SignInInv,
         \/ \E c \in Codes : Person(c) \/ CodeExpires(c)
         \/ \E k \in Tokens : TokenExpires(k)
  PROVE  SignInInv'
<1>1. /\ access' = access /\ tokenId' = tokenId /\ intervals' = intervals /\ target' = target
      /\ own' = own /\ bearer' = bearer /\ answer' = answer /\ task' = task
      /\ minted' = minted /\ slow' = slow
  BY DEF Person, CodeExpires, TokenExpires, clientVars, taskVars
<1>2. alive' \subseteq alive
  BY DEF Person, CodeExpires, TokenExpires
<1>3. /\ DOMAIN code' = Codes
      /\ \A c \in Codes :
           code'[c] = code[c] \/ (code[c] \in {"pending", "approved"} /\ code'[c] # "pending")
      /\ \A c \in Codes : code'[c] \in {"pending", "approved"} => code[c] \in {"pending", "approved"}
  <2>1. CASE \E c \in Codes : Person(c) \/ CodeExpires(c)
    <3>1. PICK c \in Codes, s \in {"approved", "denied", "expired"} :
            code' = [code EXCEPT ![c] = s] /\ code[c] \in {"pending", "approved"}
      BY <2>1 DEF Person, CodeExpires
    <3> QED  BY <3>1 DEF SignInInv, Kept
  <2>2. CASE \E k \in Tokens : TokenExpires(k)
    BY <2>2 DEF TokenExpires, SignInInv, Kept
  <2> QED  BY <2>1, <2>2
<1>4. Kept' /\ GivenOnce'
  BY <1>1, <1>2, <1>3 DEF SignInInv, Kept, GivenOnce
<1>5. CodesStay'
  BY <1>1, <1>3, TasksApart DEF SignInInv, CodesStay
<1>6. RevokesFit'
  BY <1>1, <1>2 DEF SignInInv, RevokesFit
<1>7. TokensAreRight'
  BY <1>1, <1>2, <1>3 DEF SignInInv, TokensAreRight, IdNamesTheToken, RevokedIsDead, SlowDownsAdd
<1> QED  BY <1>4, <1>5, <1>6, <1>7 DEF SignInInv

(* What a sign-in does with its answer.  Its task ends with a token, or has    *)
(* none and may ask again.                                                     *)
LEMMA SignInReads ==
  ASSUME SignInInv, NEW t \in Tasks, PasswordAnswered(t) \/ PollAnswered(t)
  PROVE  SignInInv'
<1>1. /\ target' = target /\ own' = own /\ bearer' = bearer
      /\ alive' = alive /\ minted' = minted /\ code' = code
      /\ t \in SignIns /\ task[t] = "asking"
  BY TasksApart DEF PasswordAnswered, PollAnswered, apiVars
<1>2. PICK how \in Finals \cup {"sleeping"} :
        /\ Ends(t, how) /\ how # "revoked"
        /\ answer[t] \in {"token", "lost"} => how \in Finals
  BY DEF PasswordAnswered, PollAnswered, NotYet, Ends, Finals
<1>3. /\ task'[t] = how /\ answer'[t] = "none"
      /\ \A u \in Tasks \ {t} : task'[u] = task[u] /\ answer'[u] = answer[u]
      /\ DOMAIN task' = Tasks /\ answer' \in [Tasks -> Answers]
  BY <1>2 DEF Ends, SignInInv, Kept, Answers
<1>4. \/ access' = access /\ tokenId' = tokenId
      \/ access' = t /\ t \in minted /\ tokenId' \in {t, None}
  BY <1>1 DEF PasswordAnswered, PollAnswered, AcceptToken, clientVars, SignInInv, GivenOnce
<1>5. /\ DOMAIN intervals' = Codes /\ slow' \in [Codes -> Nat]
      /\ \A c \in Codes : code[c] \in {"pending", "approved"} => intervals'[c] = slow'[c]
  <2>1. CASE intervals' = intervals /\ slow' = slow
    BY <2>1 DEF SignInInv, Kept, TokensAreRight, SlowDownsAdd
  <2>2. CASE t \in Devices /\ Slower(CodeOf[t])
    <3>1. CodeOf[t] \in Codes /\ None \notin Nat  BY <2>2, TasksApart
    <3>2. slow[CodeOf[t]] \in Nat /\ slow[CodeOf[t]] # None
      BY <3>1 DEF SignInInv, Kept
    <3>3. \A c \in Codes : code[c] \in {"pending", "approved"} => intervals[c] = slow[c]
      BY DEF SignInInv, TokensAreRight, SlowDownsAdd
    <3> QED  BY <2>2, <3>1, <3>2, <3>3 DEF Slower, SignInInv, Kept
  <2>3. CASE /\ t \in Devices /\ code[CodeOf[t]] \in {"redeemed", "denied", "expired"}
             /\ intervals' = [intervals EXCEPT ![CodeOf[t]] = None] /\ slow' = slow
    <3>1. \A c \in Codes : code[c] \in {"pending", "approved"} => c # CodeOf[t]
      BY <2>3
    <3> QED
      BY <2>3, <3>1 DEF SignInInv, Kept, TokensAreRight, SlowDownsAdd
  <2>4. CASE PasswordAnswered(t)
    BY <2>1, <2>4 DEF PasswordAnswered
  <2>5. CASE PollAnswered(t)
    <3>1. /\ t \in Devices
          /\ answer[t] = "token" => code[CodeOf[t]] = "redeemed"
          /\ answer[t] \in {"denied", "expired"} => code[CodeOf[t]] = answer[t]
      BY <2>5 DEF PollAnswered, SignInInv, CodesStay
    <3> QED  BY <2>1, <2>2, <2>3, <2>5, <3>1 DEF PollAnswered, clientVars
  <2> QED  BY <2>4, <2>5
<1>6. Kept'
  BY <1>1, <1>3, <1>4, <1>5 DEF SignInInv, Kept
<1>7. GivenOnce'
  <2>1. t \in minted => how \in Finals
    BY <1>1, <1>2 DEF SignInInv, GivenOnce, Finals
  <2> QED  BY <1>1, <1>3, <2>1, TasksApart DEF SignInInv, GivenOnce
<1>8. CodesStay'
  BY <1>1, <1>3, TasksApart DEF SignInInv, CodesStay
<1>9. RevokesFit'
  BY <1>1, <1>3, TasksApart DEF SignInInv, RevokesFit
<1>10. TokensAreRight'
  <2>1. IdNamesTheToken'
    BY <1>4 DEF SignInInv, TokensAreRight, IdNamesTheToken
  <2>2. RevokedIsDead'
    BY <1>1, <1>2, <1>3 DEF SignInInv, TokensAreRight, RevokedIsDead
  <2>3. SlowDownsAdd'
    BY <1>1, <1>5 DEF SlowDownsAdd
  <2> QED  BY <2>1, <2>2, <2>3 DEF TokensAreRight
<1> QED  BY <1>6, <1>7, <1>8, <1>9, <1>10 DEF SignInInv

(* A revoke that ends "revoked" was told so, or that its own bearer, which it  *)
(* was of, is unknown.                                                         *)
LEMMA RevokeReads ==
  ASSUME SignInInv, NEW t \in Tasks, RevokeAnswered(t)
  PROVE  SignInInv'
<1>1. /\ target' = target /\ own' = own /\ bearer' = bearer /\ intervals' = intervals
      /\ alive' = alive /\ minted' = minted /\ code' = code /\ slow' = slow
      /\ t \in Revokers /\ task[t] = "asking"
  BY DEF RevokeAnswered, Revokers, apiVars
<1>2. PICK how \in {"revoked", "failed"} :
        Ends(t, how) /\ (how = "revoked" => Dead(t))
  BY DEF RevokeAnswered
<1>3. /\ task'[t] = how /\ answer'[t] = "none"
      /\ \A u \in Tasks \ {t} : task'[u] = task[u] /\ answer'[u] = answer[u]
      /\ DOMAIN task' = Tasks /\ answer' \in [Tasks -> Answers]
  BY <1>2 DEF Ends, SignInInv, Kept, Answers
<1>4. \/ access' = access /\ tokenId' = tokenId
      \/ access' = None /\ tokenId' = None
  BY DEF RevokeAnswered
<1>5. how = "revoked" => target[t] \notin alive
  BY <1>1, <1>2 DEF Dead, SignInInv, RevokesFit
<1>6. t \notin SignIns  BY <1>1, TasksApart
<1>7. Kept'
  BY <1>1, <1>3, <1>4 DEF SignInInv, Kept
<1>8. GivenOnce' /\ CodesStay'
  BY <1>1, <1>3, <1>6, TasksApart DEF SignInInv, GivenOnce, CodesStay
<1>9. RevokesFit'
  BY <1>1, <1>2, <1>3, TasksApart DEF SignInInv, RevokesFit
<1>10. TokensAreRight'
  BY <1>1, <1>3, <1>4, <1>5
     DEF SignInInv, TokensAreRight, IdNamesTheToken, RevokedIsDead, SlowDownsAdd
<1> QED  BY <1>7, <1>8, <1>9, <1>10 DEF SignInInv

(* For any tasks, codes and overlap of their requests: token_id names the      *)
(* token in use, a revoke that succeeded leaves a dead token, and every        *)
(* slow_down counts until its code is over (control.py 830-867, 952-976).      *)
THEOREM CredentialsAreRight == SignInSpec => []TokensAreRight
<1>1. SignInInit => SignInInv
  BY SignInStarts
<1>2. SignInInv /\ [SignInNext]_signInVars => SignInInv'
  <2> SUFFICES ASSUME SignInInv, [SignInNext]_signInVars  PROVE SignInInv'
    OBVIOUS
  <2>1. ASSUME NEW t \in Tasks,
               \/ StartSignIn(t) \/ StartRevoke(t) \/ Answer(t) \/ Lost(t)
               \/ Reads(t) \/ Wakes(t) \/ Late(t)
        PROVE  SignInInv'
    BY <2>1, ClientGoesOn, RevokeStarts, ApiAnswers, SignInReads, RevokeReads DEF Reads
  <2>2. ASSUME \/ \E c \in Codes : Person(c) \/ CodeExpires(c)
               \/ \E k \in Tokens : TokenExpires(k)
        PROVE  SignInInv'
    BY <2>2, ApiGoesOn
  <2>3. CASE UNCHANGED signInVars
    BY <2>3 DEF signInVars, clientVars, taskVars, apiVars, SignInInv, Kept, GivenOnce,
                CodesStay, RevokesFit, TokensAreRight, IdNamesTheToken, RevokedIsDead, SlowDownsAdd
  <2> QED  BY <2>1, <2>2, <2>3 DEF SignInNext
<1>3. SignInInv => TokensAreRight
  BY DEF SignInInv
<1> QED  BY <1>1, <1>2, <1>3, PTL DEF SignInSpec

-----------------------------------------------------------------------------
(* Waiting for an operation.                                                   *)
(* When a read may be sent, how long a sleep is, and how far a ready operation *)
(* is from being seen by a wait that nothing hindered.                         *)
Clocks ==
  /\ kind \in {"operation", "admission", "skill"} /\ hindered \in BOOLEAN
  /\ now \in Nat /\ began \in Nat /\ wake \in Nat /\ notBefore \in Nat /\ readyAt \in Nat
  /\ step \in {"new", "due", "reading", "sleeping", "over"} /\ (step = "over" <=> verdict # "none")
  /\ operation # "ready" => readyAt = Horizon + 1
  /\ step # "over" => said = "unread"

Due ==
  /\ step = "new" => now = 0 /\ notBefore = 0
  /\ step = "due" => notBefore <= now
  /\ step = "reading" => began <= now /\ (~hindered => began = now) /\ notBefore <= began
  /\ step = "sleeping" => notBefore <= wake /\ wake <= Deadline

Seen ==
  ~hindered =>
    /\ step = "sleeping" => wake <= readyAt + PollInterval /\ wake <= now + PollInterval
    /\ step \in {"new", "due", "reading"} => now <= readyAt + PollInterval
    /\ verdict = "timeout" => Deadline <= now /\ Deadline <= readyAt + PollInterval

WaitsAreTrue == VerdictIsTheOperations /\ ReadyIsSeen /\ InTime /\ SlowDownKept
WaitInv == Clocks /\ Due /\ Seen /\ VerdictIsTheOperations /\ InTime

LEMMA MinOfTwo ==
  ASSUME NEW i \in Nat, NEW j \in Nat
  PROVE  /\ Min({i, j}) \in Nat /\ Min({i, j}) <= i /\ Min({i, j}) <= j
         /\ Min({i, j}) = i \/ Min({i, j}) = j
<1>1. \E m \in {i, j} : \A k \in {i, j} : m <= k
  <2>1. CASE i <= j  BY <2>1
  <2>2. CASE j <= i  BY <2>2
  <2> QED  BY <2>1, <2>2
<1> QED  BY <1>1 DEF Min

LEMMA MaxOfTwo ==
  ASSUME NEW i \in Nat, NEW j \in Nat
  PROVE  Max({i, j}) \in Nat /\ i <= Max({i, j}) /\ j <= Max({i, j})
<1>1. \E m \in {i, j} : \A k \in {i, j} : m >= k
  <2>1. CASE i <= j  BY <2>1
  <2>2. CASE j <= i  BY <2>2
  <2> QED  BY <2>1, <2>2
<1> QED  BY <1>1 DEF Max

LEMMA WaitStarts == WaitInit => WaitInv
<1> SUFFICES ASSUME WaitInit PROVE WaitInv
  OBVIOUS
<1>1. Deadline \in Nat /\ Horizon \in Nat /\ kind \in {"operation", "admission", "skill"}
  BY WaitShape DEF WaitInit, Deadline, Horizon
<1>2. Clocks
  <2>1. hindered \in BOOLEAN  BY DEF WaitInit
  <2>2. readyAt \in Nat /\ readyAt = Horizon + 1  BY <1>1 DEF WaitInit
  <2>3. step = "new" /\ verdict = "none" /\ said = "unread"  BY DEF WaitInit
  <2>4. now \in Nat /\ began \in Nat /\ wake \in Nat /\ notBefore \in Nat  BY DEF WaitInit
  <2> QED  BY <1>1, <2>1, <2>2, <2>3, <2>4 DEF Clocks
<1>5. Due /\ VerdictIsTheOperations
  BY <1>1 DEF WaitInit, Due, VerdictIsTheOperations
<1>3. Seen
  BY <1>1, WaitShape DEF WaitInit, Seen
<1>4. InTime
  BY <1>1, WaitShape DEF WaitInit, InTime
<1> QED  BY <1>2, <1>3, <1>4, <1>5 DEF WaitInv

LEMMA WaitApi ==
  ASSUME WaitInv, Settles \/ TokenDies
  PROVE  WaitInv'
<1>1. CASE TokenDies
  BY <1>1 DEF TokenDies, WaitInv, Clocks, Due, Seen, VerdictIsTheOperations, InTime, Horizon, Deadline
<1>2. CASE Settles
  <2>1. /\ kind' = kind /\ now' = now /\ credentials' = credentials /\ step' = step
        /\ began' = began /\ wake' = wake /\ said' = said /\ verdict' = verdict
        /\ notBefore' = notBefore /\ hindered' = hindered /\ operation = "pending" /\ operation' # "pending"
        /\ \/ operation' = "ready" /\ readyAt' = now
           \/ operation' # "ready" /\ readyAt' = readyAt
    BY <1>2 DEF Settles
  <2>2. Clocks' /\ Due' /\ InTime'
    BY <2>1 DEF WaitInv, Clocks, Due, InTime, Horizon, Deadline
  <2>3. Seen'
    BY <2>1, WaitShape DEF WaitInv, Clocks, Seen, Deadline
  <2>4. VerdictIsTheOperations'
    BY <2>1 DEF WaitInv, VerdictIsTheOperations
  <2> QED  BY <2>2, <2>3, <2>4 DEF WaitInv
<1> QED  BY <1>1, <1>2

LEMMA WaitTicks ==
  ASSUME WaitInv, Tick
  PROVE  WaitInv'
<1>1. /\ kind' = kind /\ operation' = operation /\ credentials' = credentials /\ step' = step
      /\ began' = began /\ wake' = wake /\ said' = said /\ verdict' = verdict
      /\ notBefore' = notBefore /\ readyAt' = readyAt /\ now' = now + 1 /\ step \notin {"new", "due"}
      /\ step = "sleeping" => now < wake
      /\ hindered' \in BOOLEAN /\ (~hindered' => ~hindered /\ step # "reading")
  BY DEF Tick, WaitInv, Clocks
<1>2. step = "reading" => now < Deadline + (IF kind = "skill" THEN HttpTimeout ELSE 0)
  <2>1. CASE kind = "skill"
    BY <2>1, WaitShape DEF Tick, GivenUp, WaitInv, Clocks, InTime, Deadline
  <2>2. CASE kind # "skill"
    <3>1. began + HttpTimeout \in Nat /\ Deadline \in Nat
      BY WaitShape DEF WaitInv, Clocks, Deadline
    <3>2. Min({Deadline, began + HttpTimeout}) <= Deadline /\ Min({Deadline, began + HttpTimeout}) \in Nat
      BY <3>1, MinOfTwo
    <3> QED  BY <2>2, <3>1, <3>2 DEF Tick, GivenUp, WaitInv, Clocks
  <2> QED  BY <2>1, <2>2
<1>3. Clocks' /\ Due'
  BY <1>1 DEF WaitInv, Clocks, Due, Horizon, Deadline
<1>4. Seen'
  BY <1>1, WaitShape DEF WaitInv, Clocks, Seen, Deadline
<1>5. VerdictIsTheOperations'
  BY <1>1 DEF WaitInv, VerdictIsTheOperations
<1>6. InTime'
  BY <1>1, <1>2, WaitShape DEF WaitInv, Clocks, Due, InTime, Deadline
<1> QED  BY <1>3, <1>4, <1>5, <1>6 DEF WaitInv

(* A sleep ends within the wait; unhindered, no more than a poll interval on.  *)
LEMMA Sleeps ==
  ASSUME WaitInv, NEW for \in Nat, step = "reading", Sleep(for)
  PROVE  \/ Left = 0 /\ step' = "over" /\ verdict' = "timeout" /\ wake' = wake
         \/ /\ Left # 0 /\ step' = "sleeping" /\ verdict' = verdict
            /\ wake' \in Nat /\ now <= wake' /\ wake' <= Deadline /\ wake' <= now + for
            /\ for <= Left => wake' = now + for
<1>1. Deadline \in Nat /\ now \in Nat
  BY WaitShape DEF Deadline, WaitInv, Clocks
<1>2. Left \in Nat /\ (Left # 0 => now + Left = Deadline)
  BY <1>1 DEF Left
<1>3. /\ Min({for, Left}) \in Nat /\ Min({for, Left}) <= for /\ Min({for, Left}) <= Left
      /\ for <= Left => Min({for, Left}) = for
  BY <1>2, MinOfTwo
<1> HIDE DEF Left
<1> QED  BY <1>1, <1>2, <1>3 DEF Sleep, Gives

(* A read that does not end the wait: it sleeps a poll interval, or as long as *)
(* it was told to.                                                             *)
LEMMA ReadsOn ==
  ASSUME WaitInv, NEW for \in Nat, step = "reading", Sleep(for),
         UNCHANGED <<kind, now, operation, credentials, began, said, readyAt>>,
         \/ hindered' = TRUE
         \/ hindered' = hindered /\ operation = "pending" /\ for = PollInterval,
         \/ notBefore' = notBefore
         \/ notBefore' \in Nat /\ notBefore' <= now + for /\ for <= Left
  PROVE  WaitInv'
<1>1. /\ kind' = kind /\ now' = now /\ operation' = operation /\ credentials' = credentials
      /\ began' = began /\ said' = said /\ readyAt' = readyAt /\ now \in Nat /\ began \in Nat
      /\ readyAt \in Nat /\ wake \in Nat /\ notBefore \in Nat
      /\ verdict = "none" /\ said = "unread" /\ notBefore <= began /\ began <= now /\ began < Deadline
      /\ Deadline \in Nat /\ Horizon \in Nat /\ Deadline < Horizon /\ PollInterval \in Nat
  <2>1. Deadline \in Nat /\ Horizon \in Nat /\ Deadline < Horizon /\ PollInterval \in Nat
    BY WaitShape DEF Deadline, Horizon
  <2>2. verdict = "none" /\ said = "unread" /\ notBefore <= began /\ began <= now /\ began < Deadline
    BY DEF WaitInv, Clocks, Due, InTime
  <2> QED  BY <2>1, <2>2 DEF WaitInv, Clocks
<1>4. /\ notBefore' \in Nat /\ hindered' \in BOOLEAN
      /\ ~hindered' => now < Deadline /\ operation = "pending" /\ for = PollInterval
                         /\ readyAt = Horizon + 1
  BY <1>1 DEF WaitInv, Clocks, Due
<1>2. CASE Left = 0 /\ step' = "over" /\ verdict' = "timeout" /\ wake' = wake
  <2>1. hindered'
    BY <1>1, <1>4, <1>2 DEF Left
  <2>2. Clocks' /\ Due'
    BY <1>1, <1>4, <1>2 DEF WaitInv, Clocks, Due, Horizon
  <2>3. VerdictIsTheOperations' /\ InTime'
    BY <1>1, <1>4, <1>2 DEF WaitInv, VerdictIsTheOperations, InTime
  <2> QED  BY <2>1, <2>2, <2>3 DEF WaitInv, Seen
<1>3. CASE /\ Left # 0 /\ step' = "sleeping" /\ verdict' = verdict
           /\ wake' \in Nat /\ now <= wake' /\ wake' <= Deadline /\ wake' <= now + for
           /\ for <= Left => wake' = now + for
  <2>1. Clocks'
    BY <1>1, <1>4, <1>3 DEF WaitInv, Clocks, Horizon
  <2>2. notBefore' <= wake'
    BY <1>1, <1>4, <1>3
  <2>3. Due'
    BY <1>3, <2>2 DEF Due, Deadline
  <2>4. Seen'
    BY <1>1, <1>4, <1>3 DEF Seen
  <2>5. VerdictIsTheOperations'
    BY <1>1, <1>4, <1>3 DEF WaitInv, VerdictIsTheOperations
  <2>6. InTime'
    <3>1. now <= Deadline
      BY <1>1, <1>4, <1>3
    <3> QED  BY <1>1, <1>4, <1>3, <3>1, WaitShape DEF InTime, Deadline
  <2> QED  BY <2>1, <2>3, <2>4, <2>5, <2>6 DEF WaitInv
<1> QED  BY <1>2, <1>3, Sleeps

(* A step that ends the wait.                                                  *)
LEMMA WaitOver ==
  ASSUME WaitInv, NEW how, how # "none", Gives(how),
         UNCHANGED <<kind, now, operation, credentials, began, wake, readyAt>>,
         notBefore' \in Nat, hindered' = hindered \/ hindered' = TRUE,
         how = "ready" => operation = "ready",
         how = "failed" => operation = "failed" \/ (said' = "unusable" /\ kind = "admission"),
         how = "refused" <=> (said' = "refused" /\ kind = "admission"),
         how = "auth" => ~credentials,
         how = "timeout" /\ ~hindered' => Deadline <= now /\ Deadline <= readyAt + PollInterval
  PROVE  WaitInv'
<1>1. /\ kind' = kind /\ now' = now /\ operation' = operation /\ credentials' = credentials
      /\ began' = began /\ wake' = wake /\ readyAt' = readyAt
      /\ step' = "over" /\ verdict' = how /\ hindered' \in BOOLEAN
  BY DEF Gives, WaitInv, Clocks
<1>2. Clocks' /\ Due'
  BY <1>1 DEF WaitInv, Clocks, Due, Horizon
<1>3. Seen'
  BY <1>1 DEF Seen, Deadline
<1>4. VerdictIsTheOperations' /\ InTime'
  BY <1>1 DEF VerdictIsTheOperations, InTime
<1> QED  BY <1>2, <1>3, <1>4 DEF WaitInv

LEMMA WaitReads ==
  ASSUME WaitInv,
         \/ ReadStatus \/ ReadForgotten \/ ReadUnauthorized \/ ReadServerError
         \/ ReadRefused \/ ReadUnreachable \/ ReadCutOff \/ \E after \in RetryAfters : ReadSlowDown(after)
  PROVE  WaitInv'
<1>1. /\ step = "reading" /\ notBefore \in Nat /\ now \in Nat /\ PollInterval \in Nat
      /\ began < Deadline /\ (~hindered => began = now) /\ began \in Nat /\ Deadline \in Nat
      /\ said = "unread"
  BY WaitShape DEF ReadStatus, ReadRefused, ReadForgotten, ReadUnauthorized, ReadServerError, ReadUnreachable,
         ReadCutOff, ReadSlowDown, WaitInv, Clocks, Due, InTime, Deadline
<1>2. CASE ReadStatus
  <2>1. CASE operation = "pending"
    <3>1. Sleep(PollInterval)  BY <1>2, <2>1 DEF ReadStatus
    <3> QED  BY <1>1, <1>2, <2>1, <3>1, ReadsOn DEF ReadStatus
  <2>2. CASE operation # "pending"
    <3>1. PICK how \in {"ready", "failed"} : Gives(how) /\ operation = how /\ wake' = wake
      BY <1>2, <2>2 DEF ReadStatus
    <3> QED  BY <1>1, <1>2, <3>1, WaitOver DEF ReadStatus
  <2> QED  BY <2>1, <2>2
<1>3. CASE ReadForgotten
  BY <1>1, <1>3, WaitOver DEF ReadForgotten
<1>4. CASE ReadUnauthorized
  BY <1>1, <1>4, WaitOver DEF ReadUnauthorized
<1>9. CASE ReadRefused
  <2>1. PICK how \in {"refused", "failed", "error"} :
          /\ Gives(how)
          /\ how = "failed" => said' = "unusable" /\ kind = "admission"
          /\ how = "refused" <=> (said' = "refused" /\ kind = "admission")
    BY <1>9 DEF ReadRefused, Useless
  <2> QED  BY <1>1, <1>9, <2>1, WaitOver DEF ReadRefused
<1>5. CASE ReadServerError
  <2>1. CASE kind = "skill"
    BY <1>1, <1>5, <2>1, WaitOver DEF ReadServerError
  <2>2. CASE kind # "skill"
    BY <1>1, <1>5, <2>2, ReadsOn DEF ReadServerError
  <2> QED  BY <2>1, <2>2
<1>6. CASE ReadUnreachable
  BY <1>1, <1>6, WaitOver DEF ReadUnreachable
<1>7. CASE ReadCutOff
  <2>1. hindered  BY <1>1, <1>7 DEF ReadCutOff, Left, WaitInv, Clocks
  <2> QED  BY <1>1, <1>7, <2>1, WaitOver DEF ReadCutOff
<1>8. ASSUME NEW after \in RetryAfters, ReadSlowDown(after)
      PROVE  WaitInv'
  <2>1. after \in Nat /\ WaitNamed(after) \in Nat /\ after <= WaitNamed(after) /\ Left \in Nat
    BY <1>1, MaxOfTwo, WaitShape DEF WaitNamed, Left
  <2>2. notBefore' \in Nat /\ hindered' = TRUE /\ notBefore' = now + after
    BY <1>1, <1>8, <2>1 DEF ReadSlowDown
  <2>3. CASE kind = "skill"
    <3>1. Gives("error") /\ wake' = wake  BY <1>8, <2>3 DEF ReadSlowDown
    <3> QED  BY <1>1, <1>8, <2>2, <3>1, WaitOver DEF ReadSlowDown
  <2>4. CASE kind # "skill" /\ WaitNamed(after) > Left
    <3>1. Gives("timeout") /\ wake' = wake  BY <1>8, <2>4 DEF ReadSlowDown
    <3> QED  BY <1>1, <1>8, <2>2, <3>1, WaitOver DEF ReadSlowDown
  <2>5. CASE kind # "skill" /\ ~(WaitNamed(after) > Left)
    <3>1. Sleep(WaitNamed(after))  BY <1>8, <2>5 DEF ReadSlowDown
    <3>2. WaitNamed(after) <= Left /\ notBefore' <= now + WaitNamed(after)
      BY <1>1, <2>1, <2>2, <2>5
    <3>3. UNCHANGED <<kind, now, operation, credentials, began, said, readyAt>>
      BY <1>8 DEF ReadSlowDown
    <3> QED  BY <1>1, <2>1, <2>2, <3>1, <3>2, <3>3, ReadsOn
  <2> QED  BY <2>3, <2>4, <2>5
<1> QED  BY <1>2, <1>3, <1>4, <1>5, <1>6, <1>7, <1>8, <1>9

LEMMA WaitGoesOn ==
  ASSUME WaitInv, StartWait \/ Send \/ Wake
  PROVE  WaitInv'
<1>1. /\ kind' = kind /\ now' = now /\ operation' = operation /\ credentials' = credentials
      /\ wake' = wake /\ notBefore' = notBefore /\ readyAt' = readyAt /\ hindered' = hindered
      /\ now \in Nat /\ notBefore \in Nat /\ Deadline \in Nat /\ PollInterval \in Nat
      /\ readyAt \in Nat /\ began \in Nat /\ said = "unread"
  BY WaitShape DEF StartWait, Send, Wake, WaitInv, Clocks, Deadline
<1>2. CASE StartWait
  <2>1. CASE step' = "due" /\ verdict' = verdict /\ said' = said
    BY <1>1, <1>2, <2>1, WaitShape
       DEF StartWait, WaitInv, Clocks, Due, Seen, VerdictIsTheOperations, InTime, Horizon, Deadline
  <2>2. CASE (Gives("nothing") \/ Gives("error")) /\ said' = said
    BY <1>1, <1>2, <2>2, WaitOver DEF StartWait
  <2>3. CASE Useless
    <3>1. PICK how \in {"failed", "error"} :
            Gives(how) /\ said' = "unusable" /\ (how = "failed" => kind = "admission")
      BY <2>3 DEF Useless
    <3> QED  BY <1>1, <1>2, <3>1, WaitOver DEF StartWait
  <2> QED  BY <1>2, <2>1, <2>2, <2>3 DEF StartWait
<1>3. CASE Send
  <2>1. CASE Left = 0
    <3>1. Gives("timeout") /\ began' = began /\ said' = said  BY <1>3, <2>1 DEF Send
    <3>2. Deadline <= now  BY <1>1, <2>1 DEF Left
    <3>3. ~hindered => Deadline <= readyAt + PollInterval
      BY <1>1, <1>3, <3>2 DEF Send, WaitInv, Seen
    <3> QED  BY <1>1, <3>1, <3>2, <3>3, WaitOver
  <2>2. CASE Left # 0
    <3>1. step' = "reading" /\ began' = now /\ verdict' = verdict /\ step = "due" /\ now < Deadline
          /\ said' = said
      BY <1>1, <1>3, <2>2 DEF Send, Left
    <3> QED
      BY <1>1, <3>1, WaitShape
         DEF WaitInv, Clocks, Due, Seen, VerdictIsTheOperations, InTime, Horizon, Deadline
  <2> QED  BY <2>1, <2>2
<1>4. CASE Wake
  <2>1. step = "sleeping" /\ now = wake /\ step' = "due" /\ verdict' = verdict /\ began' = began /\ said' = said
    BY <1>4 DEF Wake
  <2>2. Clocks' /\ Due' /\ VerdictIsTheOperations'
    BY <1>1, <2>1 DEF WaitInv, Clocks, Due, VerdictIsTheOperations, Horizon
  <2>3. Seen' /\ InTime'
    BY <1>1, <2>1 DEF WaitInv, Clocks, Seen, InTime, Deadline
  <2> QED  BY <2>2, <2>3 DEF WaitInv
<1> QED  BY <1>2, <1>3, <1>4

LEMMA WaitInvariant ==
  /\ WaitInv /\ [WaitNext]_waitVars => WaitInv'
  /\ WaitInv => WaitsAreTrue
<1>1. ASSUME WaitInv, UNCHANGED waitVars  PROVE WaitInv'
  BY <1>1 DEF waitVars, WaitInv, Clocks, Due, Seen, VerdictIsTheOperations, InTime, Horizon, Deadline
<1>2. WaitInv /\ [WaitNext]_waitVars => WaitInv'
  BY <1>1, WaitApi, WaitTicks, WaitReads, WaitGoesOn DEF WaitNext, WaitStep
<1>3. ASSUME WaitInv  PROVE WaitsAreTrue
  <2>1. ReadyIsSeen
    BY <1>3, WaitShape DEF WaitInv, Clocks, Seen, ReadyIsSeen, Deadline
  <2>2. SlowDownKept
    BY <1>3 DEF WaitInv, Clocks, Due, SlowDownKept
  <2> QED  BY <1>3, <2>1, <2>2 DEF WaitInv, WaitsAreTrue
<1> QED  BY <1>2, <1>3

(* Whatever the times, and whatever the API answers: a wait ends with what     *)
(* became of the operation, or with a read that was refused (it keeps the      *)
(* status) or useless; in its time, having asked no sooner than it was told to *)
(* and missed nothing that was ready an interval before (control.py 2288-2412).*)
THEOREM WaitsReportTrue == WaitSpec => []WaitsAreTrue
BY WaitStarts, WaitInvariant, PTL DEF WaitSpec

-----------------------------------------------------------------------------
(* Connections.                                                                *)
ConnShapes ==
  /\ version \in [Calls -> Nat] /\ asked \in [Calls -> BOOLEAN]
  /\ etag \in [ConnTasks -> Nat] /\ connAttempt \in [ConnTasks -> 0..2]
  /\ connTask \in [ConnTasks -> {"new", "creating", "checking", "reading", "deleting", "over"}]
  /\ reply \in [ConnTasks -> Replies] /\ result \in [ConnTasks -> Results]

\* The one request that may make a connection has been answered.
Past(c) == connTask[c] # "new" /\ (connTask[c] = "creating" => reply[c] # "none")

(* What a task was told belongs to what it asks.                               *)
RepliesFit(t) ==
  /\ connTask[t] \in {"new", "over"} => reply[t] = "none"
  /\ connTask[t] = "creating" =>
       t \in Calls /\ reply[t] \in {"none", "made", "madeOther", "refusedType", "refused", "lost"}
  /\ connTask[t] = "reading" => reply[t] \in {"none", "etag", "missing", "lost"}
  /\ connTask[t] = "deleting" => reply[t] \in {"none", "missing", "deleted", "conflict", "lost"}
  /\ result[t] # "none" <=> connTask[t] = "over"
  /\ connTask[t] # "checking"

(* A connection is made once, and only a task whose connection was made        *)
(* deletes it.                                                                 *)
MadeOnce(t) ==
  /\ version[Connection(t)] # 0 => Past(Connection(t))
  /\ connTask[t] \in {"reading", "deleting", "over"} => Past(Connection(t))
  /\ \/ reply[t] \in {"refusedType", "deleted", "missing"}
     \/ result[t] \in {"unsupported", "deleted"}
     => version[Connection(t)] = 0

KindFits(t) ==
  t \in Calls =>
    /\ reply[t] = "made" => asked[t]
    /\ reply[t] = "madeOther" => ~asked[t]
    /\ connTask[t] \in {"reading", "deleting"} => t \in Typed /\ ~asked[t]
    /\ t \in Typed /\ result[t] = "identity" => asked[t]

(* A version read or given is the connection's or an earlier one; the second   *)
(* attempt reads one that another writer made.                                 *)
Since(t, n) == version[Connection(t)] = 0 \/ version[Connection(t)] >= n

VersionsFit(t) ==
  /\ connTask[t] = "reading" =>
       /\ connAttempt[t] \in {1, 2} /\ Since(t, connAttempt[t])
       /\ reply[t] = "etag" => etag[t] >= connAttempt[t] /\ Since(t, etag[t])
  /\ connTask[t] = "deleting" =>
       /\ connAttempt[t] \in {1, 2} /\ etag[t] >= connAttempt[t] /\ Since(t, etag[t])
       /\ reply[t] = "conflict" => Since(t, etag[t] + 1)

Fits(t) == RepliesFit(t) /\ MadeOnce(t) /\ KindFits(t) /\ VersionsFit(t)
ConnInv == ConnShapes /\ \A t \in ConnTasks : Fits(t)
ConnectionsAreTrue == NoStrangerLeft /\ KindIsKept /\ DeletedIsGone

LEMMA TheConnection ==
  ASSUME NEW t \in ConnTasks
  PROVE  Connection(t) \in Calls /\ (t \in Calls => Connection(t) = t)
         /\ (t \in Deletes => t \notin Calls /\ Connection(t) = Of[t])
         /\ t \in Calls \cup Deletes
BY ConnectionsShape DEF Connection, ConnTasks

LEMMA ConnStarts == ConnInit => ConnInv
<1> SUFFICES ASSUME ConnInit PROVE ConnInv
  OBVIOUS
<1>1. ConnShapes
  BY DEF ConnInit, ConnShapes, Replies, Results
<1>2. ASSUME NEW t \in ConnTasks PROVE Fits(t)
  <2>1. connTask[t] = "new" /\ reply[t] = "none" /\ result[t] = "none" /\ version[Connection(t)] = 0
    BY TheConnection DEF ConnInit
  <2> QED
    BY <2>1 DEF Fits, RepliesFit, MadeOnce, KindFits, VersionsFit
<1> QED  BY <1>1, <1>2 DEF ConnInv

(* A task that did nothing still fits: its connection is as it was, deleted or *)
(* changed by others, or not made before.                                      *)
LEMMA OthersFit ==
  ASSUME ConnInv, ConnShapes', NEW u \in ConnTasks,
         connTask'[u] = connTask[u], reply'[u] = reply[u], result'[u] = result[u],
         etag'[u] = etag[u], connAttempt'[u] = connAttempt[u],
         u \in Calls => asked'[u] = asked[u],
         Past(Connection(u)) => Past(Connection(u))',
         \/ version'[Connection(u)] = version[Connection(u)]
         \/ version'[Connection(u)] = 0
         \/ version[Connection(u)] # 0 /\ version'[Connection(u)] > version[Connection(u)]
         \/ ~Past(Connection(u)) /\ Past(Connection(u))'
  PROVE  Fits(u)'
<1> DEFINE c == Connection(u)
<1>1. Fits(u) /\ version[c] \in Nat /\ version'[c] \in Nat /\ etag[u] \in Nat
      /\ connAttempt[u] \in 0..2 /\ Connection(u)' = c
      /\ connTask[u] \in {"new", "creating", "checking", "reading", "deleting", "over"}
  BY TheConnection DEF ConnInv, ConnShapes, Connection
<1>2. RepliesFit(u)'  BY <1>1 DEF Fits, RepliesFit
<1>3. reply[u] \in {"refusedType", "deleted", "missing"} \/ result[u] \in {"unsupported", "deleted"}
        => Past(c)
  <2>1. reply[u] # "none" => connTask[u] \notin {"new", "over", "checking"}
    BY <1>1 DEF Fits, RepliesFit
  <2>2. CASE connTask[u] = "creating" /\ reply[u] # "none"
    <3>1. c = u  BY <1>1, <2>2, TheConnection DEF Fits, RepliesFit
    <3> QED  BY <2>2, <3>1 DEF Past
  <2>3. CASE connTask[u] \in {"reading", "deleting", "over"}
    BY <1>1, <2>3 DEF Fits, MadeOnce
  <2>4. result[u] # "none" => connTask[u] = "over"
    BY <1>1 DEF Fits, RepliesFit
  <2> QED  BY <1>1, <2>1, <2>2, <2>3, <2>4
<1>4. MadeOnce(u)'
  BY <1>1, <1>3 DEF Fits, MadeOnce
<1>5. KindFits(u)'  BY <1>1 DEF Fits, KindFits
<1>6. VersionsFit(u)'
  BY <1>1 DEF Fits, MadeOnce, VersionsFit, Since
<1> QED  BY <1>2, <1>4, <1>5, <1>6 DEF Fits

(* A step of one task, or of the API for it, that leaves every connection.     *)
LEMMA TaskStep ==
  ASSUME ConnInv, ConnShapes', NEW t \in ConnTasks, Fits(t)',
         UNCHANGED <<version, asked>>,
         \A u \in ConnTasks \ {t} : /\ connTask'[u] = connTask[u] /\ reply'[u] = reply[u]
                                    /\ result'[u] = result[u] /\ etag'[u] = etag[u]
                                    /\ connAttempt'[u] = connAttempt[u],
         t \in Calls => (Past(t) => Past(t)')
  PROVE  ConnInv'
<1>1. ASSUME NEW u \in ConnTasks \ {t} PROVE Fits(u)'
  <2> DEFINE c == Connection(u)
  <2>1. c \in Calls /\ c \in ConnTasks  BY TheConnection DEF ConnTasks
  <2>2. Past(c) => Past(c)'
    BY <2>1 DEF Past
  <2> HIDE DEF c
  <2>3. version' = version /\ asked' = asked  OBVIOUS
  <2> QED  BY <2>2, <2>3, OthersFit DEF c
<1> QED  BY <1>1 DEF ConnInv

LEMMA ApiForTask ==
  ASSUME ConnInv, NEW t \in ConnTasks, Tells(t) \/ CallLost(t)
  PROVE  ConnInv'
<1> DEFINE c == Connection(t)
<1>1. /\ version' = version /\ asked' = asked /\ connTask' = connTask
      /\ connAttempt' = connAttempt /\ result' = result
  BY DEF Tells, CallLost
<1>2. PICK r \in Replies : reply' = [reply EXCEPT ![t] = r] /\ r # "none"
  BY DEF Tells, CallLost, ApiSays, Replies
<1>3. /\ reply'[t] = r /\ \A u \in ConnTasks \ {t} : reply'[u] = reply[u]
      /\ reply' \in [ConnTasks -> Replies]
  BY <1>2 DEF ConnInv, ConnShapes
<1>4. c \in Calls /\ version[c] \in Nat /\ Fits(t)
  BY TheConnection DEF ConnInv, ConnShapes
<1>5. /\ etag' \in [ConnTasks -> Nat] /\ \A u \in ConnTasks \ {t} : etag'[u] = etag[u]
      /\ \/ r = "lost" /\ etag'[t] = etag[t]
            /\ connTask[t] \in {"creating", "reading", "deleting"}
         \/ connTask[t] = "reading" /\ reply[t] = "none" /\ etag'[t] = version[c]
            /\ r = IF version[c] = 0 THEN "missing" ELSE "etag"
  <2>1. CASE Tells(t)
    <3>1. r = IF version[c] = 0 THEN "missing" ELSE "etag"
      BY <1>2, <2>1 DEF Tells, ApiSays, ConnInv, ConnShapes
    <3>2. etag' = [etag EXCEPT ![t] = version[c]]  BY <2>1 DEF Tells
    <3> QED  BY <1>4, <2>1, <3>1, <3>2 DEF Tells, ConnInv, ConnShapes
  <2>2. CASE CallLost(t)
    <3>1. r = "lost"  BY <1>2, <2>2 DEF CallLost, ApiSays, ConnInv, ConnShapes
    <3> QED  BY <2>2, <3>1 DEF CallLost, ConnInv, ConnShapes
  <2> QED  BY <2>1, <2>2
<1>6. ConnShapes'
  BY <1>1, <1>3, <1>5 DEF ConnInv, ConnShapes
<1>8. Past(c) => Past(c)'
  BY <1>1, <1>2, <1>3, TheConnection DEF Past, ConnTasks
<1>9. RepliesFit(t)'
  BY <1>1, <1>3, <1>4, <1>5 DEF Fits, RepliesFit
<1>10. MadeOnce(t)'
  <2>1. Connection(t)' = c  BY DEF Connection
  <2> QED  BY <1>1, <1>3, <1>4, <1>5, <1>8, <2>1 DEF Fits, MadeOnce
<1>11. KindFits(t)'
  BY <1>1, <1>3, <1>4, <1>5 DEF Fits, KindFits
<1>12. VersionsFit(t)'
  <2>1. Connection(t)' = c  BY DEF Connection
  <2> QED  BY <1>1, <1>3, <1>4, <1>5, <2>1 DEF Fits, VersionsFit, Since
<1>13. Fits(t)'
  BY <1>9, <1>10, <1>11, <1>12 DEF Fits
<1>14. t \in Calls => (Past(t) => Past(t)')
  BY <1>8, TheConnection
<1> QED
  BY <1>1, <1>3, <1>5, <1>6, <1>13, <1>14, TaskStep

(* A task goes on: what it was told is forgotten.                              *)
LEMMA TaskGoes ==
  ASSUME ConnInv, ConnShapes', NEW t \in ConnTasks, UNCHANGED <<version, asked>>,
         \A u \in ConnTasks \ {t} : /\ connTask'[u] = connTask[u] /\ reply'[u] = reply[u]
                                    /\ result'[u] = result[u] /\ etag'[u] = etag[u]
                                    /\ connAttempt'[u] = connAttempt[u],
         reply'[t] = "none", connTask'[t] \in {"creating", "reading", "deleting", "over"},
         result'[t] # "none" <=> connTask'[t] = "over",
         connTask'[t] = "creating" => t \in Calls /\ ~Past(t),
         connTask'[t] # "creating" => Past(Connection(t)),
         result'[t] \in {"unsupported", "deleted"} => version[Connection(t)] = 0,
         t \in Calls /\ connTask'[t] \in {"reading", "deleting"} => t \in Typed /\ ~asked[t],
         t \in Typed /\ result'[t] = "identity" => asked[t],
         connTask'[t] = "reading" => connAttempt'[t] \in {1, 2} /\ Since(t, connAttempt'[t]),
         connTask'[t] = "deleting" =>
           connAttempt'[t] \in {1, 2} /\ etag'[t] >= connAttempt'[t] /\ Since(t, etag'[t])
  PROVE  ConnInv'
<1> DEFINE c == Connection(t)
<1>1. version' = version /\ asked' = asked /\ Connection(t)' = c  BY DEF Connection
<1>2. c \in ConnTasks /\ (t \in Calls => c = t)  BY TheConnection DEF ConnTasks
<1>3. Past(c) => Past(c)'
  <2>1. CASE c = t  BY <2>1 DEF Past
  <2>2. CASE c # t
    <3>1. connTask'[c] = connTask[c] /\ reply'[c] = reply[c]  BY <1>2, <2>2
    <3> QED  BY <3>1 DEF Past
  <2> QED  BY <2>1, <2>2
<1>4. version[c] # 0 => Past(c)
  BY DEF ConnInv, Fits, MadeOnce
<1>5. RepliesFit(t)'  BY DEF RepliesFit
<1>6. MadeOnce(t)'  BY <1>1, <1>3, <1>4 DEF MadeOnce
<1>7. KindFits(t)'  BY <1>1 DEF KindFits
<1>8. VersionsFit(t)'  BY <1>1 DEF VersionsFit, Since
<1>9. Fits(t)'  BY <1>5, <1>6, <1>7, <1>8 DEF Fits
<1> HIDE DEF c
<1>10. t \in Calls => (Past(t) => Past(t)')  BY <1>2, <1>3
<1> QED  BY <1>9, <1>10, TaskStep

LEMMA GoesWhere ==
  ASSUME ConnInv, NEW t \in ConnTasks, NEW s, Goes(t, s)
  PROVE  /\ connTask'[t] = s /\ reply'[t] = "none"
         /\ \A u \in ConnTasks \ {t} : connTask'[u] = connTask[u] /\ reply'[u] = reply[u]
         /\ reply' \in [ConnTasks -> Replies]
         /\ s \in {"creating", "reading", "deleting", "over"} =>
              connTask' \in [ConnTasks -> {"new", "creating", "checking", "reading", "deleting", "over"}]
BY DEF Goes, ConnInv, ConnShapes, Replies

LEMMA OverHow ==
  ASSUME ConnInv, NEW t \in ConnTasks, NEW r \in Results \ {"none"}, CallOver(t, r)
  PROVE  /\ Goes(t, "over") /\ result'[t] = r /\ result' \in [ConnTasks -> Results]
         /\ \A u \in ConnTasks \ {t} : result'[u] = result[u]
BY DEF CallOver, ConnInv, ConnShapes

(* The end of a call.                                                          *)
LEMMA CallEndsTrue ==
  ASSUME ConnInv, NEW t \in ConnTasks, NEW r \in Results \ {"none"}, CallOver(t, r),
         UNCHANGED <<version, asked, etag, connAttempt>>,
         Past(Connection(t)),
         r \in {"unsupported", "deleted"} => version[Connection(t)] = 0,
         t \in Typed /\ r = "identity" => asked[t]
  PROVE  ConnInv'
<1>1. /\ Goes(t, "over") /\ result'[t] = r /\ result' \in [ConnTasks -> Results]
      /\ \A u \in ConnTasks \ {t} : result'[u] = result[u]
  BY OverHow
<1>2. /\ connTask'[t] = "over" /\ reply'[t] = "none"
      /\ \A u \in ConnTasks \ {t} : connTask'[u] = connTask[u] /\ reply'[u] = reply[u]
      /\ reply' \in [ConnTasks -> Replies]
      /\ connTask' \in [ConnTasks -> {"new", "creating", "checking", "reading", "deleting", "over"}]
  BY <1>1, GoesWhere
<1>3. ConnShapes'
  BY <1>1, <1>2 DEF ConnInv, ConnShapes
<1> QED  BY <1>1, <1>2, <1>3, TaskGoes

LEMMA CallSteps ==
  ASSUME ConnInv, NEW t \in ConnTasks,
         Refused(t) \/ Made(t) \/ Gone(t) \/ KeyConflict(t) \/ Unanswered(t)
         \/ Create(t) \/ ReadEtag(t) \/ Delete(t)
  PROVE  ConnInv'
<1> DEFINE c == Connection(t)
<1>1. /\ version' = version /\ asked' = asked
      /\ Fits(t) /\ version \in [Calls -> Nat] /\ c \in Calls /\ version[c] \in Nat
      /\ etag \in [ConnTasks -> Nat] /\ connAttempt \in [ConnTasks -> 0..2]
      /\ result \in [ConnTasks -> Results] /\ reply[t] \in Replies
      /\ t \in Calls => c = t
      /\ t \in Calls \/ (t \in Deletes /\ t \notin Calls /\ c = Of[t])
  <2>1. version' = version /\ asked' = asked
    BY DEF Refused, Made, Gone, KeyConflict, Unanswered, Create, ReadEtag, Delete
  <2>2. c \in Calls /\ (t \in Calls => c = t)
    BY TheConnection
  <2>3. t \in Calls \/ (t \in Deletes /\ t \notin Calls /\ c = Of[t])
    BY TheConnection
  <2>4. Fits(t) /\ ConnShapes  BY DEF ConnInv
  <2> HIDE DEF c
  <2> QED  BY <2>1, <2>2, <2>3, <2>4 DEF ConnShapes
<1>2. connTask[t] \in {"reading", "deleting"} => Past(c)
  BY <1>1 DEF Fits, MadeOnce
<1>3. version[c] # 0 => Past(c)
  BY <1>1 DEF Fits, MadeOnce
<1>4. CASE Create(t)
  <2>1. Goes(t, "creating") /\ t \in Calls /\ connTask[t] = "new"  BY <1>4 DEF Create
  <2>2. result'[t] = "none" /\ result' = result /\ etag' = etag /\ connAttempt' = connAttempt
    BY <1>1, <1>4, <2>1 DEF Create, Fits, RepliesFit
  <2>3. ConnShapes'
    BY <1>1, <2>1, <2>2, GoesWhere DEF ConnInv, ConnShapes
  <2>4. ~Past(t)  BY <2>1 DEF Past
  <2> QED  BY <1>1, <2>1, <2>2, <2>3, <2>4, GoesWhere, TaskGoes
<1>5. CASE Refused(t)
  <2>1. t \in Calls /\ Past(t)  BY <1>5 DEF Refused, Past
  <2>2. PICK r \in {"unsupported", "failed"} :
          CallOver(t, r) /\ (r = "unsupported" => reply[t] = "refusedType")
    BY <1>5 DEF Refused
  <2>3. r = "unsupported" => version[c] = 0
    BY <1>1, <2>2 DEF Fits, MadeOnce
  <2>4. etag' = etag /\ connAttempt' = connAttempt  BY <1>5 DEF Refused
  <2> QED  BY <1>1, <2>1, <2>2, <2>3, <2>4, CallEndsTrue DEF Results
<1>6. CASE Made(t)
  <2>1. t \in Calls /\ Past(t) /\ c = t /\ (reply[t] = "made" => asked[t]) /\ (reply[t] = "madeOther" => ~asked[t])
        /\ reply[t] \in {"made", "madeOther"}
    BY <1>1, <1>6 DEF Made, Past, Fits, KindFits
  <2>2. CASE RightKind(t)
    <3>1. CallOver(t, "identity") /\ etag' = etag /\ connAttempt' = connAttempt
      BY <1>6, <2>2 DEF Made
    <3>2. t \in Typed => asked[t]
      BY <2>1, <2>2 DEF RightKind
    <3> QED  BY <1>1, <2>1, <3>1, <3>2, CallEndsTrue DEF Results
  <2>3. CASE ~RightKind(t)
    <3>1. t \in Typed /\ ~asked[t] /\ Since(t, 1) /\ result[t] = "none"
      BY <1>1, <1>6, <2>1, <2>3 DEF RightKind, Since, Made, Fits, RepliesFit
    <3>2. CASE CallOver(t, "unsupportedUnnamed") /\ UNCHANGED <<etag, connAttempt>>
      BY <1>1, <2>1, <3>2, CallEndsTrue DEF Results
    <3>3. ASSUME connAttempt' = [connAttempt EXCEPT ![t] = 1], result' = result,
                 NEW s \in {"deleting", "reading"}, Goes(t, s),
                 etag' \in [ConnTasks -> Nat], \A u \in ConnTasks \ {t} : etag'[u] = etag[u],
                 s = "deleting" => etag'[t] = 1
          PROVE  ConnInv'
      <4>1. /\ connAttempt'[t] = 1 /\ connAttempt' \in [ConnTasks -> 0..2]
            /\ \A u \in ConnTasks \ {t} : connAttempt'[u] = connAttempt[u]
        BY <1>1, <3>3
      <4>2. ConnShapes'
        BY <1>1, <3>3, <4>1, GoesWhere DEF ConnInv, ConnShapes
      <4>3. connTask'[t] = s /\ reply'[t] = "none"
            /\ \A u \in ConnTasks \ {t} : connTask'[u] = connTask[u] /\ reply'[u] = reply[u]
        BY <3>3, GoesWhere
      <4> QED  BY <1>1, <2>1, <3>1, <3>3, <4>1, <4>2, <4>3, TaskGoes
    <3>4. CASE Goes(t, "deleting") /\ etag' = [etag EXCEPT ![t] = 1]
               /\ connAttempt' = [connAttempt EXCEPT ![t] = 1] /\ result' = result
      <4>1. etag'[t] = 1 /\ etag' \in [ConnTasks -> Nat] /\ \A u \in ConnTasks \ {t} : etag'[u] = etag[u]
        BY <1>1, <3>4
      <4> QED  BY <3>3, <3>4, <4>1
    <3>5. CASE Goes(t, "reading") /\ etag' = etag
               /\ connAttempt' = [connAttempt EXCEPT ![t] = 1] /\ result' = result
      BY <1>1, <3>3, <3>5
    <3> QED  BY <1>6, <2>3, <3>2, <3>4, <3>5 DEF Made
  <2> QED  BY <2>2, <2>3
<1>7. CASE Gone(t)
  <2>1. PICK r \in {"unsupported", "deleted"} : CallOver(t, r)
    BY <1>7 DEF Gone
  <2>2. version[c] = 0 /\ Past(c) /\ etag' = etag /\ connAttempt' = connAttempt
    BY <1>1, <1>2, <1>7 DEF Gone, Fits, MadeOnce
  <2> QED  BY <1>1, <2>1, <2>2, CallEndsTrue DEF Results
<1>8. CASE Unanswered(t)
  <2>1. PICK r \in {"unsupportedLeft", "failed"} : CallOver(t, r)
    BY <1>8 DEF Unanswered, DeletionFailed
  <2>2. Past(c) /\ etag' = etag /\ connAttempt' = connAttempt
    BY <1>2, <1>8 DEF Unanswered
  <2> QED  BY <1>1, <2>1, <2>2, CallEndsTrue DEF Results
<1>9. CASE ReadEtag(t)
  <2>1. /\ Goes(t, "deleting") /\ etag' = etag /\ connAttempt' = connAttempt /\ result' = result
        /\ Past(c) /\ connTask[t] = "reading" /\ reply[t] = "etag"
    BY <1>2, <1>9 DEF ReadEtag
  <2>2. /\ result'[t] = "none" /\ (t \in Calls => t \in Typed /\ ~asked[t])
        /\ connAttempt[t] \in {1, 2} /\ etag[t] >= connAttempt[t] /\ Since(t, etag[t])
    BY <1>1, <2>1 DEF Fits, RepliesFit, KindFits, VersionsFit
  <2>3. ConnShapes'
    BY <1>1, <2>1, GoesWhere DEF ConnInv, ConnShapes
  <2> QED  BY <1>1, <2>1, <2>2, <2>3, GoesWhere, TaskGoes
<1>10. CASE KeyConflict(t)
  <2>1. /\ connTask[t] = "deleting" /\ reply[t] = "conflict" /\ etag' = etag /\ Past(c)
    BY <1>2, <1>10 DEF KeyConflict
  <2>2. CASE connAttempt[t] = 2
    <3>1. PICK r \in {"unsupportedLeft", "failed"} : CallOver(t, r)
      BY <1>10, <2>2 DEF KeyConflict, DeletionFailed
    <3>2. connAttempt' = connAttempt  BY <1>10, <2>2 DEF KeyConflict
    <3> QED  BY <1>1, <2>1, <3>1, <3>2, CallEndsTrue DEF Results
  <2>3. CASE connAttempt[t] # 2
    <3>1. /\ Goes(t, "reading") /\ connAttempt' = [connAttempt EXCEPT ![t] = 2] /\ result' = result
      BY <1>10, <2>3 DEF KeyConflict
    <3>2. /\ result'[t] = "none" /\ (t \in Calls => t \in Typed /\ ~asked[t])
          /\ connAttempt'[t] = 2 /\ \A u \in ConnTasks \ {t} : connAttempt'[u] = connAttempt[u]
      BY <1>1, <2>1, <3>1 DEF Fits, RepliesFit, KindFits
    <3>3. Since(t, 2)
      <4>1. etag[t] \in Nat /\ etag[t] >= 1 /\ Since(t, etag[t] + 1)
        BY <1>1, <2>1 DEF Fits, VersionsFit
      <4> QED  BY <1>1, <4>1 DEF Since
    <3>4. ConnShapes'
      BY <1>1, <2>1, <3>1, GoesWhere DEF ConnInv, ConnShapes
    <3> QED  BY <1>1, <2>1, <3>1, <3>2, <3>3, <3>4, GoesWhere, TaskGoes
  <2> QED  BY <2>2, <2>3
<1>11. CASE Delete(t)
  <2>1. /\ t \in Deletes /\ connTask[t] = "new" /\ version[c] # 0 /\ Past(c) /\ t \notin Calls
        /\ connAttempt' = [connAttempt EXCEPT ![t] = 1] /\ result' = result
    BY <1>1, <1>3, <1>11, TheConnection DEF Delete
  <2>2. /\ result'[t] = "none" /\ connAttempt'[t] = 1 /\ connAttempt' \in [ConnTasks -> 0..2]
        /\ \A u \in ConnTasks \ {t} : connAttempt'[u] = connAttempt[u]
    BY <1>1, <2>1 DEF Fits, RepliesFit
  <2>3. CASE Goes(t, "reading") /\ etag' = etag
    <3>1. ConnShapes'
      BY <1>1, <2>1, <2>2, <2>3, GoesWhere DEF ConnInv, ConnShapes
    <3>2. Since(t, 1)  BY <1>1 DEF Since
    <3> QED  BY <1>1, <2>1, <2>2, <2>3, <3>1, <3>2, GoesWhere, TaskGoes
  <2>4. CASE Goes(t, "deleting") /\ etag' \in {[etag EXCEPT ![t] = v] : v \in 1..version[c]}
    <3>1. PICK v \in 1..version[c] : etag' = [etag EXCEPT ![t] = v]
      BY <2>4
    <3>2. /\ etag'[t] = v /\ \A u \in ConnTasks \ {t} : etag'[u] = etag[u]
          /\ etag' \in [ConnTasks -> Nat] /\ v \in Nat /\ v >= 1 /\ v <= version[c]
      BY <1>1, <3>1
    <3>3. ConnShapes'
      BY <1>1, <2>1, <2>2, <2>4, <3>2, GoesWhere DEF ConnInv, ConnShapes
    <3>4. Since(t, v)  BY <1>1, <3>2 DEF Since
    <3> QED  BY <1>1, <2>1, <2>2, <2>4, <3>2, <3>3, <3>4, GoesWhere, TaskGoes
  <2> QED  BY <1>1, <1>11, <2>1, <2>3, <2>4 DEF Delete
<1> QED  BY <1>4, <1>5, <1>6, <1>7, <1>8, <1>9, <1>10, <1>11

(* A connection is made by the one request for it.                             *)
LEMMA MakesOne ==
  ASSUME ConnInv, NEW t \in Calls, Makes(t)
  PROVE  ConnInv'
<1>1. /\ t \in ConnTasks /\ connTask[t] = "creating" /\ reply[t] = "none" /\ version[t] = 0
      /\ connTask' = connTask /\ etag' = etag /\ connAttempt' = connAttempt /\ result' = result
      /\ ~Past(t) /\ Fits(t) /\ Connection(t) = t
  BY TheConnection DEF Makes, ConnTasks, Past, ConnInv
<1>2. PICK r \in {"made", "madeOther", "refusedType", "refused"} :
        /\ reply' = [reply EXCEPT ![t] = r]
        /\ \/ /\ r = "made" /\ version' = [version EXCEPT ![t] = 1]
              /\ asked' = [asked EXCEPT ![t] = TRUE]
           \/ /\ r = "madeOther" /\ version' = [version EXCEPT ![t] = 1]
              /\ asked' = [asked EXCEPT ![t] = FALSE]
           \/ r \in {"refusedType", "refused"} /\ version' = version /\ asked' = asked
  BY DEF Makes, ApiSays
<1>3. /\ reply'[t] = r /\ reply' \in [ConnTasks -> Replies]
      /\ \A u \in ConnTasks \ {t} : reply'[u] = reply[u]
  BY <1>1, <1>2 DEF ConnInv, ConnShapes, Replies
<1>4. /\ version' \in [Calls -> Nat] /\ asked' \in [Calls -> BOOLEAN]
      /\ \A u \in Calls \ {t} : version'[u] = version[u] /\ asked'[u] = asked[u]
      /\ r \in {"refusedType", "refused"} => version'[t] = 0
      /\ (r = "made" => asked'[t]) /\ (r = "madeOther" => ~asked'[t])
  <2>1. version \in [Calls -> Nat] /\ asked \in [Calls -> BOOLEAN]
    BY DEF ConnInv, ConnShapes
  <2>2. CASE r = "made"
    <3>1. asked' = [asked EXCEPT ![t] = TRUE] /\ version' = [version EXCEPT ![t] = 1]
      BY <1>2, <2>2
    <3>2. version' \in [Calls -> Nat] /\ \A u \in Calls \ {t} : version'[u] = version[u]
      BY <2>1, <3>1
    <3>3. asked' \in [Calls -> BOOLEAN] /\ \A u \in Calls \ {t} : asked'[u] = asked[u]
      BY <2>1, <3>1
    <3>4. asked'[t] = TRUE
      BY <2>1, <3>1
    <3> QED  BY <2>2, <3>2, <3>3, <3>4
  <2>3. CASE r = "madeOther"
    <3>1. asked' = [asked EXCEPT ![t] = FALSE] /\ version' = [version EXCEPT ![t] = 1]
      BY <1>2, <2>3
    <3>2. version' \in [Calls -> Nat] /\ \A u \in Calls \ {t} : version'[u] = version[u]
      BY <2>1, <3>1
    <3>3. asked' \in [Calls -> BOOLEAN] /\ \A u \in Calls \ {t} : asked'[u] = asked[u]
      BY <2>1, <3>1
    <3>4. asked'[t] = FALSE
      BY <2>1, <3>1
    <3> QED  BY <2>3, <3>2, <3>3, <3>4
  <2>4. CASE r \in {"refusedType", "refused"}  BY <1>1, <1>2, <2>1, <2>4
  <2> QED  BY <2>2, <2>3, <2>4
<1>5. ConnShapes'
  BY <1>1, <1>3, <1>4 DEF ConnInv, ConnShapes
<1>6. Past(t)' /\ \A u \in Calls \ {t} : Past(u) => Past(u)'
  BY <1>1, <1>3 DEF Past, ConnTasks
<1>7. ASSUME NEW u \in ConnTasks \ {t} PROVE Fits(u)'
  <2> DEFINE c == Connection(u)
  <2>1. c \in Calls  BY TheConnection
  <2>2. Past(c) => Past(c)'  BY <1>1, <1>6, <2>1
  <2>3. version'[c] = version[c] \/ (~Past(c) /\ Past(c)')  BY <1>1, <1>4, <1>6, <2>1
  <2>4. u \in Calls => asked'[u] = asked[u]  BY <1>4
  <2> HIDE DEF c
  <2> QED  BY <1>1, <1>3, <1>5, <2>2, <2>3, <2>4, OthersFit DEF c
<1>8. Fits(t)'
  <2>1. Connection(t)' = t  BY <1>1 DEF Connection
  <2>2. RepliesFit(t)'  BY <1>1, <1>3 DEF Fits, RepliesFit
  <2>3. result[t] = "none"  BY <1>1 DEF Fits, RepliesFit
  <2>4. MadeOnce(t)'  BY <1>1, <1>2, <1>3, <1>4, <1>6, <2>1, <2>3 DEF MadeOnce
  <2>5. KindFits(t)'  BY <1>1, <1>3, <1>4, <2>3 DEF KindFits
  <2>6. VersionsFit(t)'  BY <1>1 DEF VersionsFit
  <2> QED  BY <2>2, <2>4, <2>5, <2>6 DEF Fits
<1> QED  BY <1>5, <1>7, <1>8 DEF ConnInv

(* A connection is deleted under the version it has.                           *)
LEMMA RemovesOne ==
  ASSUME ConnInv, NEW t \in ConnTasks, Removes(t)
  PROVE  ConnInv'
<1> DEFINE c == Connection(t)
<1>1. /\ connTask[t] = "deleting" /\ reply[t] = "none" /\ c \in Calls /\ version[c] \in Nat
      /\ etag[t] \in Nat /\ Fits(t)
      /\ asked' = asked /\ connTask' = connTask /\ etag' = etag /\ connAttempt' = connAttempt
      /\ result' = result
  BY TheConnection DEF Removes, ConnInv, ConnShapes
<1>2. PICK r \in {"missing", "conflict", "deleted"} :
        /\ reply' = [reply EXCEPT ![t] = r]
        /\ r = "missing" => version[c] = 0 /\ version' = version
        /\ r = "conflict" => version[c] # 0 /\ version[c] # etag[t] /\ version' = version
        /\ r = "deleted" => version' = [version EXCEPT ![c] = 0]
  BY DEF Removes, ApiSays
<1>3. /\ reply'[t] = r /\ reply' \in [ConnTasks -> Replies]
      /\ \A u \in ConnTasks \ {t} : reply'[u] = reply[u]
  BY <1>2 DEF ConnInv, ConnShapes, Replies
<1>4. /\ version' \in [Calls -> Nat]
      /\ \A k \in Calls : version'[k] = version[k] \/ version'[k] = 0
      /\ r \in {"missing", "deleted"} => version'[c] = 0
      /\ r = "conflict" => version'[c] = version[c]
  BY <1>1, <1>2 DEF ConnInv, ConnShapes
<1>5. ConnShapes'
  BY <1>1, <1>3, <1>4 DEF ConnInv, ConnShapes
<1>6. \A k \in ConnTasks : Past(k) => Past(k)'
  BY <1>1, <1>2, <1>3 DEF Past
<1>7. ASSUME NEW u \in ConnTasks \ {t} PROVE Fits(u)'
  <2> DEFINE k == Connection(u)
  <2>1. k \in Calls  BY TheConnection
  <2>2. Past(k) => Past(k)'  BY <1>6, <2>1 DEF ConnTasks
  <2>3. version'[k] = version[k] \/ version'[k] = 0  BY <1>4, <2>1
  <2> HIDE DEF k
  <2> QED  BY <1>1, <1>3, <1>5, <2>2, <2>3, OthersFit DEF k
<1>8. Fits(t)'
  <2>1. Connection(t)' = c  BY DEF Connection
  <2>2. RepliesFit(t)'  BY <1>1, <1>3 DEF Fits, RepliesFit
  <2>3. result[t] = "none" /\ Past(c) /\ Past(c)'
    BY <1>1, <1>6 DEF Fits, RepliesFit, MadeOnce, ConnTasks
  <2>4. MadeOnce(t)'  BY <1>1, <1>3, <1>4, <2>1, <2>3 DEF MadeOnce
  <2>5. KindFits(t)'  BY <1>1, <1>3 DEF Fits, KindFits
  <2>6. VersionsFit(t)'
    <3>1. /\ connAttempt[t] \in {1, 2} /\ etag[t] >= connAttempt[t]
          /\ version[c] = 0 \/ version[c] >= etag[t]
      BY <1>1 DEF Fits, VersionsFit, Since
    <3>2. version'[c] = version[c] \/ version'[c] = 0  BY <1>1, <1>4
    <3>3. r = "conflict" => version'[c] >= etag[t] + 1
      BY <1>1, <1>2, <1>4, <3>1
    <3> HIDE DEF c
    <3> QED  BY <1>1, <1>3, <2>1, <3>1, <3>2, <3>3 DEF VersionsFit, Since
  <2> QED  BY <2>2, <2>4, <2>5, <2>6 DEF Fits
<1> QED  BY <1>5, <1>7, <1>8 DEF ConnInv

LEMMA OthersWrite ==
  ASSUME ConnInv, NEW k \in Calls, OtherWriter(k)
  PROVE  ConnInv'
<1>1. /\ asked' = asked /\ connTask' = connTask /\ etag' = etag /\ connAttempt' = connAttempt
      /\ result' = result /\ reply' = reply
      /\ version[k] # 0 /\ version[k] \in Nat /\ version' = [version EXCEPT ![k] = version[k] + 1]
  BY ConnectionsShape DEF OtherWriter, ConnInv, ConnShapes
<1>2. /\ version' \in [Calls -> Nat]
      /\ \A c \in Calls : \/ version'[c] = version[c]
                          \/ version[c] # 0 /\ version'[c] > version[c]
  BY <1>1 DEF ConnInv, ConnShapes
<1>3. ConnShapes'
  BY <1>1, <1>2 DEF ConnInv, ConnShapes
<1>4. ASSUME NEW u \in ConnTasks PROVE Fits(u)'
  <2> DEFINE c == Connection(u)
  <2>1. c \in Calls  BY TheConnection
  <2>2. Past(c) => Past(c)'  BY <1>1 DEF Past
  <2>3. version'[c] = version[c] \/ (version[c] # 0 /\ version'[c] > version[c])  BY <1>2, <2>1
  <2> HIDE DEF c
  <2> QED  BY <1>1, <1>3, <2>2, <2>3, OthersFit DEF c
<1> QED  BY <1>3, <1>4 DEF ConnInv

LEMMA ConnInvariant ==
  /\ ConnInv /\ [ConnNext]_connVars => ConnInv'
  /\ ConnInv => ConnectionsAreTrue
<1>1. ASSUME ConnInv, UNCHANGED connVars  PROVE ConnInv'
  <2>1. \A u \in ConnTasks : Fits(u) => Fits(u)'
    BY <1>1 DEF connVars, Fits, RepliesFit, MadeOnce, KindFits, VersionsFit, Since, Past, Connection
  <2> QED  BY <1>1, <2>1 DEF connVars, ConnInv, ConnShapes
<1>2. ConnInv /\ [ConnNext]_connVars => ConnInv'
  BY <1>1, ApiForTask, RemovesOne, CallSteps, MakesOne, OthersWrite DEF ConnNext
<1>3. ASSUME ConnInv  PROVE ConnectionsAreTrue
  <2>1. NoStrangerLeft
    BY <1>3, TheConnection DEF ConnInv, Fits, MadeOnce, NoStrangerLeft, ConnTasks
  <2>2. KindIsKept
    BY <1>3, ConnectionsShape DEF ConnInv, Fits, KindFits, KindIsKept, ConnTasks
  <2>3. DeletedIsGone
    <3> SUFFICES ASSUME NEW t \in Deletes
                 PROVE  /\ result[t] = "deleted" => version[Of[t]] = 0
                        /\ reply[t] = "conflict" /\ connAttempt[t] = 2
                             => version[Of[t]] = 0 \/ version[Of[t]] > 2
      BY DEF DeletedIsGone
    <3>1. /\ t \in ConnTasks /\ Connection(t) = Of[t] /\ Fits(t) /\ version[Of[t]] \in Nat
          /\ etag[t] \in Nat /\ Of[t] \in Calls
          /\ connTask[t] \in {"new", "creating", "checking", "reading", "deleting", "over"}
      BY <1>3, TheConnection DEF ConnInv, ConnShapes, ConnTasks
    <3>2. result[t] = "deleted" => version[Of[t]] = 0
      BY <3>1 DEF Fits, MadeOnce
    <3>3. ASSUME reply[t] = "conflict", connAttempt[t] = 2
          PROVE  version[Of[t]] = 0 \/ version[Of[t]] > 2
      <4>1. connTask[t] = "deleting"
        BY <3>1, <3>3 DEF Fits, RepliesFit
      <4>2. etag[t] >= 2 /\ Since(t, etag[t] + 1)
        BY <3>1, <3>3, <4>1 DEF Fits, VersionsFit
      <4> QED  BY <3>1, <4>2 DEF Since
    <3> QED  BY <3>2, <3>3
  <2> QED  BY <2>1, <2>2, <2>3 DEF ConnectionsAreTrue
<1> QED  BY <1>2, <1>3

(* However calls, deletions, other writers and lost answers interleave: no     *)
(* connection of another kind is left behind unnamed or handed out, and one    *)
(* reported deleted is gone (control.py 2108-2286).                            *)
THEOREM ConnectionsReportTrue == ConnSpec => []ConnectionsAreTrue
BY ConnStarts, ConnInvariant, PTL DEF ConnSpec

-----------------------------------------------------------------------------
(* A chat-app bridge.                                                          *)
Fields == {"allowed", "paused", "scope"}

\* What the API keeps: every field, no credential among the settings.
KeptWell(b) ==
  /\ b = [fields |-> b.fields, settings |-> b.settings, vault |-> b.vault, version |-> b.version]
  /\ b.version \in Nat \ {0} /\ DOMAIN b.fields = Fields
  /\ ~SettingsHold(b.settings) /\ \A k \in DOMAIN b.vault : b.vault[k].is = "plain"

BridgeFits ==
  /\ bridge = NoBridge \/ KeptWell(bridge)
  /\ \E S : edits \in Seq(S)
  /\ bridge = NoBridge => DOMAIN edits = {}

\* What an editor read is the bridge as it is, or as it was at a lower version.
Held(h) ==
  h = NoBridge \/
    /\ h.version \in Nat \ {0} /\ h.version <= bridge.version
    /\ h.version = bridge.version => h.fields = bridge.fields
    /\ \A k \in DOMAIN h.vault : h.vault[k] = NotGiven

BodyFits(s, at, meant) ==
  \/ s = NoBody
  \/ /\ s.is = "create" /\ DOMAIN meant = {} /\ ~SettingsHold(s.body.settings)
     /\ \A k \in DOMAIN s.body.secrets : s.body.secrets[k].is = "plain"
  \/ /\ s.is = "update" /\ meant = s.body.fields /\ DOMAIN meant \subseteq Fields
     /\ ~SettingsHold(s.body.settings) /\ at <= bridge.version
     /\ at # 0 /\ at = bridge.version /\ "allowed" \in DOMAIN meant
          => bridge.fields["allowed"] \subseteq meant["allowed"]
  \/ /\ s.is = "rotate" /\ DOMAIN meant = {} /\ \A k \in DOMAIN s.body : s.body[k].is = "plain"

EditorFits(e) ==
  /\ editor[e] = [held |-> editor[e].held, sends |-> editor[e].sends,
                  etag |-> editor[e].etag, meant |-> editor[e].meant]
  /\ editor[e].etag \in Nat
  /\ Held(editor[e].held) /\ BodyFits(editor[e].sends, editor[e].etag, editor[e].meant)

\* A field is what the last edit that named it said; no chat chosen is lost.
LastSaid ==
  bridge # NoBridge => \A f \in Fields :
    /\ Naming(f) = {} => bridge.fields[f] = Created[f]
    /\ \A n \in Naming(f) : (\A later \in Naming(f) : later <= n) => bridge.fields[f] = edits[n].meant[f]
ChatsStay ==
  (\A n \in Naming("allowed") : edits[n].guarded) =>
    \A n \in Naming("allowed") : edits[n].meant["allowed"] \subseteq bridge.fields["allowed"]

ChatInv ==
  /\ BridgeFits /\ DOMAIN editor = Editors /\ \A e \in Editors : EditorFits(e)
  /\ LastSaid /\ ChatsStay

LEMMA MergedKeys ==
  ASSUME NEW f, NEW g
  PROVE  /\ DOMAIN Merged(f, g) = DOMAIN f \cup DOMAIN g
         /\ \A k \in DOMAIN f : Merged(f, g)[k] = f[k]
         /\ \A k \in DOMAIN g \ DOMAIN f : Merged(f, g)[k] = g[k]
BY DEF Merged

LEMMA NoKeys == DOMAIN <<>> = {}
OBVIOUS

LEMMA TheFirst == DOMAIN Created = Fields
BY DEF Created, Fields

LEMMA NoSettings == ~SettingsHold(<<>>)
BY NoKeys DEF SettingsHold

LEMMA Settings ==
  ASSUME NEW f, NEW g, ~SettingsHold(f), ~SettingsHold(g)
  PROVE  ~SettingsHold(Merged(f, g))
<1> SUFFICES ASSUME NEW k \in DOMAIN Merged(f, g) PROVE ~HoldsSecret(Merged(f, g)[k])
  BY DEF SettingsHold
<1>1. CASE k \in DOMAIN f
  <2>1. Merged(f, g)[k] = f[k]  BY <1>1 DEF Merged
  <2> QED  BY <1>1, <2>1 DEF SettingsHold
<1>2. CASE k \in DOMAIN g \ DOMAIN f
  <2>1. Merged(f, g)[k] = g[k]  BY <1>2 DEF Merged
  <2> QED  BY <1>2, <2>1 DEF SettingsHold
<1> QED  BY <1>1, <1>2, MergedKeys

LEMMA NoneYet == NoBridge.version = 0 /\ NoBody.is = "none" /\ (\A b : KeptWell(b) => b # NoBridge)
BY DEF NoBridge, NoBody, KeptWell

LEMMA Revealed ==
  ASSUME NEW secrets, \A k \in DOMAIN secrets : "is" \in DOMAIN secrets[k]
  PROVE  \A k \in DOMAIN SecretMap(secrets) : SecretMap(secrets)[k].is = "plain"
BY DEF SecretMap, Reveal

LEMMA ChatStarts == ChatAppsInit => ChatInv
<1> SUFFICES ASSUME ChatAppsInit PROVE ChatInv
  OBVIOUS
<1>1. bridge = NoBridge /\ edits = <<>>  BY DEF ChatAppsInit
<1>2. BridgeFits
  <2>1. edits \in Seq({})  BY <1>1
  <2> QED  BY <1>1, <2>1, NoKeys DEF BridgeFits
<1>3. LastSaid /\ ChatsStay
  BY <1>1, NoKeys DEF LastSaid, ChatsStay, Naming
<1>4. DOMAIN editor = Editors /\ \A e \in Editors : EditorFits(e)
  BY DEF ChatAppsInit, EditorFits, Held, BodyFits
<1> QED  BY <1>2, <1>3, <1>4 DEF ChatInv

(* What an editor's step leaves as it is.                                      *)
LEMMA EditorStep ==
  ASSUME ChatInv, NEW e \in Editors, UNCHANGED <<bridge, edits>>,
         NEW new, editor' = [editor EXCEPT ![e] = new],
         new = [held |-> new.held, sends |-> new.sends, etag |-> new.etag, meant |-> new.meant],
         new.etag \in Nat, Held(new.held), BodyFits(new.sends, new.etag, new.meant)
  PROVE  ChatInv'
<1>1. bridge' = bridge /\ edits' = edits  OBVIOUS
<1>2. /\ DOMAIN editor' = Editors /\ editor'[e] = new
      /\ \A u \in Editors \ {e} : editor'[u] = editor[u]
  BY DEF ChatInv
<1>3. BridgeFits' /\ LastSaid' /\ ChatsStay'
  BY <1>1 DEF ChatInv, BridgeFits, LastSaid, ChatsStay, Naming
<1>4. \A u \in Editors : EditorFits(u)'
  <2>1. ASSUME NEW u \in Editors \ {e} PROVE EditorFits(u)'
    <3>1. EditorFits(u) /\ editor'[u] = editor[u]  BY <1>2 DEF ChatInv
    <3> QED  BY <1>1, <3>1 DEF EditorFits, Held, BodyFits
  <2>2. EditorFits(e)'
    BY <1>1, <1>2 DEF EditorFits, Held, BodyFits
  <2> QED  BY <2>1, <2>2
<1> QED  BY <1>2, <1>3, <1>4 DEF ChatInv

LEMMA SendsOne ==
  ASSUME ChatInv, NEW e \in Editors, NEW sent, NEW at \in Nat, NEW meant, Sends(e, sent, at, meant),
         sent # REFUSAL => BodyFits(sent, at, meant)
  PROVE  ChatInv'
<1> DEFINE new == [held |-> editor[e].held, sends |-> sent, etag |-> at, meant |-> meant]
<1>1. editor' = [editor EXCEPT ![e] = new] /\ UNCHANGED <<bridge, edits>> /\ sent # REFUSAL
  BY DEF Sends
<1>2. Held(editor[e].held)  BY DEF ChatInv, EditorFits
<1>3. /\ new = [held |-> new.held, sends |-> new.sends, etag |-> new.etag, meant |-> new.meant]
      /\ new.held = editor[e].held /\ new.sends = sent /\ new.etag = at /\ new.meant = meant
  OBVIOUS
<1> HIDE DEF new
<1> QED  BY <1>1, <1>2, <1>3, EditorStep

LEMMA SettlesHeld ==
  ASSUME ChatInv, NEW e \in Editors, NEW held, EditorSettles(e, held), UNCHANGED <<bridge, edits>>,
         Held(held)
  PROVE  ChatInv'
<1> DEFINE new == [held |-> held, sends |-> NoBody, etag |-> 0, meant |-> <<>>]
<1>1. editor' = [editor EXCEPT ![e] = new]  BY DEF EditorSettles
<1>2. /\ new = [held |-> new.held, sends |-> new.sends, etag |-> new.etag, meant |-> new.meant]
      /\ new.held = held /\ new.sends = NoBody /\ new.etag = 0
  OBVIOUS
<1>3. BodyFits(new.sends, new.etag, new.meant)  BY <1>2 DEF BodyFits
<1>4. new.etag \in Nat /\ Held(new.held)  BY <1>2
<1> HIDE DEF new
<1> QED  BY <1>1, <1>2, <1>3, <1>4, EditorStep

(* What is read is the bridge without its credentials.                         *)
LEMMA ReadIsHeld ==
  ASSUME KeptWell(bridge)
  PROVE  Held(WithoutVault(bridge))
<1>1. /\ WithoutVault(bridge).version = bridge.version /\ WithoutVault(bridge).fields = bridge.fields
      /\ WithoutVault(bridge).vault = [k \in DOMAIN bridge.vault |-> NotGiven]
  BY DEF WithoutVault, KeptWell
<1> QED  BY <1>1 DEF Held, KeptWell

LEMMA EditorSends ==
  ASSUME ChatInv, NEW e \in Editors, CallCreate(e) \/ CallUpdate(e) \/ CallReplace(e) \/ GetBridge(e)
  PROVE  ChatInv'
<1>1. CASE CallCreate(e)
  <2>1. PICK call \in CreateCalls : Sends(e, CreateBody(call), 0, <<>>)
    BY <1>1 DEF CallCreate
  <2> DEFINE sent == CreateBody(call)
             secrets == IF call.token # NotGiven THEN [token |-> Reveal(call.token)] ELSE SecretMap(call.secrets)
  <2>2. ASSUME sent # REFUSAL PROVE BodyFits(sent, 0, <<>>)
    <3>1. sent = [is |-> "create", body |-> [settings |-> call.settings, secrets |-> secrets]]
      BY <2>2 DEF CreateBody
    <3>2. sent.is = "create" /\ sent.body.settings = call.settings /\ sent.body.secrets = secrets
      BY <3>1
    <3>3. ~SettingsHold(call.settings)
      BY <2>2 DEF CreateBody
    <3>4. \A k \in DOMAIN secrets : secrets[k].is = "plain"
      <4>1. "is" \in DOMAIN call.token /\ \A k \in DOMAIN call.secrets : "is" \in DOMAIN call.secrets[k]
        BY ChatAppsShape
      <4>2. Reveal(call.token).is = "plain"  BY <4>1 DEF Reveal
      <4> QED  BY <4>1, <4>2, Revealed
    <3> HIDE DEF sent, secrets
    <3> QED  BY <3>2, <3>3, <3>4, NoKeys DEF BodyFits
  <2> HIDE DEF sent
  <2> QED  BY <2>1, <2>2, SendsOne DEF sent
<1>2. CASE CallReplace(e)
  <2>1. PICK secrets \in Rotations : Sends(e, [is |-> "rotate", body |-> SecretMap(secrets)], 0, <<>>)
    BY <1>2 DEF CallReplace
  <2> DEFINE sent == [is |-> "rotate", body |-> SecretMap(secrets)]
  <2>2. \A k \in DOMAIN SecretMap(secrets) : SecretMap(secrets)[k].is = "plain"
    BY ChatAppsShape, Revealed
  <2>3. sent.is = "rotate" /\ sent.body = SecretMap(secrets)
    OBVIOUS
  <2> HIDE DEF sent
  <2>4. BodyFits(sent, 0, <<>>)
    BY <2>2, <2>3, NoKeys DEF BodyFits
  <2> QED  BY <2>1, <2>4, SendsOne DEF sent
<1>3. CASE CallUpdate(e)
  <2> DEFINE held == editor[e].held
  <2>1. PICK change \in Changes, guarded \in BOOLEAN :
          LET chosen == held.fields["allowed"] \cup {AllowedEntry(c): c \in change.adds}
              fields == IF change.adds = {} THEN change.fields ELSE Merged([allowed |-> chosen], change.fields)
          IN Sends(e, UpdateBody(fields, change.settings, held), IF guarded THEN held.version ELSE 0, fields)
    BY <1>3 DEF CallUpdate
  <2> DEFINE chosen == held.fields["allowed"] \cup {AllowedEntry(c): c \in change.adds}
             fields == IF change.adds = {} THEN change.fields ELSE Merged([allowed |-> chosen], change.fields)
             sent == UpdateBody(fields, change.settings, held)
             at == IF guarded THEN held.version ELSE 0
  <2>2. Sends(e, sent, at, fields)  BY <2>1
  <2>3. /\ held # NoBridge /\ Held(held)
    BY <1>3 DEF CallUpdate, ChatInv, EditorFits
  <2>4. /\ at \in Nat /\ at <= bridge.version /\ bridge.version \in Nat
        /\ at # 0 /\ at = bridge.version => held.fields = bridge.fields
    BY <2>3, NoneYet DEF Held, ChatInv, BridgeFits, KeptWell
  <2>5. DOMAIN fields \subseteq Fields /\ ("allowed" \in DOMAIN fields => held.fields["allowed"] \subseteq fields["allowed"])
    <3>1. DOMAIN change.fields \subseteq {"paused", "scope"}  BY ChatAppsShape
    <3>2. CASE change.adds = {}
      BY <3>1, <3>2 DEF Fields
    <3>3. CASE change.adds # {}
      <4>1. DOMAIN [allowed |-> chosen] = {"allowed"} /\ [allowed |-> chosen]["allowed"] = chosen
        OBVIOUS
      <4>2. fields = Merged([allowed |-> chosen], change.fields)  BY <3>3
      <4>3. held.fields["allowed"] \subseteq chosen  OBVIOUS
      <4> HIDE DEF chosen, fields
      <4>4. DOMAIN fields = {"allowed"} \cup DOMAIN change.fields /\ fields["allowed"] = chosen
        BY <4>1, <4>2, MergedKeys
      <4> QED  BY <3>1, <4>3, <4>4 DEF Fields
    <3> QED  BY <3>2, <3>3
  <2> HIDE DEF at, fields, chosen
  <2>6. ASSUME sent # REFUSAL PROVE BodyFits(sent, at, fields)
    <3>1. /\ sent = [is |-> "update", body |-> [fields |-> fields, settings |-> change.settings]]
          /\ ~SettingsHold(change.settings)
      BY <2>6 DEF UpdateBody
    <3>2. sent.is = "update" /\ sent.body.fields = fields /\ sent.body.settings = change.settings
      BY <3>1
    <3> HIDE DEF sent
    <3> QED  BY <2>4, <2>5, <3>1, <3>2 DEF BodyFits
  <2> HIDE DEF sent
  <2> QED  BY <2>2, <2>4, <2>6, SendsOne
<1>4. CASE GetBridge(e)
  <2>1. KeptWell(bridge)  BY <1>4 DEF GetBridge, ChatInv, BridgeFits
  <2> QED  BY <1>4, <2>1, ReadIsHeld, SettlesHeld DEF GetBridge
<1> QED  BY <1>1, <1>2, <1>3, <1>4

\* A bridge and its edits after a call that the API took.
Took(at, meant) ==
  /\ KeptWell(bridge') /\ bridge'.version > bridge.version
  /\ edits' = Append(edits, [meant |-> meant, guarded |-> at # 0])
  /\ DOMAIN meant \subseteq Fields
  /\ \A f \in DOMAIN meant : bridge'.fields[f] = meant[f]
  /\ \A f \in Fields \ DOMAIN meant :
       bridge'.fields[f] = IF bridge = NoBridge THEN Created[f] ELSE bridge.fields[f]
  /\ at # 0 /\ "allowed" \in DOMAIN meant /\ bridge # NoBridge
       => bridge.fields["allowed"] \subseteq meant["allowed"]
  /\ bridge = NoBridge => DOMAIN meant = {}

LEMMA WhatIsTaken ==
  ASSUME ChatInv, NEW e \in Editors, editor[e].sends # NoBody, Taken(e),
         bridge' = BridgeAfter(editor[e].sends),
         edits' = Append(edits, [meant |-> editor[e].meant, guarded |-> editor[e].etag # 0])
  PROVE  Took(editor[e].etag, editor[e].meant)
<1> DEFINE s == editor[e].sends
           meant == editor[e].meant
           at == editor[e].etag
<1>1. /\ BodyFits(s, at, meant) /\ s # NoBody /\ (s.is = "create" <=> bridge = NoBridge)
      /\ at = 0 \/ at = bridge.version
  BY DEF ChatInv, EditorFits, Taken
<1>2. bridge = NoBridge \/ KeptWell(bridge)
  BY DEF ChatInv, BridgeFits
<1>3. CASE s.is = "create"
  <2>1. bridge = NoBridge /\ DOMAIN meant = {} /\ ~SettingsHold(s.body.settings)
        /\ \A k \in DOMAIN s.body.secrets : s.body.secrets[k].is = "plain"
    BY <1>1, <1>3 DEF BodyFits
  <2>2. bridge' = [fields |-> Created, settings |-> s.body.settings, vault |-> s.body.secrets, version |-> 1]
    BY <1>3 DEF BridgeAfter
  <2>3. KeptWell(bridge')
    BY <2>1, <2>2, TheFirst DEF KeptWell
  <2>4. bridge'.fields = Created /\ bridge'.version = 1
    BY <2>2
  <2> HIDE DEF s, meant, at
  <2> QED  BY <2>1, <2>3, <2>4, NoneYet DEF Took, s, meant, at
<1>4. CASE s.is = "update"
  <2>1. /\ KeptWell(bridge) /\ meant = s.body.fields /\ DOMAIN meant \subseteq Fields
        /\ ~SettingsHold(s.body.settings)
        /\ at # 0 /\ at = bridge.version /\ "allowed" \in DOMAIN meant
             => bridge.fields["allowed"] \subseteq meant["allowed"]
    BY <1>1, <1>2, <1>4 DEF BodyFits
  <2>2. bridge' = [bridge EXCEPT !.fields = Merged(s.body.fields, @),
                                 !.settings = Merged(s.body.settings, @), !.version = @ + 1]
    BY <1>4 DEF BridgeAfter
  <2> HIDE DEF s, meant, at
  <2>3. bridge' = [fields |-> Merged(meant, bridge.fields), settings |-> Merged(s.body.settings, bridge.settings),
                   vault |-> bridge.vault, version |-> bridge.version + 1]
    BY <2>1, <2>2 DEF KeptWell
  <2>4. /\ bridge'.fields = Merged(meant, bridge.fields) /\ bridge'.vault = bridge.vault
        /\ bridge'.settings = Merged(s.body.settings, bridge.settings) /\ bridge'.version = bridge.version + 1
    BY <2>3
  <2>5. ~SettingsHold(bridge'.settings)
    BY <2>1, <2>4, Settings DEF KeptWell
  <2>6. /\ DOMAIN bridge'.fields = Fields
        /\ \A f \in DOMAIN meant : bridge'.fields[f] = meant[f]
        /\ \A f \in Fields \ DOMAIN meant : bridge'.fields[f] = bridge.fields[f]
    BY <2>1, <2>4 DEF KeptWell, Merged
  <2>7. KeptWell(bridge')
    BY <2>1, <2>3, <2>4, <2>5, <2>6 DEF KeptWell
  <2>8. bridge # NoBridge /\ bridge'.version > bridge.version
    BY <2>1, <2>4, NoneYet DEF KeptWell
  <2> QED  BY <1>1, <2>1, <2>6, <2>7, <2>8 DEF Took, s, meant, at
<1>5. CASE s.is = "rotate"
  <2>1. KeptWell(bridge) /\ DOMAIN meant = {} /\ \A k \in DOMAIN s.body : s.body[k].is = "plain"
    BY <1>1, <1>2, <1>5 DEF BodyFits
  <2>2. bridge' = [bridge EXCEPT !.vault = Merged(s.body, @), !.version = @ + 1]
    BY <1>5 DEF BridgeAfter
  <2> HIDE DEF s, meant, at
  <2>3. bridge' = [fields |-> bridge.fields, settings |-> bridge.settings,
                   vault |-> Merged(s.body, bridge.vault), version |-> bridge.version + 1]
    BY <2>1, <2>2 DEF KeptWell
  <2>4. /\ bridge'.fields = bridge.fields /\ bridge'.vault = Merged(s.body, bridge.vault)
        /\ bridge'.settings = bridge.settings /\ bridge'.version = bridge.version + 1
    BY <2>3
  <2>5. \A k \in DOMAIN bridge'.vault : bridge'.vault[k].is = "plain"
    BY <2>1, <2>4 DEF KeptWell, Merged
  <2>6. KeptWell(bridge')
    BY <2>1, <2>3, <2>4, <2>5 DEF KeptWell
  <2>7. bridge # NoBridge /\ bridge'.version > bridge.version
    BY <2>1, <2>4, NoneYet DEF KeptWell
  <2> QED  BY <2>1, <2>4, <2>6, <2>7 DEF Took, s, meant, at
<1> QED  BY <1>1, <1>3, <1>4, <1>5 DEF BodyFits

LEMMA Logged ==
  ASSUME NEW S, NEW log \in Seq(S), NEW edit
  PROVE  /\ \E T : Append(log, edit) \in Seq(T)
         /\ Len(log) \in Nat /\ DOMAIN log = 1..Len(log)
         /\ DOMAIN Append(log, edit) = 1..(Len(log) + 1)
         /\ \A n \in DOMAIN log : Append(log, edit)[n] = log[n]
         /\ Append(log, edit)[Len(log) + 1] = edit
<1>1. log \in Seq(S \cup {edit}) /\ edit \in S \cup {edit}
  BY SeqMonotonic
<1>2. Len(log) \in Nat /\ DOMAIN log = 1..Len(log)
  BY LenProperties
<1>3. /\ Append(log, edit) \in Seq(S \cup {edit}) /\ Len(Append(log, edit)) = Len(log) + 1
      /\ \A n \in 1..Len(log) : Append(log, edit)[n] = log[n]
      /\ Append(log, edit)[Len(log) + 1] = edit
  BY <1>1, AppendProperties
<1>4. DOMAIN Append(log, edit) = 1..(Len(log) + 1)
  BY <1>3, LenProperties
<1> QED  BY <1>2, <1>3, <1>4

(* The last edit is the one just taken; who named a field before still did.    *)
LEMMA TakenIsTrue ==
  ASSUME ChatInv, NEW at, NEW meant, Took(at, meant)
  PROVE  BridgeFits' /\ LastSaid' /\ ChatsStay'
<1> DEFINE edit == [meant |-> meant, guarded |-> at # 0]
           last == Len(edits) + 1
<1>1. PICK S : edits \in Seq(S)  BY DEF ChatInv, BridgeFits
<1>2. edits' = Append(edits, edit)  BY DEF Took
<1>3. /\ \E T : edits' \in Seq(T)
      /\ last \in Nat /\ DOMAIN edits = 1..(last - 1) /\ DOMAIN edits' = 1..last
      /\ (\A n \in DOMAIN edits : edits'[n] = edits[n]) /\ edits'[last] = edit
  <2> HIDE DEF edit
  <2>1. /\ \E T : Append(edits, edit) \in Seq(T)
        /\ Len(edits) \in Nat /\ DOMAIN edits = 1..Len(edits)
        /\ DOMAIN Append(edits, edit) = 1..(Len(edits) + 1)
        /\ \A n \in DOMAIN edits : Append(edits, edit)[n] = edits[n]
        /\ Append(edits, edit)[Len(edits) + 1] = edit
    BY <1>1, Logged
  <2>2. last - 1 = Len(edits) /\ last \in Nat
    BY <2>1
  <2> QED  BY <1>2, <2>1, <2>2
<1>4. edit.meant = meant /\ (edit.guarded <=> at # 0)
  OBVIOUS
<1> HIDE DEF edit, last
<1>5. \A f : Naming(f)' = IF f \in DOMAIN meant THEN Naming(f) \cup {last} ELSE Naming(f)
  <2> SUFFICES ASSUME NEW f
               PROVE  Naming(f)' = IF f \in DOMAIN meant THEN Naming(f) \cup {last} ELSE Naming(f)
    OBVIOUS
  <2>1. Naming(f)' = {n \in 1..last : f \in DOMAIN edits'[n].meant}
    BY <1>3 DEF Naming
  <2>2. Naming(f) = {n \in 1..(last - 1) : f \in DOMAIN edits[n].meant}
    BY <1>3 DEF Naming
  <2>3. \A n \in 1..(last - 1) : edits'[n] = edits[n]
    BY <1>3
  <2>4. 1..last = (1..(last - 1)) \cup {last} /\ last \notin 1..(last - 1)
    BY <1>3 DEF last
  <2> QED  BY <1>3, <1>4, <2>1, <2>2, <2>3, <2>4
<1>6. \A f : \A n \in Naming(f) : n \in 1..(last - 1) /\ edits'[n] = edits[n]
  BY <1>3 DEF Naming
<1>7. KeptWell(bridge') /\ bridge' # NoBridge
  BY NoneYet DEF Took
<1>8. BridgeFits'
  BY <1>3, <1>7 DEF BridgeFits
<1>9. LastSaid'
  <2> SUFFICES ASSUME NEW f \in Fields
               PROVE  /\ Naming(f)' = {} => bridge'.fields[f] = Created[f]
                      /\ \A n \in Naming(f)' : (\A later \in Naming(f)' : later <= n)
                           => bridge'.fields[f] = edits'[n].meant[f]
    BY DEF LastSaid
  <2>1. CASE f \in DOMAIN meant
    <3>1. Naming(f)' = Naming(f) \cup {last}  BY <1>5, <2>1
    <3>2. ASSUME NEW n \in Naming(f)', \A later \in Naming(f)' : later <= n  PROVE n = last
      BY <1>3, <1>6, <3>1, <3>2
    <3>3. bridge'.fields[f] = edits'[last].meant[f]
      BY <1>3, <1>4, <2>1 DEF Took
    <3> QED  BY <3>1, <3>2, <3>3
  <2>2. CASE f \notin DOMAIN meant
    <3>1. Naming(f)' = Naming(f)  BY <1>5, <2>2
    <3>2. CASE bridge = NoBridge
      <4>1. Naming(f) = {}  BY <3>2 DEF ChatInv, BridgeFits, Naming
      <4> QED  BY <2>2, <3>1, <3>2, <4>1 DEF Took
    <3>3. CASE bridge # NoBridge
      <4>1. bridge'.fields[f] = bridge.fields[f]  BY <2>2, <3>3 DEF Took
      <4>2. /\ Naming(f) = {} => bridge.fields[f] = Created[f]
            /\ \A n \in Naming(f) : (\A later \in Naming(f) : later <= n)
                 => bridge.fields[f] = edits[n].meant[f]
        BY <3>3 DEF ChatInv, LastSaid
      <4> QED  BY <1>6, <3>1, <4>1, <4>2
    <3> QED  BY <3>2, <3>3
  <2> QED  BY <2>1, <2>2
<1>10. ChatsStay'
  <2> SUFFICES ASSUME \A n \in Naming("allowed")' : edits'[n].guarded,
                      NEW n \in Naming("allowed")'
               PROVE  edits'[n].meant["allowed"] \subseteq bridge'.fields["allowed"]
    BY DEF ChatsStay
  <2>1. Naming("allowed") \subseteq Naming("allowed")'  BY <1>5
  <2>2. \A k \in Naming("allowed") : edits[k].guarded  BY <1>6, <2>1
  <2>3. \A k \in Naming("allowed") : edits[k].meant["allowed"] \subseteq bridge.fields["allowed"]
    BY <2>2 DEF ChatInv, ChatsStay
  <2>4. bridge = NoBridge => Naming("allowed") = {}
    BY DEF ChatInv, BridgeFits, Naming
  <2>5. "allowed" \in Fields  BY DEF Fields
  <2>6. CASE "allowed" \in DOMAIN meant
    <3>1. Naming("allowed")' = Naming("allowed") \cup {last}  BY <1>5, <2>6
    <3>2. at # 0  BY <1>3, <1>4, <3>1
    <3>3. bridge # NoBridge /\ bridge.fields["allowed"] \subseteq meant["allowed"]
          /\ bridge'.fields["allowed"] = meant["allowed"]
      BY <2>6, <3>2 DEF Took
    <3> QED  BY <1>3, <1>4, <1>6, <2>3, <3>1, <3>3
  <2>7. CASE "allowed" \notin DOMAIN meant
    <3>1. Naming("allowed")' = Naming("allowed")  BY <1>5, <2>7
    <3>2. bridge # NoBridge  BY <2>4, <3>1
    <3>3. bridge'.fields["allowed"] = bridge.fields["allowed"]  BY <2>5, <2>7, <3>2 DEF Took
    <3> QED  BY <1>6, <2>3, <3>1, <3>3
  <2> QED  BY <2>6, <2>7
<1> QED  BY <1>8, <1>9, <1>10

LEMMA ChatStep ==
  ASSUME ChatInv, NEW e \in Editors, CallEnds(e)
  PROVE  ChatInv'
<1>1. CASE EditorSettles(e, editor[e].held) /\ UNCHANGED <<bridge, edits>>
  <2>1. Held(editor[e].held)  BY DEF ChatInv, EditorFits
  <2> QED  BY <1>1, <2>1, SettlesHeld
<1>2. CASE /\ Taken(e) /\ bridge' = BridgeAfter(editor[e].sends)
           /\ edits' = Append(edits, [meant |-> editor[e].meant, guarded |-> editor[e].etag # 0])
           /\ \E heard \in BOOLEAN :
                EditorSettles(e, IF heard THEN WithoutVault(bridge') ELSE editor[e].held)
  <2>1. Took(editor[e].etag, editor[e].meant)
    BY <1>2, WhatIsTaken DEF CallEnds
  <2>2. /\ BridgeFits' /\ LastSaid' /\ ChatsStay'
    BY <2>1, TakenIsTrue
  <2>3. KeptWell(bridge') /\ bridge'.version \in Nat /\ bridge.version \in Nat
        /\ bridge'.version > bridge.version
    BY <2>1, NoneYet DEF Took, KeptWell, ChatInv, BridgeFits
  <2>4. \A h : Held(h) => Held(h)'
    BY <2>3 DEF Held
  <2>5. PICK h : EditorSettles(e, h) /\ Held(h)'
    <3>1. CASE EditorSettles(e, editor[e].held)
      BY <2>4, <3>1 DEF ChatInv, EditorFits
    <3>2. CASE EditorSettles(e, WithoutVault(bridge'))
      <4>1. /\ WithoutVault(bridge').version = bridge'.version
            /\ WithoutVault(bridge').fields = bridge'.fields
            /\ WithoutVault(bridge').vault = [k \in DOMAIN bridge'.vault |-> NotGiven]
        BY <2>3 DEF WithoutVault, KeptWell
      <4>2. PICK h : h = WithoutVault(bridge')  OBVIOUS
      <4>3. Held(h)'
        BY <2>3, <4>1, <4>2 DEF Held, KeptWell
      <4> QED  BY <3>2, <4>2, <4>3
    <3> QED  BY <1>2, <3>1, <3>2
  <2>6. DOMAIN editor' = Editors /\ \A u \in Editors : EditorFits(u)'
    <3> DEFINE new == [held |-> h, sends |-> NoBody, etag |-> 0, meant |-> <<>>]
    <3>1. /\ DOMAIN editor' = Editors /\ editor'[e] = new
          /\ \A u \in Editors \ {e} : editor'[u] = editor[u]
      BY <2>5 DEF EditorSettles, ChatInv
    <3>2. EditorFits(e)'
      BY <2>5, <3>1 DEF EditorFits, BodyFits
    <3>3. ASSUME NEW u \in Editors \ {e} PROVE EditorFits(u)'
      <4>1. EditorFits(u) /\ editor'[u] = editor[u]  BY <3>1 DEF ChatInv
      <4>2. \A s, at, meant : at \in Nat /\ BodyFits(s, at, meant) => BodyFits(s, at, meant)'
        BY <2>3 DEF BodyFits
      <4> QED  BY <2>4, <4>1, <4>2 DEF EditorFits
    <3> QED  BY <3>1, <3>2, <3>3
  <2> QED  BY <2>2, <2>6 DEF ChatInv
<1> QED  BY <1>1, <1>2 DEF CallEnds

(* For any editors, calls and edits: a field of a bridge is what the last call *)
(* that named it said, chats chosen under an etag stay, and no credential is   *)
(* anywhere but among the credentials (chat_apps.py 673-791).                  *)
THEOREM EditsStay == ChatAppsSpec => []EditsAreKept
<1>1. ChatAppsInit => ChatInv
  BY ChatStarts
<1>2. ChatInv /\ [ChatAppsNext]_chatVars => ChatInv'
  <2>1. ASSUME ChatInv, UNCHANGED chatVars PROVE ChatInv'
    BY <2>1 DEF chatVars, ChatInv, BridgeFits, EditorFits, Held, BodyFits, LastSaid, ChatsStay, Naming
  <2> QED  BY <2>1, EditorSends, ChatStep DEF ChatAppsNext
<1>3. ChatInv => EditsAreKept
  <2> SUFFICES ASSUME ChatInv PROVE EditsAreKept
    OBVIOUS
  <2>1. ~SettingsHold(bridge.settings) /\ \A k \in DOMAIN bridge.vault : bridge.vault[k].is = "plain"
    <3>1. CASE bridge = NoBridge
      <4>1. bridge.settings = <<>> /\ bridge.vault = <<>>  BY <3>1 DEF NoBridge
      <4> QED  BY <4>1, NoSettings, NoKeys
    <3> QED  BY <3>1 DEF ChatInv, BridgeFits, KeptWell
  <2>2. \A e \in Editors : \A k \in DOMAIN editor[e].held.vault : editor[e].held.vault[k] = NotGiven
    <3> SUFFICES ASSUME NEW e \in Editors
                 PROVE  \A k \in DOMAIN editor[e].held.vault : editor[e].held.vault[k] = NotGiven
      OBVIOUS
    <3>1. NoBridge.vault = <<>>  BY DEF NoBridge
    <3> QED  BY <3>1, NoKeys DEF ChatInv, EditorFits, Held
  <2>3. DOMAIN Created = Fields  BY TheFirst
  <2> QED  BY <2>1, <2>2, <2>3 DEF ChatInv, LastSaid, ChatsStay, EditsAreKept
<1> QED  BY <1>1, <1>2, <1>3, PTL DEF ChatAppsSpec

-----------------------------------------------------------------------------
(* The calls of a control plane together.  What one part does leaves the       *)
(* others as they were.                                                        *)
THEOREM CallsReportTrue == ControlSpec => []CallsAreTrue
<1> DEFINE Both == WaitInv /\ ConnInv
<1>1. ControlInit => Both
  BY WaitStarts, ConnStarts DEF ControlInit
<1>2. Both /\ [ControlNext]_vars => Both'
  <2> SUFFICES ASSUME Both, [ControlNext]_vars PROVE Both'
    OBVIOUS
  <2>1. WaitNext \/ UNCHANGED waitVars
    BY DEF ControlNext, Others, vars
  <2>2. ConnNext \/ UNCHANGED connVars
    BY DEF ControlNext, Others, vars
  <2> QED  BY <2>1, <2>2, WaitInvariant, ConnInvariant
<1>3. Both => CallsAreTrue
  BY WaitInvariant, ConnInvariant DEF WaitsAreTrue, ConnectionsAreTrue, CallsAreTrue
<1> QED  BY <1>1, <1>2, <1>3, PTL DEF ControlSpec
=============================================================================
