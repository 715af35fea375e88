-------------------------------- MODULE SignIn --------------------------------
(* The credentials of a control plane client (src/thalovant/control.py         *)
(* 618-976): sign-ins by password, native code and device code, the polling of *)
(* device codes, and the revocation of tokens, as tasks of one event loop that *)
(* interleave at their requests.                                               *)
(*                                                                             *)
(* Every task signs in at most once: the token it is given has the task's      *)
(* name.  The API's side is here for what its answers may say: tokens are      *)
(* minted, expire and are revoked at any time; a device code is approved,      *)
(* denied or expires; a request or an answer may be lost.                      *)
EXTENDS Naturals, FiniteSets

CONSTANTS Passwords,   \* password and native sign-ins: no token id comes with them
          Polls,       \* single polls of a device code: poll_device_login
          Loops,       \* login_with_browser, after the person was shown the code
          Revokes,     \* revoke_api_token(), of the token in use
          Named,       \* revoke_api_token(id)
          Codes, CodeOf, \* the device code a poll asks about
          NamedToken,  \* the token a named revoke is of
          MaxSlow,     \* bound on the slow_downs the API answers
          None

Devices == Polls \cup Loops
SignIns == Passwords \cup Devices
Tasks == SignIns \cup Revokes \cup Named
Tokens == SignIns

ASSUME SignInShape ==
  /\ Passwords \cap Devices = {} /\ Polls \cap Loops = {}
  /\ (Revokes \cup Named) \cap SignIns = {} /\ Revokes \cap Named = {}
  /\ CodeOf \in [Devices -> Codes] /\ NamedToken \in [Named -> Devices]
  /\ None \notin Tasks \cup Codes \cup Nat /\ MaxSlow \in Nat

VARIABLES
  access, tokenId, revokedOwn,   \* access_token, token_id, _revoked_own
  intervals,   \* _device_intervals: slow_downs counted in, or None
  task,        \* "new", "asking", "sleeping", or how it ended
  target,      \* the token a revoke is of
  own,         \* it was the one in use
  bearer,      \* the token a request was sent with
  answer,      \* what the API said, not read yet
  alive,       \* tokens the API takes
  minted,      \* tokens it ever gave out
  code,        \* each device code: "pending", "approved", "denied", "expired", "redeemed"
  slow,        \* history: the slow_downs of each code that were read
  late         \* loops whose deadline has passed

clientVars == <<access, tokenId, revokedOwn, intervals>>
taskVars == <<task, target, own, bearer, answer, late>>
apiVars == <<alive, minted, code>>
signInVars == <<clientVars, taskVars, apiVars, slow>>

Answers == {"none", "token", "gone", "refused", "unknown", "lost",
            "pending", "slow_down", "denied", "expired"}
Finals == {"signedIn", "pending", "denied", "expired", "failed", "timedOut", "revoked", "noId"}

SignInTypeOK ==
  /\ access \in Tokens \cup {None} /\ tokenId \in Devices \cup {None}
  /\ revokedOwn \in BOOLEAN /\ intervals \in [Codes -> 0..MaxSlow \cup {None}]
  /\ task \in [Tasks -> {"new", "asking", "sleeping"} \cup Finals]
  /\ target \in [Tasks -> Tokens \cup {None}] /\ own \in [Tasks -> BOOLEAN]
  /\ bearer \in [Tasks -> Tokens \cup {None}] /\ answer \in [Tasks -> Answers]
  /\ alive \subseteq minted /\ minted \subseteq Tokens
  /\ code \in [Codes -> {"pending", "approved", "denied", "expired", "redeemed"}]
  /\ slow \in [Codes -> 0..MaxSlow] /\ late \subseteq Loops

SignInInit ==
  /\ access = None /\ tokenId = None /\ revokedOwn = FALSE
  /\ intervals = [c \in Codes |-> 0]   \* begin_device_login() has filed them
  /\ task = [t \in Tasks |-> "new"] /\ target = [t \in Tasks |-> None]
  /\ own = [t \in Tasks |-> FALSE] /\ bearer = [t \in Tasks |-> None]
  /\ answer = [t \in Tasks |-> "none"]
  /\ alive = {} /\ minted = {} /\ late = {}
  /\ code = [c \in Codes |-> "pending"] /\ slow = [c \in Codes |-> 0]

-----------------------------------------------------------------------------
(* Requests.                                                                   *)
Asks(t) == task' = [task EXCEPT ![t] = "asking"]
Ends(t, how) == task' = [task EXCEPT ![t] = how] /\ answer' = [answer EXCEPT ![t] = "none"]

\* A loop files the interval of the grant, which no one has polled yet.
StartSignIn(t) ==
  /\ t \in SignIns /\ task[t] = "new" /\ Asks(t)
  /\ UNCHANGED <<clientVars, target, own, bearer, answer, late, apiVars, slow>>

(* revoke_api_token() until its request: without an id it is of the token in   *)
(* use, and of none a second time.                                             *)
StartRevoke(t) ==
  /\ t \in Revokes \cup Named /\ task[t] = "new"
  /\ t \in Named => NamedToken[t] \in minted
  /\ LET of == IF t \in Named THEN NamedToken[t] ELSE tokenId IN
     /\ target' = [target EXCEPT ![t] = of]
     /\ own' = [own EXCEPT ![t] = of # None /\ of = tokenId]
     /\ bearer' = [bearer EXCEPT ![t] = access]
     /\ task' = [task EXCEPT ![t] =
          CASE of = None -> IF revokedOwn /\ access = None THEN "revoked" ELSE "noId"
            [] of # None /\ access = None -> "failed"
            [] OTHER -> "asking"]
  /\ UNCHANGED <<clientVars, answer, late, apiVars, slow>>

-----------------------------------------------------------------------------
(* The API.                                                                    *)
Mint(t) == alive' = alive \cup {t} /\ minted' = minted \cup {t}
Says(t, a) == answer' = [answer EXCEPT ![t] = a]
Waiting(t) == task[t] = "asking" /\ answer[t] = "none"

AnswerPassword(t) ==
  /\ t \in Passwords /\ Waiting(t)
  /\ \/ Mint(t) /\ Says(t, "token")
     \/ Says(t, "refused") /\ UNCHANGED <<alive, minted>>
  /\ UNCHANGED code

\* The token of an approved code is given once; its app's last one dies of it.
AnswerPoll(t) ==
  /\ t \in Devices /\ Waiting(t)
  /\ LET mine == CodeOf[t] IN
     \/ code[mine] = "pending" /\ Says(t, "pending") /\ UNCHANGED apiVars
     \/ code[mine] = "pending" /\ slow[mine] + Cardinality({s \in Devices : answer[s] = "slow_down"}) < MaxSlow
          /\ Says(t, "slow_down") /\ UNCHANGED apiVars
     \/ code[mine] = "approved" /\ Says(t, "token") /\ code' = [code EXCEPT ![mine] = "redeemed"]
          /\ minted' = minted \cup {t}
          /\ alive' \in {alive \cup {t}, (alive \ Devices) \cup {t}}
     \/ code[mine] \in {"denied", "expired"} /\ Says(t, code[mine]) /\ UNCHANGED apiVars
     \/ code[mine] = "redeemed" /\ Says(t, "refused") /\ UNCHANGED apiVars

AnswerRevoke(t) ==
  /\ t \in Revokes \cup Named /\ Waiting(t)
  /\ IF bearer[t] \notin alive THEN Says(t, "unknown") /\ UNCHANGED alive
     ELSE IF target[t] \in alive THEN Says(t, "gone") /\ alive' = alive \ {target[t]}
     ELSE Says(t, "refused") /\ UNCHANGED alive
  /\ UNCHANGED <<minted, code>>

Answer(t) ==
  /\ AnswerPassword(t) \/ AnswerPoll(t) \/ AnswerRevoke(t)
  /\ UNCHANGED <<clientVars, task, target, own, bearer, late, slow>>

\* The request never arrives, or its answer never does.
Lost(t) ==
  /\ task[t] = "asking" /\ answer[t] # "lost" /\ Says(t, "lost")
  /\ UNCHANGED <<clientVars, task, target, own, bearer, late, apiVars, slow>>

Person(c) ==
  /\ code[c] = "pending" /\ code' \in {[code EXCEPT ![c] = s] : s \in {"approved", "denied"}}
  /\ UNCHANGED <<clientVars, taskVars, alive, minted, slow>>

CodeExpires(c) ==
  /\ code[c] \in {"pending", "approved"} /\ code' = [code EXCEPT ![c] = "expired"]
  /\ UNCHANGED <<clientVars, taskVars, alive, minted, slow>>

TokenExpires(k) ==
  /\ k \in alive /\ alive' = alive \ {k}
  /\ UNCHANGED <<clientVars, taskVars, minted, code, slow>>

-----------------------------------------------------------------------------

(* _accept_token(): the token, and the id it came with or none.                *)
AcceptToken(t) ==
  /\ access' = t /\ revokedOwn' = FALSE
  /\ tokenId' = IF t \in Devices THEN t ELSE None

PasswordAnswered(t) ==
  /\ t \in Passwords /\ task[t] = "asking" /\ answer[t] # "none"
  /\ IF answer[t] = "token" THEN AcceptToken(t) /\ Ends(t, "signedIn")
     ELSE Ends(t, "failed") /\ UNCHANGED <<access, tokenId, revokedOwn>>
  /\ UNCHANGED <<intervals, target, own, bearer, late, apiVars, slow>>

(* Every slow_down adds five seconds, for good.                                *)
Slower(c) ==
  /\ intervals' = [intervals EXCEPT ![c] = (IF @ = None THEN 0 ELSE @) + 1]
  /\ slow' = [slow EXCEPT ![c] = @ + 1]

\* mutant: a loop past its deadline polls once more.
NotYetUnending(t) ==
  /\ answer' = [answer EXCEPT ![t] = "none"]
  /\ task' = [task EXCEPT ![t] = IF t \in Polls THEN "pending" ELSE "sleeping"]

\* A poll that found no answer: a single one says so, a loop sleeps or is late.
NotYet(t) ==
  Ends(t, IF t \in Polls THEN "pending" ELSE IF t \in late THEN "timedOut" ELSE "sleeping")

(* _device_token_once(), and what its callers do with it.                      *)
PollAnswered(t) ==
  /\ t \in Devices /\ task[t] = "asking" /\ answer[t] # "none"
  /\ LET mine == CodeOf[t] IN
     \/ /\ answer[t] = "token" /\ AcceptToken(t) /\ Ends(t, "signedIn")
        /\ intervals' = [intervals EXCEPT ![mine] = None] /\ UNCHANGED slow
     \/ /\ answer[t] = "slow_down" /\ Slower(mine) /\ NotYet(t)
        /\ UNCHANGED <<access, tokenId, revokedOwn>>
     \/ /\ answer[t] = "pending" /\ NotYet(t)
        /\ UNCHANGED <<access, tokenId, revokedOwn, intervals, slow>>
     \/ /\ answer[t] \in {"denied", "expired"} /\ Ends(t, answer[t])
        /\ intervals' = [intervals EXCEPT ![mine] = None]
        /\ UNCHANGED <<access, tokenId, revokedOwn, slow>>
     \/ /\ answer[t] \in {"refused", "lost"} /\ Ends(t, "failed")
        /\ UNCHANGED <<clientVars, slow>>
  /\ UNCHANGED <<target, own, bearer, late, apiVars>>

Wakes(t) ==
  /\ task[t] = "sleeping" /\ Asks(t)
  /\ UNCHANGED <<clientVars, target, own, bearer, answer, late, apiVars, slow>>

Late(t) ==
  /\ t \in Loops \ late /\ task[t] \in {"asking", "sleeping"} /\ late' = late \cup {t}
  /\ UNCHANGED <<clientVars, task, target, own, bearer, answer, apiVars, slow>>

\* The token is forgotten if it is still the one that was revoked.
Forgets(t) == own[t] /\ tokenId = target[t]

\* mutant: an unknown caller counts as revoked whatever the token was.
DeadForAll(t) == answer[t] = "gone" \/ answer[t] = "unknown"

\* The token is dead: the API said so, or no longer knows who revokes itself.
Dead(t) == answer[t] = "gone" \/ (own[t] /\ answer[t] = "unknown")

RevokeAnswered(t) ==
  /\ t \in Revokes \cup Named /\ task[t] = "asking" /\ answer[t] # "none"
  /\ IF Dead(t)
     THEN /\ Ends(t, "revoked")
          /\ IF Forgets(t) THEN access' = None /\ tokenId' = None /\ revokedOwn' = TRUE
             ELSE UNCHANGED <<access, tokenId, revokedOwn>>
     ELSE Ends(t, "failed") /\ UNCHANGED <<access, tokenId, revokedOwn>>
  /\ UNCHANGED <<intervals, target, own, bearer, late, apiVars, slow>>

Reads(t) == PasswordAnswered(t) \/ PollAnswered(t) \/ RevokeAnswered(t)

SignInNext ==
  \/ \E t \in Tasks :
       \/ StartSignIn(t) \/ StartRevoke(t) \/ Answer(t) \/ Lost(t)
       \/ Reads(t) \/ Wakes(t) \/ Late(t)
  \/ \E c \in Codes : Person(c) \/ CodeExpires(c)
  \/ \E k \in Tokens : TokenExpires(k)

\* An HTTP request has a time limit, a sleep ends, and a deadline passes.
SignInFairness ==
  \A t \in Tasks : /\ WF_signInVars(Lost(t)) /\ WF_signInVars(Reads(t))
                   /\ WF_signInVars(Wakes(t)) /\ WF_signInVars(Late(t))

SignInSpec == SignInInit /\ [][SignInNext]_signInVars /\ SignInFairness

-----------------------------------------------------------------------------
(* Properties                                                                  *)

(* token_id names the token in use, or nothing: revoking without an id never   *)
(* revokes one signed in with before (675-677, 853-867).                       *)
IdNamesTheToken == tokenId # None => tokenId = access

(* A revoke that succeeds leaves its token dead, whoever killed it (952-971).  *)
RevokedIsDead ==
  \A t \in Tasks : task[t] = "revoked" /\ target[t] # None => target[t] \notin alive

(* The interval of a code counts every slow_down its polls were answered,      *)
(* whoever polled, until the code is over (830-835).                           *)
SlowDownsAdd ==
  \A c \in Codes : code[c] \in {"pending", "approved"} => intervals[c] = slow[c]

(* login_with_browser() ends: approved, denied, expired or timed out.          *)
LoginEnds == \A t \in Loops : []<>(task[t] \in Finals \cup {"new"})

(* However sign-ins, polls and revokes overlap, the id names the token in use, *)
(* what was revoked is dead and every slow_down counts (830-867, 952-976).     *)
TokensAreRight == RevokedIsDead /\ IdNamesTheToken /\ SlowDownsAdd
=============================================================================
