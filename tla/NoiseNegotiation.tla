---------------------------- MODULE NoiseNegotiation ----------------------------
(* NoiseClientProtocol (src/thalovant/_noise_runtime.py 614-862), driven by    *)
(* connect() and _handshake() (src/thalovant/_hive.py 560-577, 666-724), for   *)
(* programs that share one state folder: the pin of the hub, and the key       *)
(* derived from the password, which no lock protects.                          *)
(*                                                                             *)
(* The hub holds a key and a password, and each may change once.  A handshake  *)
(* message is what its reader can tell about it: the hub key it was made with  *)
(* and the password it authenticates.                                          *)
EXTENDS Naturals

CONSTANTS Programs, HubKeys, Passwords, None,
          Patterns,      \* what the hub offers
          FirstKey, NextKey, FirstPassword, NextPassword,
          MaxFaults   \* bound on restarts, lost connections and forgotten pins

ASSUME NegotiationShape ==
  /\ {FirstKey, NextKey} \subseteq HubKeys /\ FirstKey # NextKey
  /\ {FirstPassword, NextPassword} \subseteq Passwords
  /\ None \notin HubKeys \cup Passwords
  /\ Patterns \in {{"KK", "XX"}, {"XX"}}
  /\ MaxFaults \in Nat

VARIABLES
  hubKey, hubPassword,
  pin,        \* in _identity.json
  cached,     \* the derived key in <name>_noise_psks.json, as its password
  password,   \* of each program's identity
  phase,      \* where its attempt stands
  second,     \* the attempt is the one connect() adds after a failed KK
  xxRetry,    \* _xx_retry
  pattern,    \* of the handshake, None before it starts
  selected,   \* the pin it was started with, KK only
  psk,        \* the key it was started with
  answer,     \* the hub's message 2, when it has come
  up,         \* its connection stands
  outcome,    \* how its last connect() ended
  trusts,     \* history: the hub key of its session, and in which epoch
  epoch,      \* calls of forget_noise_key() so far
  faults

negotiationVars == <<hubKey, hubPassword, pin, cached, password, phase, second, xxRetry,
                     pattern, selected, psk, answer, up, outcome, trusts, epoch, faults>>

Nothing == [key |-> None, password |-> None]
NoTrust == [key |-> None, epoch |-> 0]

NegotiationTypeOK ==
  /\ hubKey \in HubKeys /\ hubPassword \in Passwords
  /\ pin \in HubKeys \cup {None} /\ cached \in Passwords \cup {None}
  /\ password \in [Programs -> Passwords]
  /\ phase \in [Programs -> {"idle", "offer", "derive", "begin", "sent", "answered",
                             "check", "write", "ready"}]
  /\ second \in [Programs -> BOOLEAN] /\ xxRetry \in [Programs -> BOOLEAN]
  /\ pattern \in [Programs -> {"KK", "XX", None}]
  /\ selected \in [Programs -> HubKeys \cup {None}]
  /\ \A p \in Programs: selected[p] # None <=> pattern[p] = "KK"
  /\ psk \in [Programs -> Passwords \cup {None}]
  /\ answer \in [Programs -> [key: HubKeys \cup {None}, password: Passwords \cup {None}]]
  /\ up \in [Programs -> BOOLEAN]
  /\ outcome \in [Programs -> {"none", "ready", "lost", "refused", "keyChanged"}]
  /\ trusts \in [Programs -> [key: HubKeys \cup {None}, epoch: 0..MaxFaults]]
  /\ epoch \in 0..MaxFaults /\ faults \in 0..MaxFaults

NegotiationInit ==
  /\ hubKey = FirstKey /\ hubPassword = FirstPassword
  /\ pin \in {None, FirstKey} /\ cached \in {None, FirstPassword}
  /\ password \in [Programs -> {FirstPassword, NextPassword}]
  /\ phase = [p \in Programs |-> "idle"] /\ second = [p \in Programs |-> FALSE]
  /\ xxRetry = [p \in Programs |-> FALSE] /\ pattern = [p \in Programs |-> None]
  /\ selected = [p \in Programs |-> None] /\ psk = [p \in Programs |-> None]
  /\ answer = [p \in Programs |-> Nothing] /\ up = [p \in Programs |-> FALSE]
  /\ outcome = [p \in Programs |-> "none"] /\ trusts = [p \in Programs |-> NoTrust]
  /\ epoch = 0 /\ faults = 0

Set(f, p, v) == [f EXCEPT ![p] = v]

hub == <<hubKey, hubPassword>>
env == <<epoch, faults>>

-----------------------------------------------------------------------------
(* reset() and a carrier that opens: the next attempt of connect().            *)
Attempt(p, again) ==
  /\ phase' = Set(phase, p, "offer") /\ second' = Set(second, p, again)
  /\ pattern' = Set(pattern, p, None) /\ selected' = Set(selected, p, None)
  /\ psk' = Set(psk, p, None) /\ answer' = Set(answer, p, Nothing)
  /\ up' = Set(up, p, TRUE) /\ outcome' = Set(outcome, p, "none")
  /\ trusts' = Set(trusts, p, NoTrust)

Connect(p) ==
  /\ phase[p] = "idle" /\ Attempt(p, FALSE)
  /\ UNCHANGED <<hub, pin, cached, password, xxRetry, env>>

(* What the attempt worked with; reset() would clear it at the next one.       *)
Cleared(p) ==
  /\ second' = Set(second, p, FALSE) /\ pattern' = Set(pattern, p, None)
  /\ selected' = Set(selected, p, None) /\ psk' = Set(psk, p, None)
  /\ answer' = Set(answer, p, Nothing)

Kept == <<second, pattern, selected, psk, answer>>

Ends(p, how) ==
  /\ phase' = Set(phase, p, "idle") /\ outcome' = Set(outcome, p, how)
  /\ up' = Set(up, p, FALSE) /\ Cleared(p)

PinnedFor(p) == IF xxRetry[p] THEN None ELSE pin

Chosen(known) == IF known # None /\ "KK" \in Patterns THEN "KK" ELSE "XX"

(* The hub's offer: the pattern, and the key if it is in the cache.  The two   *)
(* files are read in one executor call; no step writes both.                   *)
Offered(p) ==
  /\ phase[p] = "offer"
  /\ pattern' = Set(pattern, p, Chosen(PinnedFor(p)))
  /\ selected' = Set(selected, p, IF Chosen(PinnedFor(p)) = "KK" THEN pin ELSE None)
  /\ psk' = Set(psk, p, cached)
  /\ phase' = Set(phase, p, IF cached = None THEN "derive" ELSE "begin")
  /\ UNCHANGED <<hub, pin, cached, password, second, xxRetry, answer, up, outcome, trusts, env>>

Derive(p) ==
  /\ phase[p] = "derive"
  /\ psk' = Set(psk, p, password[p]) /\ phase' = Set(phase, p, "begin")
  /\ UNCHANGED <<hub, pin, cached, password, second, xxRetry, pattern, selected, answer, up,
                 outcome, trusts, env>>

(* _start(): the key is kept, then message 1 goes out.                         *)
Begin(p) ==
  /\ phase[p] = "begin"
  /\ cached' = psk[p] /\ phase' = Set(phase, p, "sent")
  /\ UNCHANGED <<hub, pin, password, second, xxRetry, pattern, selected, psk, answer, up,
                 outcome, trusts, env>>

-----------------------------------------------------------------------------
\* mutant: a refusal is like any failure, and KK is tried again.
KeepsTrying(p) == xxRetry[p]

(* refused_during_handshake() and the failed read of _receive().               *)
RetriesXX(p) == xxRetry[p] \/ pattern[p] = "KK"

\* mutant: the key stays in the cache.
KeepsKey(p) == cached

Forgets(p) == None

(* A refusal: connect() goes on with XX once when the attempt was KK.          *)
Refused(p) ==
  /\ xxRetry' = Set(xxRetry, p, RetriesXX(p))
  /\ cached' = IF pattern[p] = "KK" \/ phase[p] = "answered" THEN Forgets(p) ELSE cached
  /\ IF pattern[p] = "KK" /\ RetriesXX(p) /\ ~second[p]
     THEN Attempt(p, TRUE)
     ELSE Ends(p, "refused") /\ UNCHANGED trusts
  /\ UNCHANGED <<hub, pin, password, env>>

KKOpens(p) == selected[p] = hubKey /\ psk[p] = hubPassword

(* The hub answers message 1; a KK one it cannot open it refuses.              *)
HubAnswers(p) ==
  /\ phase[p] = "sent" /\ up[p] /\ (pattern[p] = "KK" => KKOpens(p))
  /\ answer' = Set(answer, p, [key |-> hubKey, password |-> hubPassword])
  /\ phase' = Set(phase, p, "answered")
  /\ UNCHANGED <<hub, pin, cached, password, second, xxRetry, pattern, selected, psk, up,
                 outcome, trusts, env>>

HubRefuses(p) ==
  /\ phase[p] = "sent" /\ up[p] /\ pattern[p] = "KK" /\ ~KKOpens(p)
  /\ Refused(p)

Authenticates(p) == answer[p].password = psk[p]

ReadFails(p) == phase[p] = "answered" /\ ~Authenticates(p) /\ Refused(p)

ReadAnswer(p) ==
  /\ phase[p] = "answered" /\ Authenticates(p)
  /\ phase' = Set(phase, p, "check")
  /\ UNCHANGED <<hub, pin, cached, password, second, xxRetry, pattern, selected, psk, answer, up,
                 outcome, trusts, env>>

(* The session is made; what follows it fails when the connection has gone.    *)
Accepts(p) ==
  /\ xxRetry' = Set(xxRetry, p, FALSE)
  /\ phase' = Set(phase, p, IF up[p] THEN "ready" ELSE "idle")
  /\ outcome' = Set(outcome, p, IF up[p] THEN "ready" ELSE "lost")
  /\ trusts' = Set(trusts, p, [key |-> answer[p].key, epoch |-> epoch])
  /\ Cleared(p) /\ UNCHANGED up

(* get_pinned_noise_key() on the hub's key, then pin_noise_key(): the folder's *)
(* lock is held in each, and not between them.                                 *)
CheckPin(p) ==
  /\ phase[p] = "check"
  /\ \/ pin = None /\ phase' = Set(phase, p, "write")
        /\ UNCHANGED <<xxRetry, outcome, trusts, up, Kept>>
     \/ pin = answer[p].key /\ Accepts(p)
     \/ pin \notin {None, answer[p].key} /\ Ends(p, "keyChanged") /\ UNCHANGED <<xxRetry, trusts>>
  /\ UNCHANGED <<hub, pin, cached, password, env>>

\* mutant: the pin is written without looking again.
FirstOneWins(p) == TRUE

MayPin(p) == pin \in {None, answer[p].key}

WritePin(p) ==
  /\ phase[p] = "write"
  /\ IF MayPin(p)
     THEN pin' = answer[p].key /\ Accepts(p)
     ELSE Ends(p, "keyChanged") /\ UNCHANGED <<pin, xxRetry, trusts>>
  /\ UNCHANGED <<hub, cached, password, env>>

-----------------------------------------------------------------------------
Fault == faults < MaxFaults /\ faults' = faults + 1

(* A connection is lost; what waits on it ends, and what runs off the loop      *)
(* finds out later.                                                            *)
Lost(p) == ~up[p] /\ phase[p] \in {"offer", "sent", "ready"}

Notices(p) ==
  /\ Lost(p) /\ Ends(p, "lost")
  /\ UNCHANGED <<hub, pin, cached, password, xxRetry, trusts, env>>

Drop(p) ==
  /\ Fault /\ up[p] /\ up' = Set(up, p, FALSE)
  /\ UNCHANGED <<hub, pin, cached, password, phase, second, xxRetry, pattern, selected, psk,
                 answer, outcome, trusts, epoch>>

(* The application disconnects.                                                *)
Disconnect(p) ==
  /\ phase[p] = "ready" /\ Ends(p, "none")
  /\ UNCHANGED <<hub, pin, cached, password, xxRetry, trusts, env>>

(* The program dies and comes back, perhaps with another password.             *)
Restart(p) ==
  /\ Fault
  /\ \E w \in {FirstPassword, NextPassword}: password' = Set(password, p, w)
  /\ phase' = Set(phase, p, "idle") /\ outcome' = Set(outcome, p, "none")
  /\ xxRetry' = Set(xxRetry, p, FALSE) /\ Cleared(p)
  /\ up' = Set(up, p, FALSE) /\ trusts' = Set(trusts, p, NoTrust)
  /\ UNCHANGED <<hub, pin, cached, epoch>>

(* forget_noise_key(): an administrator trusts whatever key comes next.        *)
Forget ==
  /\ Fault /\ pin # None /\ pin' = None /\ epoch' = epoch + 1
  /\ UNCHANGED <<hub, cached, password, phase, second, xxRetry, pattern, selected, psk, answer,
                 up, outcome, trusts>>

(* The hub starts again with another key: every connection to it is gone.      *)
HubChangesKey ==
  /\ hubKey = FirstKey /\ hubKey' = NextKey
  /\ up' = [p \in Programs |-> FALSE]
  /\ UNCHANGED <<hubPassword, pin, cached, password, phase, second, xxRetry, pattern, selected,
                 psk, answer, outcome, trusts, env>>

HubChangesPassword ==
  /\ hubPassword = FirstPassword /\ hubPassword' = NextPassword
  /\ UNCHANGED <<hubKey, pin, cached, password, phase, second, xxRetry, pattern, selected, psk,
                 answer, up, outcome, trusts, env>>

Negotiates(p) ==
  \/ Offered(p) \/ Derive(p) \/ Begin(p) \/ HubAnswers(p) \/ HubRefuses(p)
  \/ ReadFails(p) \/ ReadAnswer(p) \/ CheckPin(p) \/ WritePin(p) \/ Notices(p)

NegotiationNext ==
  \/ \E p \in Programs: Connect(p) \/ Negotiates(p) \/ Drop(p) \/ Disconnect(p) \/ Restart(p)
  \/ Forget \/ HubChangesKey \/ HubChangesPassword

NegotiationSpec == NegotiationInit /\ [][NegotiationNext]_negotiationVars

(* An attempt that has begun comes to its end: every wait of it has a limit.   *)
NegotiationFair == NegotiationSpec /\ \A p \in Programs: WF_negotiationVars(Negotiates(p))

-----------------------------------------------------------------------------
(* Between two calls of forget_noise_key(), every session of every program     *)
(* is with one hub key, the pinned one: not even two first contacts at once,   *)
(* with the hub starting again between them, trust two keys (_noise_runtime.py *)
(* 236-251, 815-826).                                                          *)
OneTrust ==
  \A p \in Programs: trusts[p].key # None /\ trusts[p].epoch = epoch => pin = trusts[p].key

Agree == \A p \in Programs: password[p] = hubPassword
Alone(p) == \A q \in Programs \ {p}: phase[q] \in {"idle", "ready"}
KeepsConnecting(p) == []<>(phase[p] = "offer")

(* With the hub's password, and its key or no key pinned, a program that keeps *)
(* connecting gets in: no key an old password left in the cache, its own or    *)
(* another program's, keeps it out (_noise_runtime.py 793-802, 858-862).       *)
Converges ==
  \A p \in Programs:
    KeepsConnecting(p) /\ <>[](Agree /\ pin \in {None, hubKey} /\ Alone(p))
      => []<>(phase[p] = "ready")

KeyChanged(p) == Agree /\ pin \notin {None, hubKey} /\ Alone(p)
Mistaken(p) == cached # hubPassword /\ password[p] # hubPassword
               /\ pin \in {None, hubKey} /\ Alone(p)

(* What connect() says in the end is what is wrong: a changed hub key is told  *)
(* as one and never as a refusal, a wrong password as a refusal, and neither   *)
(* makes a session (_hive.py 560-577, _noise_runtime.py 658-674).              *)
TrueVerdict ==
  \A p \in Programs:
    /\ KeepsConnecting(p) /\ <>[]KeyChanged(p)
         => []<>(outcome[p] = "keyChanged") /\ <>[](outcome[p] \notin {"ready", "refused"})
    /\ KeepsConnecting(p) /\ <>[]Mistaken(p)
         => []<>(outcome[p] = "refused") /\ <>[](outcome[p] \notin {"ready", "keyChanged"})

(* "A rejection may mean it came from a password since rotated: forget it."    *)
(* (_noise_runtime.py 798-800): a key that was forgotten comes back only when  *)
(* a program has that password and derives it again.                           *)
ForgottenStaysForgotten ==
  [][cached = None /\ cached' # None => \E p \in Programs: password[p] = cached']_negotiationVars

(* A program that keeps connecting is let in or told why not (_hive.py 560-577,*)
(* _noise_runtime.py 793-862).                                                 *)
EveryoneIsTold == Converges /\ TrueVerdict
=============================================================================
