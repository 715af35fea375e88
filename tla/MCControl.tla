------------------------------- MODULE MCControl -------------------------------
(* The calls of the control plane: credentials, a configuration shared with    *)
(* other writers, operations waited for, connections made and deleted, and a   *)
(* chat-app bridge two people edit.  A behaviour is one of them.               *)
EXTENDS SignIn, ConfigMerge, OperationWait, Connections, ChatApps, TLC
CONSTANTS poll, loop, grant, named, setter, merger, replacer, settingsKey, langKey, hostKey,
          oldValue, newValue, maker
MCCodeOf == [t \in {poll, loop} |-> grant]
MCNamedToken == [t \in {named} |-> loop]
\* One changes a subkey, one a key and the other subkey, one replaces it all.
MCDelta == [w \in {setter, merger, replacer} |->
  CASE w = setter -> [k \in Keys |->
         IF k = settingsKey THEN [s \in SubKeys |-> IF s = hostKey THEN newValue ELSE Absent] ELSE Absent]
    [] w = merger -> [k \in Keys |->
         IF k = langKey THEN newValue ELSE [s \in SubKeys |-> IF s = hostKey THEN Absent ELSE newValue]]
    [] OTHER -> [k \in Keys |-> IF k = settingsKey THEN Absent ELSE oldValue]]
MCStarts == {[k \in Keys |-> IF k = settingsKey THEN [s \in SubKeys |-> oldValue] ELSE oldValue],
             [k \in Keys |-> IF k = settingsKey THEN oldValue ELSE Absent]}

MCOf == [t \in Deletes |-> maker]
Secret == Value("secret", <<>>)
MCCreates == [token: {NotGiven, Secret}, secrets: {<<>>, "key" :> Secret @@ "id" :> Value("plain", <<>>)},
              settings: {"home" :> Value("map", "inner" :> Secret), "home" :> Value("plain", <<>>)}]
MCChanges == [adds: {{[id |-> "one", title |-> "One"]}, {[id |-> "two", title |-> ""]}}, fields: {<<>>}, settings: {<<>>}]
             \cup [adds: {{}}, fields: {"paused" :> TRUE, "scope" :> "blank"}, settings: {<<>>, "home" :> Secret}]
MCRotations == {"key" :> Secret}

VARIABLE part
vars == <<part, signInVars, mergeVars, waitVars, connVars, chatVars>>
ControlInit == /\ part \in {"signIn", "config", "wait", "connections", "chatApps"}
               /\ SignInInit /\ Init /\ WaitInit /\ ConnInit /\ ChatAppsInit
               /\ part # "config" => config = CHOOSE s \in Starts : TRUE
               /\ part # "wait" => kind = "skill"
Others(rest) == UNCHANGED <<part, rest>>
InSignIn(A) == part = "signIn" /\ A /\ Others(<<mergeVars, waitVars, connVars, chatVars>>)
InWait(A) == part = "wait" /\ A /\ Others(<<signInVars, mergeVars, connVars, chatVars>>)
ControlNext ==
  \/ part = "signIn" /\ SignInNext /\ Others(<<mergeVars, waitVars, connVars, chatVars>>)
  \/ part = "config" /\ Next /\ Others(<<signInVars, waitVars, connVars, chatVars>>)
  \/ part = "wait" /\ WaitNext /\ Others(<<signInVars, mergeVars, connVars, chatVars>>)
  \/ part = "connections" /\ ConnNext /\ Others(<<signInVars, mergeVars, waitVars, chatVars>>)
  \/ part = "chatApps" /\ ChatAppsNext /\ Others(<<signInVars, mergeVars, waitVars, connVars>>)
ControlSpec == /\ ControlInit /\ [][ControlNext]_vars
               /\ \A t \in Loops : /\ WF_vars(InSignIn(Lost(t))) /\ WF_vars(InSignIn(Reads(t)))
                                   /\ WF_vars(InSignIn(Wakes(t))) /\ WF_vars(InSignIn(Late(t)))
               /\ WF_vars(InWait(Tick)) /\ WF_vars(InWait(StartWait \/ Send \/ Wake))
               /\ WF_vars(InWait(now = GivenUp /\ (ReadCutOff \/ ReadUnreachable)))

(* What the calls on operations and connections report is what happened: the   *)
(* verdict is the operation's, in time, and no connection is left, handed out  *)
(* or reported deleted that is not so (control.py 2193-2378).                  *)
CallsAreTrue ==
  /\ VerdictIsTheOperations /\ ReadyIsSeen /\ InTime /\ SlowDownKept
  /\ NoStrangerLeft /\ KindIsKept /\ DeletedIsGone

(* A sign-in and a wait for an operation always end.                           *)
WaitsEnd == LoginEnds /\ WaitEnds
=============================================================================
