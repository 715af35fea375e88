---------------------------------- MODULE ChatApps -------------------------------
(* A hub's chat-app bridge and the people who edit it: the request bodies of   *)
(* src/thalovant/chat_apps.py 600-791 and the calls of control.py 1957-2106.   *)
(* The API is external: it merges what a body holds, refuses a stale If-Match  *)
(* and never sends a credential back.  A request or its answer may be lost.    *)
EXTENDS Naturals, Sequences

CONSTANTS Editors, MaxBridgeEdits,
          CreateCalls,   \* create_bridge(): [token, secrets, settings]
          Changes,       \* update_bridge(): [adds, fields, settings], adds chats to the ones read
          Rotations      \* replace_bridge_secrets(): key -> value

\* A caller chooses chats by adding to the ones it read.
ASSUME ChatAppsShape ==
  /\ MaxBridgeEdits \in Nat
  /\ \A call \in CreateCalls:
       "is" \in DOMAIN call.token /\ \A k \in DOMAIN call.secrets: "is" \in DOMAIN call.secrets[k]
  /\ \A secrets \in Rotations: \A k \in DOMAIN secrets: "is" \in DOMAIN secrets[k]
  /\ \A change \in Changes: DOMAIN change.fields \subseteq {"paused", "scope"}

VARIABLES
  bridge,     \* [fields, settings, vault, version], or NoBridge
  editor,     \* editor -> [held, sends, etag, meant]: what it read, the body under way and its
              \* If-Match (0 for none), and what the caller passed
  edits       \* history: the calls the API took, as their caller meant them

chatVars == <<bridge, editor, edits>>

(* A value a caller passes: plain text, a SecretValue, or a map or list, which *)
(* is what it holds at its leaves, however deep they are.                      *)
Value(is, of) == [is |-> is, of |-> of]
NotGiven == Value("none", <<>>)
REFUSAL == [is |-> "refusal", body |-> <<>>]
NoBridge == [fields |-> <<>>, settings |-> <<>>, vault |-> <<>>, version |-> 0]
NoBody == [is |-> "none", body |-> <<>>]
Merged(body, stored) ==
  [k \in DOMAIN body \cup DOMAIN stored |-> IF k \in DOMAIN body THEN body[k] ELSE stored[k]]

HoldsSecret(value) == value.is = "secret" \/ \E leaf \in DOMAIN value.of: value.of[leaf].is = "secret"

SettingsHold(settings) == \E k \in DOMAIN settings: HoldsSecret(settings[k])
Reveal(value) == [value EXCEPT !.is = "plain"]
SecretMap(secrets) == [k \in DOMAIN secrets |-> Reveal(secrets[k])]

(* bridge_create_body(): the token or the secrets, and settings without any.   *)
CreateBody(call) ==
  IF \/ (call.token # NotGiven) = (DOMAIN call.secrets # {}) \/ SettingsHold(call.settings)
     \/ \E k \in DOMAIN call.secrets: call.secrets[k].is \notin {"plain", "secret"}
     \/ call.token.is = "map" THEN REFUSAL
  ELSE [is |-> "create",
        body |-> [settings |-> call.settings,
                  secrets |-> IF call.token # NotGiven THEN [token |-> Reveal(call.token)] ELSE SecretMap(call.secrets)]]

(* _allowed_entry(): an id, or a chat with what the picker showed of it.       *)
AllowedEntry(chat) == [id |-> chat.id, title |-> IF chat.title = "" THEN "none" ELSE chat.title]

\* mutant: what was read is sent along with what was set.
FullBody(fields, settings, held) ==
  IF SettingsHold(settings) THEN REFUSAL
  ELSE [is |-> "update", body |-> [fields |-> Merged(fields, held.fields), settings |-> settings]]

(* bridge_update_body(): only what the caller set.                             *)
UpdateBody(fields, settings, held) ==
  IF SettingsHold(settings) \/ ("scope" \in DOMAIN fields /\ fields["scope"] = "blank") THEN REFUSAL
  ELSE [is |-> "update", body |-> [fields |-> fields, settings |-> settings]]

ChatAppsInit ==
  /\ bridge = NoBridge /\ edits = <<>>
  /\ editor = [e \in Editors |-> [held |-> NoBridge, sends |-> NoBody, etag |-> 0, meant |-> <<>>]]

Sends(e, body, etag, meant) ==
  /\ editor[e].sends = NoBody /\ body # REFUSAL
  /\ editor' = [editor EXCEPT ![e] = [held |-> @.held, sends |-> body, etag |-> etag, meant |-> meant]]
  /\ UNCHANGED <<bridge, edits>>

CallCreate(e) == \E call \in CreateCalls: Sends(e, CreateBody(call), 0, <<>>)

(* update_bridge(), with the etag of what was read or without.                 *)
CallUpdate(e) ==
  /\ editor[e].held # NoBridge
  /\ \E change \in Changes, guarded \in BOOLEAN:
       LET chosen == editor[e].held.fields["allowed"] \cup {AllowedEntry(c): c \in change.adds}
           fields == IF change.adds = {} THEN change.fields ELSE Merged([allowed |-> chosen], change.fields)
       IN Sends(e, UpdateBody(fields, change.settings, editor[e].held),
                IF guarded THEN editor[e].held.version ELSE 0, fields)

CallReplace(e) ==
  /\ editor[e].held # NoBridge
  /\ \E secrets \in Rotations: Sends(e, [is |-> "rotate", body |-> SecretMap(secrets)], 0, <<>>)

Created == [allowed |-> {}, paused |-> FALSE, scope |-> "person"]

(* The API: what the body holds is merged, and the bridge has a new etag.      *)
BridgeAfter(body) ==
  CASE body.is = "create" ->
         [fields |-> Created, settings |-> body.body.settings,
          vault |-> body.body.secrets, version |-> 1]
    [] body.is = "update" ->
         [bridge EXCEPT !.fields = Merged(body.body.fields, @),
                        !.settings = Merged(body.body.settings, @), !.version = @ + 1]
    [] body.is = "rotate" -> [bridge EXCEPT !.vault = Merged(body.body, @), !.version = @ + 1]

Taken(e) ==
  /\ (editor[e].sends.is = "create") = (bridge = NoBridge)
  /\ editor[e].etag \in {0, bridge.version}

EditorSettles(e, held) == editor' = [editor EXCEPT ![e] = [held |-> held, sends |-> NoBody, etag |-> 0, meant |-> <<>>]]
WithoutVault(b) == [b EXCEPT !.vault = [k \in DOMAIN b.vault |-> NotGiven]]

(* A call ends: answered with the bridge, refused, or unreachable whether or   *)
(* not the API took it.                                                        *)
CallEnds(e) ==
  /\ editor[e].sends # NoBody
  /\ \/ /\ Taken(e) /\ Len(edits) < MaxBridgeEdits /\ bridge' = BridgeAfter(editor[e].sends)
        /\ edits' = Append(edits, [meant |-> editor[e].meant, guarded |-> editor[e].etag # 0])
        /\ \E answered \in BOOLEAN: EditorSettles(e, IF answered THEN WithoutVault(bridge') ELSE editor[e].held)
     \/ EditorSettles(e, editor[e].held) /\ UNCHANGED <<bridge, edits>>

GetBridge(e) ==
  /\ bridge # NoBridge /\ editor[e].sends = NoBody /\ editor[e].held # WithoutVault(bridge)
  /\ EditorSettles(e, WithoutVault(bridge)) /\ UNCHANGED <<bridge, edits>>

ChatAppsNext == \E e \in Editors: CallCreate(e) \/ CallUpdate(e) \/ CallReplace(e) \/ CallEnds(e) \/ GetBridge(e)
ChatAppsSpec == ChatAppsInit /\ [][ChatAppsNext]_chatVars

-----------------------------------------------------------------------------
Naming(f) == {n \in DOMAIN edits: f \in DOMAIN edits[n].meant}

(* Two people's edits of one bridge: a field is what the last call that named  *)
(* it said, and no other call touched it (698-722); chats added with an etag   *)
(* stay, titles included, for as long as everybody chooses chats with one      *)
(* (600-605, 737-747, control.py 2013-2027); and a credential is nowhere but   *)
(* among the credentials (673-695, 750-777).                                   *)
EditsAreKept ==
  /\ bridge # NoBridge => \A f \in DOMAIN Created:
       /\ Naming(f) = {} => bridge.fields[f] = Created[f]
       /\ \A n \in Naming(f): (\A later \in Naming(f): later <= n) => bridge.fields[f] = edits[n].meant[f]
  /\ (\A n \in Naming("allowed"): edits[n].guarded) =>
       \A n \in Naming("allowed"): edits[n].meant["allowed"] \subseteq bridge.fields["allowed"]
  /\ ~SettingsHold(bridge.settings) /\ \A k \in DOMAIN bridge.vault: bridge.vault[k].is = "plain"
  /\ \A e \in Editors: \A k \in DOMAIN editor[e].held.vault: editor[e].held.vault[k] = NotGiven
=============================================================================
