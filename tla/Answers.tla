---------------------------------- MODULE Answers --------------------------------
(* How the control plane's answers become typed resources: from_dict() and     *)
(* as_dict() of src/thalovant/control.py 103-583 and chat_apps.py 126-672.     *)
(* A JSON value is [is, in]: what it is, and what is in it by key (the rows of *)
(* a list have keys too).  A class is a table from its keys to how each is read.*)
EXTENDS Integers, FiniteSets, TLC

V(kind) == [is |-> kind, in |-> <<>>]
Holding(kind, in) == [is |-> kind, in |-> in]
ABSENT == V("absent")
NONE_VALUE == V("null")
REFUSED == V("refused")      \* ThalovantAPIError
CRASHED == V("crashed")      \* a TypeError or ValueError of dict()

Texts_ == {"text", "blank", "url", "date", "assumed"}
IsText(v) == v.is \in Texts_
Said(v) == IsText(v) /\ v.is # "blank"
ValueAt(in, key) == IF key \in DOMAIN in THEN in[key] ELSE ABSENT
Flag(b) == V(IF b THEN "true" ELSE "false")

-----------------------------------------------------------------------------
(* The classes.  A reader is [how, of]: of names a nested class.               *)
By(how) == [how |-> how, of |-> "none"]
Nest(how, class) == [how |-> how, of |-> class]
All(keys, how) == [k \in keys |-> By(how)]

LocalizedText == "en" :> By("string") @@ "fr" :> By("text")
ChatAppSecretField ==
  "key" :> By("required") @@ "label" :> Nest("must", "LocalizedText") @@ "description" :> Nest("may", "LocalizedText")
  @@ "required" :> By("unless")
ChatAppTargets ==
  "label" :> Nest("must", "LocalizedText") @@ "pattern" :> By("required") @@ "max" :> By("int")
  @@ "lowercase" :> By("flag") @@ "strip_prefix" :> By("text")
ChatAppOptions == "require_mention_fixed" :> By("flag") @@ "session_scopes" :> By("scopes")
ChatAppRelease == "version" :> By("string") @@ "released_at" :> By("text")
ChatAppConnector ==
  All({"id", "name", "status"}, "required") @@ "mark" :> By("shown") @@ "config_schema" :> By("map")
  @@ "description" :> Nest("must", "LocalizedText") @@ "setup_steps" :> Nest("must", "LocalizedText")
  @@ "secrets" :> Nest("rows", "ChatAppSecretField") @@ "targets" :> Nest("must", "ChatAppTargets")
  @@ "options" :> Nest("else", "ChatAppOptions") @@ "helpers" :> By("texts") @@ "offered" :> By("flag")
  @@ "version" :> Nest("may", "ChatAppRelease")
BridgeNetworkOffer == "network" :> By("required") @@ "offered" :> By("flag") @@ All({"name", "mark", "status"}, "text")
BridgeAllowance ==
  "owner_id" :> By("required") @@ "plan" :> By("shown") @@ All({"paid_plan", "can_create"}, "flag")
  @@ All({"limit", "used", "remaining"}, "int")
BridgeNetworks == "networks" :> Nest("rows", "BridgeNetworkOffer") @@ "allowance" :> Nest("must", "BridgeAllowance")
BridgeConnectorRef == "id" :> By("string") @@ "name" :> By("nameOrId") @@ "version" :> By("text")
BridgeBot == "user_id" :> By("shown") @@ All({"username", "display_name", "application_id", "avatar_url"}, "text")
BridgeInviteLinks == All({"add_to_group", "direct_chat"}, "text")
BridgeAllowedChat == "id" :> By("required") @@ All({"title", "kind", "guild_id", "guild_name"}, "text")
BridgeHold == "reason" :> By("string") @@ "since" :> By("text")
BridgeStatus ==
  All({"phase", "reason"}, "required") @@ "ready" :> By("flag") @@ "source" :> By("assumed")
  @@ All({"message", "operator_reason"}, "text") @@ All({"generation", "observed_generation"}, "maybeInt")
  @@ "applied" :> By("maybeFlag")
Bridge ==
  All({"id", "hub_id", "network", "state", "etag", "session_scope"}, "required") @@ "owner_id" :> By("shown")
  @@ "status" :> Nest("must", "BridgeStatus") @@ "bot" :> Nest("must", "BridgeBot")
  @@ "connector" :> Nest("may", "BridgeConnectorRef") @@ "settings" :> By("map") @@ "secrets_set" :> By("texts")
  @@ "invite_links" :> Nest("may", "BridgeInviteLinks") @@ "allowed" :> Nest("rows", "BridgeAllowedChat")
  @@ "require_mention" :> By("unless") @@ "paused" :> By("flag") @@ "hold" :> Nest("may", "BridgeHold")
  @@ All({"resource_name", "token_updated_at", "activated_at", "created_at", "updated_at"}, "text")
  @@ "operation" :> Nest("whole", "OperationResource")
BridgeChat ==
  "id" :> By("required") @@ All({"title", "kind"}, "shown") @@ All({"guild_id", "guild_name", "guild_icon_url"}, "text")
  @@ All({"allowed", "encrypted"}, "flag") @@ "selectable" :> By("unless")
BridgeChatList ==
  "network" :> By("required") @@ "data" :> Nest("rows", "BridgeChat") @@ "note" :> By("text") @@ "manual_entry" :> By("flag")
BridgeTestResult == "sent" :> By("flag") @@ "chat_id" :> By("required") @@ "language" :> By("assumed")

OperationResource ==
  All({"id", "kind", "aggregate_type", "status", "created_at", "updated_at"}, "required")
  @@ All({"aggregate_id", "git_commit_sha", "error_code", "error_message", "committed_at", "applied_at", "ready_at", "terminal_at"}, "text")
  @@ "details" :> By("dict") @@ "links" :> By("links")
HubSkill ==
  All({"skill", "state"}, "required") @@ "update_available" :> By("flag") @@ "active" :> By("unless")
  @@ All({"title", "marketplace_skill_id", "package_name", "source_type", "install_source", "version", "version_pin",
          "installed_version", "observed_version", "previous_version", "latest_version", "available_version", "changelog",
          "operator_phase", "operator_message", "operator_last_error", "last_transition_at"}, "text")
HubSkillList ==
  "hub_id" :> By("required") @@ "data" :> Nest("listing", "HubSkill")
  @@ All({"runtime_group_id", "observed_at", "source", "operator_phase", "operator_message"}, "text")
HubSkillOperation ==
  All({"operation_id", "skill", "state"}, "required") @@ All({"version", "hub_id", "runtime_group_id", "previous_version"}, "text")
DeviceAuthorization ==
  All({"device_code", "user_code"}, "required") @@ "verification_uri" :> By("url")
  @@ "verification_uri_complete" :> By("maybeUrl") @@ "interval" :> By("seconds") @@ "expires_in" :> By("int")
DeviceLoginRequest ==
  "scopes" :> By("texts") @@ All({"client_name", "client_id", "device_name"}, "said") @@ "expires_at" :> By("date")
  @@ "client_verified" :> By("verified")
ApiToken ==
  "access_token" :> By("required") @@ "token_type" :> By("assumed") @@ "scopes" :> By("texts")
  @@ "expires_at" :> By("date") @@ "token_id" :> By("said")

TableOf(class) ==
  CASE class = "LocalizedText" -> LocalizedText [] class = "ChatAppSecretField" -> ChatAppSecretField
    [] class = "ChatAppTargets" -> ChatAppTargets [] class = "ChatAppOptions" -> ChatAppOptions
    [] class = "ChatAppRelease" -> ChatAppRelease [] class = "ChatAppConnector" -> ChatAppConnector
    [] class = "BridgeNetworkOffer" -> BridgeNetworkOffer [] class = "BridgeAllowance" -> BridgeAllowance
    [] class = "BridgeNetworks" -> BridgeNetworks [] class = "BridgeConnectorRef" -> BridgeConnectorRef
    [] class = "BridgeBot" -> BridgeBot [] class = "BridgeInviteLinks" -> BridgeInviteLinks
    [] class = "BridgeAllowedChat" -> BridgeAllowedChat [] class = "BridgeHold" -> BridgeHold
    [] class = "BridgeStatus" -> BridgeStatus [] class = "Bridge" -> Bridge [] class = "BridgeChat" -> BridgeChat
    [] class = "BridgeChatList" -> BridgeChatList [] class = "BridgeTestResult" -> BridgeTestResult
    [] class = "OperationResource" -> OperationResource [] class = "HubSkill" -> HubSkill
    [] class = "HubSkillList" -> HubSkillList [] class = "HubSkillOperation" -> HubSkillOperation
    [] class = "DeviceAuthorization" -> DeviceAuthorization [] class = "DeviceLoginRequest" -> DeviceLoginRequest
    [] class = "ApiToken" -> ApiToken

-----------------------------------------------------------------------------
KeptIf(v, sound, otherwise) == IF sound THEN v ELSE otherwise
Only(v, Sound(_)) == Holding(v.is, [k \in {k \in DOMAIN v.in: Sound(v.in[k])} |-> v.in[k]])
Scopes == Holding("list", "person" :> V("text") @@ "chat" :> V("text"))

(* A field that holds no other class, and what stands beside it.               *)
Plainly(how, v, beside) ==
  CASE how = "required" -> KeptIf(v, Said(v), REFUSED)
    [] how = "string" -> KeptIf(v, IsText(v), REFUSED)
    [] how = "text" -> KeptIf(v, IsText(v), NONE_VALUE)
    [] how = "said" -> KeptIf(v, Said(v), NONE_VALUE)
    [] how = "shown" -> KeptIf(v, IsText(v), V("blank"))
    [] how = "assumed" -> KeptIf(v, Said(v), V("assumed"))
    [] how = "nameOrId" -> KeptIf(v, Said(v), ValueAt(beside, "id"))
    [] how = "flag" -> Flag(v.is = "true")
    [] how = "unless" -> Flag(v.is # "false")
    [] how = "maybeFlag" -> KeptIf(v, v.is \in {"true", "false"}, NONE_VALUE)
    [] how = "verified" -> Flag(v.is = "true" /\ Said(ValueAt(beside, "client_id")))
    [] how = "int" -> KeptIf(v, v.is \in {"number", "negative", "usual"}, V("usual"))
    [] how = "maybeInt" -> KeptIf(v, v.is \in {"number", "negative"}, NONE_VALUE)
    [] how = "seconds" -> KeptIf(v, v.is \in {"number", "usual"}, V("usual"))
    [] how = "date" -> KeptIf(v, v.is = "date", NONE_VALUE)
    [] how = "url" -> KeptIf(v, v.is = "url", REFUSED)
    [] how = "maybeUrl" -> KeptIf(v, v.is = "url", IF v.is \in {"absent", "null"} THEN NONE_VALUE ELSE REFUSED)
    [] how = "texts" -> IF v.is = "list" THEN Only(v, IsText) ELSE V("list")
    [] how = "scopes" -> IF v.is = "list" THEN Only(v, IsText) ELSE Scopes
    [] how = "map" -> KeptIf(v, v.is = "map", V("map"))
    [] how \in {"dict", "links"} ->
         \* dict(value or {}): what is false is {}, and what is not a mapping raises.
         IF v.is \in {"absent", "null", "false", "blank"} \/ (v.is = "list" /\ v.in = <<>>) THEN V("map")
         ELSE IF v.is # "map" THEN CRASHED
         ELSE IF how = "dict" THEN v
         ELSE Holding("map", [k \in DOMAIN v.in |-> KeptIf(v.in[k], IsText(v.in[k]), NONE_VALUE)])

RECURSIVE ReadAs(_, _)

(* from_dict(): every field is read, and the first that cannot be refuses all. *)
ReadAs(class, v) ==
  LET table == TableOf(class)
      Field(k) ==
        LET r == table[k]
            value == ValueAt(v.in, k)
            inner == ReadAs(r.of, value)
            rows == [n \in DOMAIN value.in |-> IF value.in[n].is = "map" THEN ReadAs(r.of, value.in[n]) ELSE REFUSED]
            failed == {rows[n]: n \in DOMAIN rows} \cap {REFUSED, CRASHED}
        IN CASE r.how = "must" -> IF value.is = "map" THEN inner ELSE REFUSED
             [] r.how = "may" -> IF value.is # "map" \/ inner = REFUSED THEN NONE_VALUE ELSE inner
             [] r.how = "whole" -> IF value.is # "map" THEN NONE_VALUE ELSE inner
             [] r.how = "else" -> IF value.is = "map" THEN inner ELSE ReadAs(r.of, V("map"))
             [] r.how \in {"rows", "listing"} ->
                  IF r.how = "rows" /\ value.is \in {"absent", "null"} THEN V("list")
                  ELSE IF value.is # "list" THEN REFUSED
                  ELSE IF failed # {} THEN CHOOSE f \in failed: TRUE ELSE Holding("list", rows)
             [] OTHER -> Plainly(r.how, value, v.in)
      read == [k \in DOMAIN table |-> Field(k)]
      failures_ == {read[k]: k \in DOMAIN read} \cap {REFUSED, CRASHED}
  IN IF failures_ = {} THEN Holding("map", read) ELSE IF CRASHED \in failures_ THEN CRASHED ELSE REFUSED

-----------------------------------------------------------------------------
(* _scrub_client_secrets(): the keys that hold secrets, at any depth, in the   *)
(* one spelling _normalize_secret_key() gives them.                            *)
SecretKeys == {"initialidentify", "initialidentifytoken", "apikey", "accesskey", "password", "cryptokey", "token",
               "accesstoken", "refreshtoken", "authorization", "clientsecret", "privatekey", "secret", "apisecret",
               "secretkey", "credentials"}

\* mutant: a list is shown as it is.
RECURSIVE ScrubbedMaps(_)
ScrubbedMaps(v) ==
  IF v.is = "map" THEN Holding(v.is, [k \in DOMAIN v.in \ SecretKeys |-> ScrubbedMaps(v.in[k])]) ELSE v

RECURSIVE Scrubbed(_)
Scrubbed(v) ==
  IF v.is = "map" THEN Holding(v.is, [k \in DOMAIN v.in \ SecretKeys |-> Scrubbed(v.in[k])])
  ELSE IF v.is = "list" THEN Holding(v.is, [k \in DOMAIN v.in |-> Scrubbed(v.in[k])]) ELSE v

-----------------------------------------------------------------------------
(* A resource saved as its as_dict() is read back as it was: the device sign-in*)
(* resumed by another process polls with the same codes, and a bridge shown    *)
(* twice is the same one; a browser is only opened at an address it may open.  *)
(* Only an operation's details and links raise anything but a refusal.         *)
AnswerIsRead(class, payload) ==
  LET read == ReadAs(class, payload)
  IN /\ read.is = "map" => ReadAs(class, read) = read
     /\ class = "DeviceAuthorization" /\ read.is = "map" =>
          {read.in["verification_uri"].is, read.in["verification_uri_complete"].is} \subseteq {"url", "null"}
     /\ class = "DeviceLoginRequest" /\ read.in["client_verified"].is = "true" => Said(read.in["client_id"])
     /\ class \notin {"OperationResource", "Bridge"} => read # CRASHED

RECURSIVE KeysIn(_)
KeysIn(v) == DOMAIN v.in \cup UNION {KeysIn(v.in[k]): k \in DOMAIN v.in}

(* No secret is left in what as_dict() shows of a client, however deep it is,  *)
(* and nothing else is missing from it (control.py 413-430, 3699-3716).        *)
ScrubbedIsClean(v) ==
  /\ KeysIn(Scrubbed(v)) \cap SecretKeys = {}
  /\ KeysIn(v) \cap SecretKeys = {} => Scrubbed(v) = v

-----------------------------------------------------------------------------
(* How a refusal is read: the API's problem bodies (src/thalovant/errors.py    *)
(* 181-291, control.py 3849-3975, 4303-4335), a hub's policy denials           *)
(* (errors.py 29-164), a close of the link (_hive.py 97-129) and the requests  *)
(* that are never made (control.py 2464-2519).  A text here is one of          *)
(* Words, or blank.                                                            *)
Words == {"sentence", "scopes", "plan_limit", "linked", "connection_type", "name", "numeral"}
IsWord(v) == v.is \in Words
ProblemAt(p, key) == ValueAt(p.in, key)
Else(a, b) == IF a # NONE_VALUE THEN a ELSE b

(* The sources a member is looked for in: the body, then an object `detail`.   *)
Envelope(p) == IF ProblemAt(p, "detail").is = "map" THEN ProblemAt(p, "detail") ELSE V("map")
ProblemText(v) == IF IsWord(v) THEN v ELSE NONE_VALUE
ProblemCode(p) == Else(ProblemText(ProblemAt(p, "code")), ProblemText(ProblemAt(Envelope(p), "code")))
ProblemDetail(p) == Else(ProblemText(ProblemAt(p, "detail")), ProblemText(ProblemAt(Envelope(p), "detail")))

FieldNames(p) ==
  LET top == ProblemAt(p, "fields")
      listed == IF top.is = "list" THEN top ELSE ProblemAt(Envelope(p), "fields")
  IN IF listed.is # "list" THEN {} ELSE {listed.in[k]: k \in {i \in DOMAIN listed.in: IsText(listed.in[i]) \/ IsWord(listed.in[i])}}

\* mutant: a wait inside the envelope is not read.
RetryAtTop(p) == IF ProblemAt(p, "retry_after_seconds").is = "number" THEN ProblemAt(p, "retry_after_seconds") ELSE NONE_VALUE

(* _retry_after(): a number that is not negative, and no bool.                 *)
RetryAfter(p) ==
  LET top == ProblemAt(p, "retry_after_seconds")
      nested == ProblemAt(Envelope(p), "retry_after_seconds")
  IN IF top.is = "number" THEN top ELSE IF nested.is = "number" THEN nested ELSE NONE_VALUE

ErrorKind(status, p) ==
  CASE status \in {401, 423} \/ (status = 403 /\ ProblemDetail(p) = V("scopes")) -> "auth"
    [] status = 402 \/ (status = 403 /\ ProblemCode(p) = V("plan_limit")) -> "plan"
    [] status = 409 /\ ProblemCode(p) = V("linked") -> "alreadyLinked"
    [] OTHER -> "api"

(* _linked_client_id(): the first text under one of three keys.                *)
NamedClient(p) ==
  LET named == {k \in {"client_id", "existing_client_id", "connection_id"}: IsWord(ProblemAt(p, k)) \/ ProblemAt(p, k).is = "blank"}
      first == IF "client_id" \in named THEN "client_id"
               ELSE IF "existing_client_id" \in named THEN "existing_client_id" ELSE "connection_id"
  IN IF named = {} THEN NONE_VALUE ELSE ProblemAt(p, first)
LinkedClient(p) == Else(NamedClient(p), NamedClient(Envelope(p)))

(* _refuses_connection_type(): what the API says, never what it echoes.        *)
Entries(p, key) == LET v == ProblemAt(p, key) IN IF v.is = "list" THEN {v.in[k]: k \in DOMAIN v.in} ELSE {}
Mentions(v) == v = V("connection_type") \/ (v.is = "list" /\ \E k \in DOMAIN v.in: v.in[k] = V("connection_type"))
RefusesConnectionType(status, p) ==
  /\ status = 422
  /\ \/ V("connection_type") \in {ProblemDetail(p), ProblemCode(p)}
     \/ \E e \in {e \in Entries(p, "errors") \cup Entries(p, "detail"): e.is = "map"}:
          Mentions(ProblemAt(e, "loc")) \/ ProblemAt(e, "msg") = V("connection_type")

(* _error_message(): one sentence and the code, each a text of the body's top. *)
ErrorMessage(p) ==
  LET told == {k \in {"detail", "message", "error"}: IsWord(ProblemAt(p, k))}
      first == IF "detail" \in told THEN "detail" ELSE IF "message" \in told THEN "message" ELSE "error"
      code == ProblemAt(p, "code")
  IN [detail |-> IF told = {} THEN NONE_VALUE ELSE ProblemAt(p, first), code |-> IF IsWord(code) /\ code # V("sentence") THEN code ELSE NONE_VALUE]

(* _api_error(): what the caller is handed; a header tells the wait only when  *)
(* the body does not.                                                          *)
APIError(status, p, header) ==
  [kind |-> ErrorKind(status, p), code |-> ProblemCode(p), detail |-> ProblemDetail(p), fields |-> FieldNames(p),
   retryAfter |-> Else(RetryAfter(p), header), message |-> ErrorMessage(p),
   client |-> IF ErrorKind(status, p) = "alreadyLinked" THEN LinkedClient(p) ELSE NONE_VALUE]

-----------------------------------------------------------------------------
(* A denial of a hub's policy: ThalovantPolicyDeniedError.from_event().        *)
Count(v) == IF v.is \in {"number", "numeral"} THEN v ELSE V("zero")
Inner(data) == IF ProblemAt(data, "data").is = "map" THEN ProblemAt(data, "data") ELSE V("map")
Denial(data) ==
  LET inner == Inner(data)
      allowed == ProblemAt(inner, "allowed")
  IN [code |-> ProblemAt(data, "code"),
      allowed |-> IF allowed.is = "list" THEN {allowed.in[k]: k \in {i \in DOMAIN allowed.in: IsWord(allowed.in[i])}} ELSE {},
      quota |-> IF ProblemAt(data, "code") # V("plan_limit") THEN {}
                ELSE {[period |-> IF IsWord(ProblemAt(inner, "period")) THEN ProblemAt(inner, "period") ELSE V("blank"),
                       limit |-> Count(ProblemAt(inner, "limit")), used |-> Count(ProblemAt(inner, "used")),
                       reset |-> Count(ProblemAt(inner, "reset_after"))]}]

(* _refusal_message(): the advice follows the kind of refusal.                 *)
Advice(denial) ==
  CASE denial.quota # {} ->
         LET q == CHOOSE q \in denial.quota: TRUE
         IN [says |-> IF {q.limit, q.used, q.reset} = {V("zero")} /\ q.period = V("blank") THEN "quota" ELSE "spent",
             used |-> IF q.limit = V("zero") THEN V("zero") ELSE q.used, limit |-> q.limit, reset |-> q.reset]
    [] denial.quota = {} /\ denial.code = V("scopes") ->
         [says |-> "backend", used |-> V("zero"), limit |-> V("zero"), reset |-> V("zero")]
    [] OTHER -> [says |-> "allow", used |-> V("zero"), limit |-> V("zero"), reset |-> V("zero")]

-----------------------------------------------------------------------------
(* A close of the link: close_refuses(), refusal_after_handshake().  after is  *)
(* -1 for a close during the handshake, code 0 for one without a code.         *)
CloseRefuses(code, after, late, framed) ==
  ~framed /\ code \in {1000, 1005, 1008} /\ late <= 250 /\ after <= 750

(* A request: _send() before it is made, and a redirect after.                 *)
HasCredentials(r) == r.json \/ r.auth \/ r.header \/ r.jar
SendOutcome(r, status) ==
  IF r.auth /\ ~r.token THEN "noToken"
  ELSE IF r.userinfo THEN "embedded"
  ELSE IF HasCredentials(r) /\ r.scheme # "https" /\ ~(r.scheme = "http" /\ r.loopback) THEN "plaintext"
  ELSE IF status \in 300..399 THEN "redirected"
  ELSE IF ~HasCredentials(r) /\ r.scheme # "https" /\ ~r.loopback THEN "sentAnonymous" ELSE "sent"

-----------------------------------------------------------------------------
(* A refusal reads the same whether the API put its members at the body's top  *)
(* or inside an object `detail` (errors.py 240-291): code, sentence, names,    *)
(* wait, kind and the linked connection; what is shown is a text of the body's *)
(* top and never one it echoes (control.py 4303-4335), and only what the API   *)
(* says of connection_type is a refusal of it (3948-3975).                     *)
ProblemIsRead(status, p) ==
  LET wrapped == Holding("map", "detail" :> p)
      said == ErrorMessage(p)
  IN /\ ProblemAt(p, "detail").is # "map" =>
          \A header \in {NONE_VALUE, V("number")}:
            APIError(status, wrapped, header) = [APIError(status, p, header) EXCEPT !.message = ErrorMessage(wrapped)]
     /\ said.detail # NONE_VALUE => ProblemDetail(p) = NONE_VALUE \/ said.detail = ProblemDetail(p) \/ ProblemAt(p, "detail").is = "map"
     /\ LET echoed == Holding("map", "errors" :> Holding("list", "a" :> Holding("map", "input" :> V("connection_type")
                                        @@ "loc" :> V("name"))) @@ p.in)
        IN "errors" \notin DOMAIN p.in => RefusesConnectionType(status, echoed) = RefusesConnectionType(status, p)

(* A denial says a number only if the hub sent it, and tells to allow a type   *)
(* only when neither an allowance nor the backend is the reason (errors.py     *)
(* 144-164).                                                                   *)
DenialIsRead(data) ==
  LET told == Advice(Denial(data))
      sent == {ProblemAt(Inner(data), k): k \in DOMAIN Inner(data).in} \cup {V("zero")}
  IN /\ {told.used, told.limit, told.reset} \subseteq sent
     /\ told.says = "spent" => \E k \in {"limit", "used", "reset_after", "period"}: ProblemAt(Inner(data), k).is \in Words \cup {"number"}
     /\ told.says = "allow" => ProblemAt(data, "code") \notin {V("plan_limit"), V("scopes")}

(* A close that refuses would refuse had it come or been learnt sooner, and    *)
(* none does once the hub sent a frame that authenticates (_hive.py 97-119).   *)
CloseIsRead(code, after, late) ==
  CloseRefuses(code, after, late, FALSE) =>
    \A sooner \in {-1, 0, 750}, earlier \in {0, 250}:
      sooner <= after /\ earlier <= late => CloseRefuses(code, sooner, earlier, FALSE) /\ ~CloseRefuses(code, sooner, earlier, TRUE)

(* A token, a body or a cookie goes out only over TLS or to the caller's own   *)
(* machine, and credentials of a netrc never (2493-2511).                      *)
SendIsGuarded(r, status) ==
  LET outcome == SendOutcome(r, status)
  IN /\ outcome \in {"sent", "redirected"} /\ HasCredentials(r) => r.scheme = "https" \/ (r.scheme = "http" /\ r.loopback)
     /\ outcome = "sentAnonymous" => ~r.auth /\ ~r.json /\ ~r.header /\ ~r.jar
     /\ r.auth /\ ~r.token => outcome = "noToken"
=============================================================================
