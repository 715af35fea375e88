-------------------------------- MODULE MCHub ---------------------------------
(* What a client asks of a hub's skills, and the threads a synchronous client  *)
(* runs it on; and how the SDK reads what they say.  A behaviour is of one part. *)
EXTENDS Wire, Languages, Phrases, Hubs, Answers, Correlation, HubListing, BusQuery, LoopThreads, TLC

-----------------------------------------------------------------------------
(* The pure parts of the SDK, each over the inputs below.                      *)
VARIABLES part, input, checked

MCObjects == {<<123, 125>>, <<7>>, <<255, 0, 129>>}
MCInflated == [b \in {<<1>>, <<2, 3>>} |-> IF b = <<1>> THEN <<7>> ELSE <<5, 5>>]
Texts == MCObjects \cup {<<1>>, <<2, 3>>, <<9>>}
MCFrames ==
  [version: {-1}, number: {0, 1, 11, 12, 13, 31}, squeezed: BOOLEAN, metadata: Texts, kind: {0, 9, 15}, payload: Texts \cup {<<>>}]
  \cup [version: {0, 1, 2, 255}, number: {1, 12}, squeezed: BOOLEAN, metadata: Texts, kind: {6}, payload: Texts]
Kept == {"bus", "query", "intercom", "hello"}
Flat == {Dict(t, NULL, "none", d): t \in {"", "hello"}, d \in {"none", "object", "other"}}
AnyMesh0 == {Dict(t, p, r, "none"): t \in Kept, p \in {NULL, [is |-> "text"]} \cup Flat, r \in {"none", "list", "other"}}
\* A bus frame carries a message: one without any is read as {}, and as an
\* empty message once relayed.
Mesh0 == {e \in AnyMesh0: e.msg_type = "bus" => e.payload # NULL}
Mesh1 == {Dict(t, p, "list", "none"): t \in Kept, p \in Mesh0}
Envelopes == Mesh0 \cup Mesh1 \cup {Dict("cascade", p, "none", "none"): p \in Mesh1}

MCAliases == <<"iw">> :> <<"he">> @@ <<"sh">> :> <<"sr", "latn">>
MCScripts == {"latn", "hant", "hans", "cyrl"}
MCRegions == [r \in {"us", "gb", "ca", "br", "pt", "ao", "tw", "hk", "cn", "mx", "419", "es", "ma", "eg", "rs", "no", "il"} |-> r] @@ "840" :> "us"
\* The model writes scripts and regions as their subtags.
MCDefault == [l \in {"en", "pt", "es", "no", "nb", "ar", "he"} |->
  CASE l = "ar" -> "Arab" [] l = "he" -> "Hebr" [] OTHER -> "latn"]
L3(l, s, r) == <<l, "", "">> :> <<l, s, r>>
MCLikely == L3("en", "latn", "us") @@ L3("pt", "latn", "br") @@ L3("es", "latn", "es") @@ L3("no", "latn", "no")
  @@ L3("nb", "latn", "no") @@ L3("ar", "Arab", "eg") @@ L3("he", "Hebr", "il") @@ L3("sr", "cyrl", "rs")
  @@ L3("zh", "hans", "cn") @@ <<"zh", "", "tw">> :> <<"zh", "hant", "tw">> @@ <<"zh", "", "hk">> :> <<"zh", "hant", "hk">>
  @@ <<"zh", "hant", "">> :> <<"zh", "hant", "tw">> @@ <<"und", "hant", "">> :> <<"zh", "hant", "tw">>
  @@ L3("und", "latn", "us") @@ <<"und", "", "">> :> <<"en", "latn", "us">>
MCMacro == "arb" :> "ar" @@ "cmn" :> "zh"
MCDistances == <<<<"nb">>, <<"no">>>> :> 1 @@ <<<<"no">>, <<"nb">>>> :> 1 @@ <<<<"sr", "latn">>, <<"sr", "cyrl">>>> :> 5
  @@ <<<<"sr", "cyrl">>, <<"sr", "latn">>>> :> 5
MCGroups == [US |-> {"us"}, MAGHREB |-> {"ma"}, AMERICAS |-> {"us", "ca", "br", "mx", "419"},
             LATIN_AMERICA |-> {"br", "mx", "419"}, CNSAR |-> {"hk"}]
LanguageTags ==
  {<<"en">>, <<"en", "us">>, <<"en", "gb">>, <<"en", "ca">>, <<"en", "840">>, <<"en", "x", "us">>, <<"pt">>, <<"pt", "br">>, <<"pt", "ao">>,
   <<"pt", "latn">>, <<"es">>, <<"es", "mx">>, <<"es", "419">>, <<"no">>, <<"nb", "no">>, <<"ar", "ma">>, <<"arb">>,
   <<"sr">>, <<"sr", "latn">>, <<"sh">>, <<"zh", "tw">>, <<"zh", "hant", "hk">>, <<"zh", "cn">>, <<"cmn">>, <<"iw">>, <<"und", "hant">>, <<"tlh">>}

MCSlotWord == "{city}" :> "paris" @@ "{x}" :> "x"
Patterns == UNION {[1..n -> {"(", ")", "|", "a", "b"}]: n \in 0..5}
Registered == {<<"a">>, <<"what", "a", "{city}">>, <<"(", "a", "|", "b", ")", "b">>, <<"a", "b">>, <<"weather", "in">>, <<"[", "a", "]">>,
               <<"what", "b", "a", "b", "a", "b", "a", "b", "a">>, <<"a", "b", "a", "b", "a", "b", "a", "b">>, <<"a", "b", "!">>}

Partial(keys, S) == UNION {[K -> S]: K \in SUBSET keys}
Flags == Partial({"wss", "http", "mqtt"}, {"on", "off"}) \cup Partial({"websocket", "https"}, {"on", "off", "other"})
Tables == {<<>>} \cup {[k \in K |-> IF k = "mqtt" THEN URL("mqtts", "api") ELSE IF blank = k THEN NOURL ELSE URL(k, "api")]:
                      K \in SUBSET {"https", "wss", "mqtt"}, blank \in {"", "https", "wss"}}
  \cup [{"https", "wss"} -> {URL("ftp", "api"), URL("bare", "api")}] \cup [{"http", "ws"} -> {URL("bare", "api")}]
Domains == {NOURL, URL("bare", "domain"), URL("https", "domain"), URL("ws", "domain")}
HubResources ==
  [protocols: Flags, network: {<<>>, [k \in {"wss", "http"} |-> IF k = "wss" THEN "off" ELSE "on"]},
   endpoints: Tables, beside: {<<>>, [k \in {"wss"} |-> URL("wss", "beside")]}, domain: Domains]
\* What the API names for a new client: nothing, or a master and perhaps a broker.
MCCredentials == [endpoint |-> URL("mqtts", "broker"), username |-> "u", password |-> "p"]
Identifies ==
  {NOIDENTIFY, Identify(NOURL, <<>>), Identify(URL("https", "named"), [endpoint |-> URL("mqtts", "broker")])}
  \cup {Identify(URL(s, "named"), b): s \in {"wss", "ws"}, b \in {<<>>, MCCredentials}}
Identities ==
  {Identity(m, e, s, c): m \in {URL("wss", "master"), URL("https", "master"), URL("bare", "master")},
     e \in [https: {NOURL, URL("https", "api")}, wss: {NOURL, URL("wss", "api")}, mqtt: {NOURL, URL("mqtts", "api")}],
     s \in [wss: BOOLEAN, http: BOOLEAN, mqtt: BOOLEAN], c \in {<<>>, MCCredentials}}

Sound(class, k) ==
  LET r == TableOf(class)[k]
  IN CASE r.how \in {"url", "maybeUrl"} -> V("url") [] r.how = "date" -> V("date") [] r.how \in {"int", "maybeInt", "seconds"} -> V("number")
       [] r.how \in {"flag", "maybeFlag", "unless", "verified"} -> V("true") [] r.how \in {"map", "dict", "links"} -> V("map")
       [] r.how \in {"texts", "scopes"} -> Holding("list", "a" :> V("text") @@ "b" :> V("number"))
       [] r.how \in {"must", "may", "whole", "else", "rows", "listing"} -> NONE_VALUE [] OTHER -> V("text")
RECURSIVE WellFormed(_)
WellFormed(class) ==
  Holding("map", [k \in DOMAIN TableOf(class) |->
    LET r == TableOf(class)[k]
    IN IF r.how \in {"must", "may", "whole", "else"} THEN WellFormed(r.of)
       ELSE IF r.how \in {"rows", "listing"} THEN Holding("list", "a" :> WellFormed(r.of)) ELSE Sound(class, k)])
Classes == {"ChatAppConnector", "BridgeNetworks", "Bridge", "BridgeChatList", "BridgeTestResult", "OperationResource",
            "HubSkillList", "HubSkillOperation", "DeviceAuthorization", "DeviceLoginRequest", "ApiToken", "BridgeStatus",
            "BridgeAllowance", "BridgeConnectorRef", "BridgeAllowedChat", "ChatAppTargets", "ChatAppSecretField"}
Odd == {V(k): k \in {"absent", "null", "text", "blank", "url", "number", "negative", "true", "false", "list", "map"}}
       \cup {Holding("list", "a" :> V("map")), Holding("map", "en" :> V("text")), Holding("map", "id" :> V("blank")),
             Holding("map", "x" :> V("number"))}
Varied(class) ==
  LET sound == WellFormed(class).in
      keys == DOMAIN sound
  IN {Holding("map", [sound EXCEPT ![k] = v]): k \in keys, v \in Odd}
     \cup (IF class \in {"OperationResource", "HubSkillList", "ChatAppConnector", "Bridge"} THEN {}
           ELSE {Holding("map", [sound EXCEPT ![k] = v, ![j] = w]): k \in keys, v \in Odd, j \in keys, w \in Odd})
Secretive0 == {V("text"), Holding("map", "password" :> V("text")), Holding("map", "id" :> V("text") @@ "token" :> V("map"))}
Secretive1 == Secretive0 \cup {Holding("list", "a" :> x @@ "b" :> y): x \in Secretive0, y \in Secretive0}
Secretive2 == {Holding("map", k :> x @@ "name" :> y): k \in {"spec", "initialidentify", "apikeyref"}, x \in Secretive1, y \in Secretive1}

Problems ==
  LET texts == {V(k): k \in {"absent", "null", "blank", "true"} \cup Words} \ {V("numeral")}
      members(keys, S) == {[is |-> "map", in |-> f]: f \in Partial(keys, S)}
      entry == {Holding("list", "a" :> Holding("map", k :> v)): k \in {"loc", "msg", "input"},
                  v \in {V("name"), V("connection_type"), Holding("list", "a" :> V("name") @@ "b" :> V("connection_type"))}}
  IN members({"code", "detail", "message"}, texts)
     \cup {Holding("map", "detail" :> v @@ "code" :> c @@ k :> e):
           v \in {V("sentence")} \cup entry, c \in texts, k \in {"errors"}, e \in entry}
     \cup members({"retry_after_seconds", "fields"}, {V("number"), V("negative"), V("true"), V("name"), Holding("list", "a" :> V("name") @@ "b" :> V("number"))})
     \cup members({"client_id", "existing_client_id", "connection_id"}, {V("name"), V("blank"), V("number")})
Denials ==
  {Holding("map", "code" :> c @@ "data" :> d): c \in {V("plan_limit"), V("scopes"), V("sentence"), V("null")},
     d \in {V("text")} \cup {[is |-> "map", in |-> f]: f \in Partial({"limit", "used", "reset_after", "period"},
                             {V("number"), V("numeral"), V("negative"), V("true"), V("name")})}}
Requests == [auth: BOOLEAN, token: BOOLEAN, json: BOOLEAN, header: BOOLEAN, jar: BOOLEAN, userinfo: BOOLEAN,
             scheme: {"https", "http", "ftp"}, loopback: BOOLEAN]
Sessions == Partial({"session_id", "request_id", "lang", "converse_handlers"}, {"old"})
Givens == [session_id: {"", "s1"}, site_id: {"home"}, lang: {"", "fr"}, request_id: {"", "r1"}]

AlgorithmsInit ==
  /\ checked = FALSE
  /\ \/ part = "frame" /\ input \in MCFrames
     \/ part = "encoded" /\ input \in [type: Range(Types) \cup {"handshake", "intercom"}, metadata: Texts, payload: Texts]
     \/ part = "envelope" /\ input \in Envelopes
     \/ /\ part = "closest"
        /\ input \in [target: LanguageTags, hub: {<<>>} \cup {<<a, b>>: a, b \in LanguageTags}]
     \/ part = "pattern" /\ input \in Patterns
     \/ /\ part = "examples"
        /\ input \in [phrases: UNION {[1..n -> Registered]: n \in 0..3}, limit: 0..2, sentence: BOOLEAN]
     \/ part = "hub" /\ input \in [hub: HubResources, identify: Identifies]
     \/ part = "identity" /\ input \in Identities
     \/ part = "answer" /\ \E class \in Classes: \E v \in Varied(class): input = [class |-> class, payload |-> v]
     \/ part = "client" /\ input \in Secretive2
     \/ part = "problem" /\ input \in [status: {401, 402, 403, 409, 422, 500}, body: Problems]
     \/ part = "denial" /\ input \in Denials
     \/ part = "close" /\ input \in [code: {0, 1000, 1005, 1006, 1008, 1011}, after: {-1, 0, 750, 751}, late: {0, 250, 251}]
     \/ part = "request" /\ input \in [request: Requests, status: {200, 302}]
     \/ /\ part = "context"
        /\ input \in [given: Givens, hubSession: {"old", "s1", "hub"},
                      base: {Context(t, x): t \in Partial({"request_id", "correlation_id", "session_id"}, {"old"}), x \in Sessions},
                      extra: {Context(t, x): t \in {<<>>, "request_id" :> "new"},
                                x \in Partial({"session_id", "lang", "converse_handlers"}, {"new"})}]
     \/ part = "usual" /\ input \in [tag: LanguageTags, lower: BOOLEAN]
Check == ~checked /\ checked' = TRUE /\ UNCHANGED <<part, input>>
AlgorithmsSpec == AlgorithmsInit /\ [][Check]_<<part, input, checked>>

(* The wire formats are read as they were written: see Wire.                   *)
WireIsRead ==
  checked =>
    /\ part = "frame" => FrameIsRead(input)
    /\ part = "encoded" => EncodedIsRead(input.type, input.metadata, input.payload)
    /\ part = "envelope" => EnvelopeIsKept(input)

(* Languages are matched as OVOS matches them: see Languages.                  *)
LanguagesAreMatched ==
  checked =>
    /\ part = "closest" => ClosestIsClosest(input.target, input.hub)
    /\ part = "usual" => UsualIsNear(input.tag, input.lower)

(* What a person is shown of a pattern: see Phrases.                           *)
SentencesAreShown ==
  checked =>
    /\ part = "pattern" => PatternIsResolved(input)
    /\ part = "examples" => ExamplesAreWorthShowing(input.phrases, input.limit, input.sentence)

(* The hub a node dials is the one it was given: see Hubs.                     *)
HubIsDialled ==
  checked =>
    /\ part = "hub" => BootstrapIsDialled(input.hub, input.identify)
    /\ part = "identity" => SavedIsDialledTheSame(input)

(* What the API says is read, kept and shown as it says it: see Answers.       *)
AnswersAreRead ==
  checked =>
    /\ part = "answer" => AnswerIsRead(input.class, input.payload)
    /\ part = "client" => ScrubbedIsClean(input)

(* What a hub or the API refused is read as it said it: see Answers.           *)
RefusalsAreRead ==
  checked =>
    /\ part = "problem" => ProblemIsRead(input.status, input.body)
    /\ part = "denial" => DenialIsRead(input)
    /\ part = "close" => CloseIsRead(input.code, input.after, input.late)
    /\ part = "request" => SendIsGuarded(input.request, input.status)

(* An event is read as of the request it answers: see Correlation.             *)
EventsBelong ==
  checked /\ part = "context" => EventsAreCorrelated(input.given, input.base, input.extra, input.hubSession, "other")

(* What the hub, the API and the identity file say is read as they said it, and*)
(* the hub that is dialled is the one they name; what a person is shown of a   *)
(* hub is in the closest language and worth showing (_wire.py, control.py,     *)
(* errors.py, events.py, identity.py, protocols.py, _language.py, listing.py:  *)
(* see Wire, Answers, Correlation, Hubs, Languages and Phrases).               *)
SaidIsRead ==
  /\ WireIsRead /\ AnswersAreRead /\ RefusalsAreRead /\ EventsBelong /\ HubIsDialled
  /\ LanguagesAreMatched /\ SentencesAreShown

(* What a bootstrap reports as its endpoint is what a client of its identity   *)
(* dials.                                                                      *)
ReportedIsDialled == checked /\ part = "hub" => SelectedIsDialled(input.hub, input.identify)

(* identity.as_dict() "when persisting an identity file" keeps the protocols.  *)
SavedIdentityIsTheSame == checked /\ part = "identity" => SavedKeepsProtocols(input)

-----------------------------------------------------------------------------
(* The stateful parts.                                                         *)
CONSTANTS enUS, enus, enCA, frFR, de
MCTags == {enUS, enus, enCA, frFR, de}
MCLanguage == enUS :> 1 @@ enus :> 1 @@ enCA :> 2 @@ frFR :> 3 @@ de :> 4
MCBase == enUS :> "en" @@ enus :> "en" @@ enCA :> "en" @@ frFR :> "fr" @@ de :> "de"
MCUsual == enUS :> enus @@ enus :> NoTag @@ enCA :> enus @@ frFR :> NoTag @@ de :> NoTag
MCAsked == {<<a>>: a \in MCTags} \cup
           {p \in {<<a, b>>: a, b \in MCTags}: MCLanguage[p[1]] # MCLanguage[p[2]]} \cup
           {<<de, enCA, enUS>>, <<enCA, enUS, frFR>>, <<enUS, enCA, de>>}
MCContents == {c \in [MCTags -> {"none", "names", "sentences"}]: SpeltOnce(c)}
MCKnows == 1 :> "defs" @@ 2 :> "none" @@ 3 :> "defs" @@ 4 :> "defs"
MCQueries == {[single |-> TRUE, wanted |-> <<1>>], [single |-> TRUE, wanted |-> <<2>>],
              [single |-> FALSE, wanted |-> <<1>>], [single |-> FALSE, wanted |-> <<2, 1>>],
              [single |-> FALSE, wanted |-> <<1, 2, 3>>], [single |-> FALSE, wanted |-> <<2, 3, 1, 4>>]}

vars == <<part, input, checked, listingVars, queryVars, handlerVars, loopVars>>
HubInit ==
  /\ \/ AlgorithmsInit
     \/ part \in {"listing", "query", "handlers", "loops"} /\ input = {} /\ checked = FALSE
  /\ HandlerInit /\ LoopInit
  /\ IF part = "listing" THEN ListingInit
     ELSE /\ asked = <<de>> /\ content = [t \in Tags |-> "none"]
          /\ i = 1 /\ step = "first" /\ rows = Unlisted(de) /\ listed = <<>> /\ answered = <<>>
          /\ hubRows = "unasked" /\ source = "intent-manifest" /\ failures = {}
  /\ QueryInit /\ (part # "query" => query = CHOOSE c \in Queries: TRUE)
HubNext ==
  \/ part = "listing" /\ ListingNext /\ UNCHANGED <<part, input, checked, queryVars, handlerVars, loopVars>>
  \/ part = "query" /\ QueryNext /\ UNCHANGED <<part, input, checked, listingVars, handlerVars, loopVars>>
  \/ part = "handlers" /\ HandlerNext /\ UNCHANGED <<part, input, checked, listingVars, queryVars, loopVars>>
  \/ part = "loops" /\ LoopNext /\ UNCHANGED <<part, input, checked, listingVars, queryVars, handlerVars>>
  \/ part \notin {"listing", "query", "handlers", "loops"} /\ Check
     /\ UNCHANGED <<listingVars, queryVars, handlerVars, loopVars>>
HubSpec == HubInit /\ [][HubNext]_vars
=============================================================================
