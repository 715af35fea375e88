------------------------------- MODULE HubListing -------------------------------
(* _inventory() (src/thalovant/intents.py 615-639, 815-833, 941-1195): what a hub can   *)
(* be asked, in each language a caller named.  A hub lists under the exact     *)
(* tags it loaded; a language it lists no sentence for is retried in its usual *)
(* form, then in the nearest of the languages the hub has, so the answer names *)
(* the tag it came from.  A request is answered, times out, is denied by the   *)
(* hub's policy, or refused.  Of a listing the model keeps whether it holds    *)
(* names and whether it holds sentences.                                       *)
EXTENDS Naturals, Sequences, FiniteSets

CONSTANTS Tags, NoTag,
          LanguageOf,   \* tags of one language differ in spelling (same_language)
          BaseOf,       \* and the regions of a language share a base
          UsualOf,      \* usual_form, or NoTag
          Asked,        \* the tags of a call: no two of one language
          Contents,     \* what hubs list: tag -> "none", "names" or "sentences"
          SessionTag    \* the language a hub stamps on a session, or NoTag

ASSUME ListingShape ==
  /\ NoTag \notin Tags /\ SessionTag \in Tags \cup {NoTag}
  /\ \A t \in Tags: UsualOf[t] \in (Tags \cup {NoTag}) \ {t}
  \* The usual form is of the language, however it is spelled.
  /\ \A s, t \in Tags: UsualOf[t] \in Tags /\ LanguageOf[s] = LanguageOf[UsualOf[t]] =>
       s = UsualOf[t] \/ UsualOf[s] = UsualOf[t]
  /\ \A s, t \in Tags: LanguageOf[s] = LanguageOf[t] => BaseOf[s] = BaseOf[t]
  /\ Asked \subseteq Seq(Tags) \ {<<>>}
  /\ \A a \in Asked: \A m, n \in 1..Len(a): m # n => LanguageOf[a[m]] # LanguageOf[a[n]]
  /\ Contents \subseteq [Tags -> {"none", "names", "sentences"}]

VARIABLES
  asked, content,   \* the call, and the hub it is made to
  i, step,          \* the language under way, and the request it waits for
  rows,             \* [kind, of]: the rows it would take, and the tag they are of
  listed, answered, \* rows by key; the key of each language
  hubRows,          \* the listing without a language: "unasked", "failed", "known"
  source,           \* "intent-manifest", "engine-manifests"
  failures          \* which requests failed, and how

listingVars == <<asked, content, i, step, rows, listed, answered, hubRows, source, failures>>

Kinds == <<"none", "names", "sentences">>
Rank(kind) == CHOOSE n \in 1..3: Kinds[n] = kind
SameLanguage(s, t) == LanguageOf[s] = LanguageOf[t]
Unlisted(tag) == [kind |-> "none", of |-> tag]

\* A hub that spells each language in one way.
SpeltOnce(c) == \A s, t \in Tags: SameLanguage(s, t) /\ s # t => c[s] = "none" \/ c[t] = "none"

ListingInit ==
  /\ asked \in Asked /\ content \in Contents /\ i = 1 /\ step = "first" /\ rows = Unlisted(asked[1])
  /\ listed = <<>> /\ answered = <<>> /\ hubRows = "unasked" /\ source = "intent-manifest" /\ failures = {}

(* _list_intents(), or any other query: an answer, or how it failed.           *)
Fails(request, how) == failures' = failures \cup {<<request, how>>}
Answered == UNCHANGED failures
Call == <<asked, content>>

(* nearest_hub_language(): the same language or region, then the hub's own,    *)
(* then one with the most sentences; closest_lang() breaks ties by order.      *)
Candidates == {t \in Tags: content[t] = "sentences"}
Closest(tag) ==
  LET same == {t \in Candidates: SameLanguage(t, tag)}
  IN IF same # {} THEN same ELSE {t \in Candidates: BaseOf[t] = BaseOf[tag]}
Nearest(tag) ==
  IF Closest(tag) # {} THEN Closest(tag)
  ELSE IF SessionTag # NoTag /\ Closest(SessionTag) # {} THEN Closest(SessionTag) ELSE Candidates

(* The listing in one language is settled, and the next is asked.              *)
Take(taken) ==
  LET seen == {t \in DOMAIN listed: SameLanguage(t, taken.of)}
      key == IF seen = {} THEN taken.of ELSE CHOOSE t \in seen: TRUE
  IN /\ listed' = [t \in DOMAIN listed \cup {key} |-> IF t = key THEN taken ELSE listed[t]]
     /\ answered' = Append(answered, key)
     /\ IF i < Len(asked) THEN i' = i + 1 /\ step' = "first" /\ rows' = Unlisted(asked[i + 1])
        ELSE step' = "describe" /\ UNCHANGED <<i, rows>>
     /\ UNCHANGED <<Call, source>>


CanCarrySentences(taken) == taken.kind = "sentences"

Waits(request, taken) == step' = request /\ rows' = taken /\ UNCHANGED <<Call, i, listed, answered, source>>

(* What follows a listing that cannot carry a sentence: the hub's languages,   *)
(* asked once for all.                                                         *)
AfterRetry(taken) ==
  IF CanCarrySentences(taken) \/ (hubRows = "known" /\ Candidates = {}) \/ hubRows = "failed" THEN Take(taken)
  ELSE IF hubRows = "known"
       THEN \E t \in Nearest(asked[i]): Take([kind |-> content[t], of |-> t])
       ELSE Waits("hub", taken)

(* A denial or a silence before anything else: the engines' own manifests.     *)
ToEngines == step' = "engines" /\ UNCHANGED <<Call, i, rows, listed, answered, source>>
Raises == step' = "raised" /\ UNCHANGED <<Call, i, rows, listed, answered, source>>

FirstFails(how) ==
  Fails("list", how) /\ UNCHANGED hubRows /\ IF how = "refused" THEN Raises ELSE ToEngines

First ==
  /\ step = "first"
  /\ \/ /\ Answered /\ UNCHANGED hubRows
        /\ LET taken == [kind |-> content[asked[i]], of |-> asked[i]]
           IN IF CanCarrySentences(taken) THEN Take(taken)
              ELSE IF UsualOf[asked[i]] # NoTag THEN Waits("usual", taken) ELSE AfterRetry(taken)
     \/ \E how \in {"timeout", "denied", "refused"}: FirstFails(how)

\* mutant: what the usual form lists replaces what there was.
RetryAlwaysTaken(retried) == retried

BetterOf(retried) ==
  IF CanCarrySentences(retried) \/ (retried.kind # "none" /\ rows.kind = "none") THEN retried ELSE rows

(* A retry that fails leaves the names there were; only with none it fails all.*)
Retried ==
  /\ step = "usual" /\ UNCHANGED hubRows
  /\ \/ /\ Answered
        /\ LET t == UsualOf[asked[i]] IN AfterRetry(BetterOf([kind |-> content[t], of |-> t]))
     \/ \E how \in {"timeout", "denied", "refused"}:
          IF rows.kind = "none" THEN FirstFails(how) ELSE Fails("usual", how) /\ AfterRetry(rows)

(* _list_hub_languages(): any failure leaves the answer as it is.              *)
HubAnswers ==
  /\ step = "hub"
  /\ \/ /\ Answered /\ hubRows' = "known"
        /\ IF Candidates = {} THEN Take(rows)
           ELSE \E t \in Nearest(asked[i]): Take([kind |-> content[t], of |-> t])
     \/ \E how \in {"timeout", "denied", "refused"}: Fails("hub", how) /\ hubRows' = "failed" /\ Take(rows)

Rest == UNCHANGED <<Call, i, rows, listed, answered, hubRows>>

(* _intent_names(): both engines answer, or the failure is the caller's.       *)
Engines ==
  /\ step = "engines" /\ Rest
  /\ \/ Answered /\ source' = "engine-manifests" /\ step' = "done"
     \/ \E how \in {"timeout", "denied"}: Fails("engines", how) /\ step' = "raised" /\ UNCHANGED source

(* _describe_many() of every template row without its definition.              *)
Describe ==
  /\ step = "describe" /\ Rest /\ UNCHANGED source
  /\ \/ Answered /\ step' = "done"
     \/ /\ \E t \in DOMAIN listed: listed[t].kind = "sentences"
        /\ \E how \in {"timeout", "denied"}: Fails("describe", how) /\ step' = "raised"

ListingNext == First \/ Retried \/ HubAnswers \/ Engines \/ Describe
ListingSpec == ListingInit /\ [][ListingNext]_listingVars

-----------------------------------------------------------------------------
FromManifest == step = "done" /\ source = "intent-manifest"

(* listed_in says where the sentences are from: the rows under a key are of    *)
(* its language, and a language is listed under one key (1121-1125).  What a   *)
(* hub listed in a language is never exchanged for less, neither by its retry  *)
(* nor by the listing of another language that shares its key (1084-1095,      *)
(* 1111-1125); and whenever each request of the call was answered a person is  *)
(* shown sentences, in a tag the answer names, if the hub has one in any       *)
(* language (1058-1120).                                                       *)
TagsAreTrue ==
  /\ \A t \in DOMAIN listed: SameLanguage(listed[t].of, t)
  /\ \A s, t \in DOMAIN listed: SameLanguage(s, t) => s = t

NeverLess == \A n \in 1..Len(asked):
  /\ Rank(listed[answered[n]].kind) >= Rank(content[asked[n]])
  /\ listed[answered[n]].kind = "names" => content[asked[n]] = "names" \/ content[UsualOf[asked[n]]] = "names"

SentencesAreFound ==
  failures = {} /\ Candidates # {} => \A n \in 1..Len(asked): listed[answered[n]].kind = "sentences"

ListingIsTrue == TagsAreTrue /\ (FromManifest => NeverLess /\ SentencesAreFound)
=============================================================================
