--------------------------------- MODULE Languages ------------------------------
(* Language matching (src/thalovant/_language.py): tags are sequences of       *)
(* subtags in lower case, the tables are CONSTANTS with CLDR's entries.        *)
EXTENDS Integers, Sequences, Functions

CONSTANTS Aliases,        \* tags to the tags they are read as
          Scripts,        \* subtags that are scripts
          Regions,        \* subtags that are regions, to the region they name
          DefaultScript,  \* language -> script
          Macro,          \* language -> macrolanguage
          Likely,         \* <<language, script, region>> -> the same, complete; "" is absent
          Distances,      \* <<wanted, candidate>> -> distance, each a <<language>> or a <<language, script>>
          Groups          \* "US", "MAGHREB", ... -> regions

ASSUME DistancesAre == \A pair \in DOMAIN Distances: Distances[pair] \in Nat

At(table, key, otherwise) == IF key \in DOMAIN table THEN table[key] ELSE otherwise

Triple(language, script, region) == [language |-> language, script |-> script, region |-> region]

(* _parse(): subtags after the language, until an extension's single letter.   *)
Subtags(tokens) ==
  LET singles == {i \in 2..Len(tokens): tokens[i] \in {"x", "u", "t"}}
  IN SubSeq(tokens, 2, IF singles = {} THEN Len(tokens) ELSE (CHOOSE i \in singles: \A j \in singles: i <= j) - 1)

LastKind(tokens, kind, otherwise) ==
  LET those == {i \in DOMAIN tokens: tokens[i] \in kind}
  IN IF those = {} THEN otherwise ELSE tokens[CHOOSE i \in those: \A j \in those: j <= i]

Assembled(base, tokens, onlyScripts) ==
  LET script == LastKind(tokens, Scripts, base.script)
      region == LastKind(tokens, DOMAIN Regions, "")
      kept == IF script = At(DefaultScript, base.language, "?") THEN "" ELSE script
      placed == IF region = "" THEN base.region ELSE Regions[region]
  IN Triple(base.language, kept,
            IF base.language = "pt" /\ kept = "" /\ placed = "" /\ onlyScripts THEN "pt" ELSE placed)

Plain(tokens) == Assembled(Triple(tokens[1], "", ""), Subtags(tokens), \A i \in 2..Len(tokens): tokens[i] \in Scripts)

Parsed(tag) ==
  LET tokens == At(Aliases, tag, tag)
      base == IF <<tokens[1]>> \in DOMAIN Aliases THEN Plain(Aliases[<<tokens[1]>>]) ELSE Triple(tokens[1], "", "")
  IN Assembled(base, Subtags(tokens), \A i \in 2..Len(tokens): tokens[i] \in Scripts)

ProbesOf(t) ==
  <<<<t.language, t.script, t.region>>, <<t.language, "", t.region>>, <<t.language, t.script, "">>, <<t.language, "", "">>>>
  \o (IF t.script = "" THEN <<>> ELSE <<<<"und", t.script, "">>>>) \o <<<<"und", "", "">>>>

(* _maximize(): the first probe CLDR knows fills what is missing.              *)
Maximized(tag) ==
  IF tag = Triple("und", "", "") THEN Triple("und", "zzzz", "zz")
  ELSE LET t == [tag EXCEPT !.language = At(Macro, @, @)]
           found == Likely[SelectSeq(ProbesOf(t), LAMBDA p: p \in DOMAIN Likely)[1]]
       IN Triple(IF t.language = "und" THEN found[1] ELSE t.language,
                 IF t.script = "" THEN found[2] ELSE t.script, IF t.region = "" THEN found[3] ELSE t.region)

Inside(group, region) == region \in Groups[group]

RegionDistance(a, b) ==
  LET differ(group) == Inside(group, a.region) # Inside(group, b.region)
  IN IF a.language # b.language \/ a.script # b.script THEN 4
     ELSE IF a.language = "ar" THEN (IF differ("MAGHREB") THEN 5 ELSE 4)
     ELSE IF a.language = "en"
     THEN IF \/ a.region = "gb" /\ ~Inside("US", b.region)
             \/ b.region = "gb" /\ ~Inside("US", a.region) THEN 3
          ELSE IF differ("US") THEN 5 ELSE 4
     ELSE IF Inside("LATIN_AMERICA", a.region) /\ b.region = "419" THEN 1
     ELSE IF a.language \in {"es", "pt"} THEN (IF differ("AMERICAS") THEN 5 ELSE 4)
     ELSE IF a.language = "zh" /\ a.script = "hant" THEN (IF differ("CNSAR") THEN 5 ELSE 4)
     ELSE 4

Apart(a, b) ==
  (IF a.language = b.language THEN 0 ELSE At(Distances, <<<<a.language>>, <<b.language>>>>, 80))
  + (IF a.script = b.script THEN 0
     ELSE At(Distances, <<<<a.language, a.script>>, <<b.language, b.script>>>>, 50))
  + (IF a.region = b.region THEN 0 ELSE RegionDistance(a, b))

LangDistance(wanted, candidate) == Apart(Maximized(Parsed(wanted)), Maximized(Parsed(candidate)))

MaxDistance == 10
NONE == <<>>

NearEnough(target, best) ==
  IF best = NONE THEN NONE ELSE IF LangDistance(target, best) > MaxDistance THEN NONE ELSE best

\* mutant: the last of the nearest.
NearerOrLater(target, kept, c) ==
  IF kept = NONE THEN c ELSE IF LangDistance(target, c) <= LangDistance(target, kept) THEN c ELSE kept

(* closest_lang(): one candidate after another, the nearer one is kept; it is  *)
(* the answer when it is near enough.                                          *)
Nearer(target, kept, c) ==
  IF kept = NONE THEN c ELSE IF LangDistance(target, c) < LangDistance(target, kept) THEN c ELSE kept

ClosestLang(target, available) ==
  LET best[n \in 0..Len(available)] == IF n = 0 THEN NONE ELSE Nearer(target, best[n - 1], available[n])
  IN NearEnough(target, best[Len(available)])

(* usual_form() of a tag spelled in lower case, or not.                        *)
HasLikely(base) == {<<base, "", "">>, <<At(Macro, base, "?"), "", "">>} \cap DOMAIN Likely # {}

UsualAs(base) == IF base = "und" \/ ~HasLikely(base) THEN NONE ELSE <<base, Maximized(Triple(base, "", "")).region>>

UsualForm(tag, lower) ==
  IF lower /\ tag = UsualAs(Parsed(tag).language) THEN NONE ELSE UsualAs(Parsed(tag).language)

-----------------------------------------------------------------------------
(* The nearest of the hub's languages is chosen, the first on a tie, and never *)
(* one too far; a language the hub has is never passed over for another        *)
(* (146-166).                                                                  *)
ClosestIsClosest(target, available) ==
  \A found \in {ClosestLang(target, available)}:
  \A near \in {[c \in Range(available) |-> LangDistance(target, c)]}:
     /\ found # NONE => \E i \in DOMAIN available:
          /\ available[i] = found /\ near[found] <= MaxDistance
          /\ \A j \in DOMAIN available: near[found] <= near[available[j]] /\ (j < i => near[found] < near[available[j]])
     /\ found = NONE => \A j \in DOMAIN available: near[available[j]] > MaxDistance
     /\ target \in Range(available) => found # NONE /\ near[found] = 0

(* The usual form of a tag is of its language, near enough to be understood    *)
(* when the language is usually written in the tag's script, and has no usual  *)
(* form but itself, so a listing is retried once (169-198).                    *)
UsualIsNear(tag, lower) ==
  \A usual \in {UsualForm(tag, lower)} \ {NONE}:
    /\ Parsed(usual).language = Parsed(tag).language
    /\ Maximized(Parsed(usual)).script = Maximized(Parsed(tag)).script => LangDistance(tag, usual) <= MaxDistance
    /\ UsualForm(usual, TRUE) = NONE
=============================================================================
