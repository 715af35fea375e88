---------------------------------- MODULE Phrases -------------------------------
(* From the patterns skills register to sentences a person can say: speakable()*)
(* and HubIntent.examples() (src/thalovant/intents.py 100-172, 299-340), rank()*)
(* and as_sentence() (src/thalovant/listing.py).  A pattern is a sequence of   *)
(* tokens: words, slots, marks and the brackets ( ) [ ] |.                     *)
EXTENDS Naturals, Sequences, SequencesExt, FiniteSetsExt

CONSTANTS Slots,       \* tokens that are slots
          SlotWord,    \* what each becomes: an example, or its own name
          Trailing,    \* trailing_words: what a prefix waiting for an entity ends on
          Openers,     \* words a question opens with
          Marks        \* the marks a sentence ends on

-----------------------------------------------------------------------------
Parts(inside) ==
  FoldLeft(LAMBDA done, t: IF t = "|" THEN Append(done, <<>>)
                           ELSE [done EXCEPT ![Len(done)] = Append(@, t)], <<<<>>>>, inside)

(* _choose_branch(): the first alternative, or nothing when one is optional.   *)
FirstPart(parts, real) ==
  IF real = <<>> \/ (Len(real) < Len(parts) /\ Len(real) = 1) THEN <<>> ELSE real[1]
ChosenBranch(inside) == FirstPart(Parts(inside), SelectSeq(Parts(inside), LAMBDA option: option # <<>>))

Nothing(inside) == <<>>

\* mutant: a closing that closes nothing is dropped.
DropsStrays(frames, t, opening, closing, resolved) ==
  IF t = opening THEN Append(frames, <<>>)
  ELSE IF t # closing THEN [frames EXCEPT ![Len(frames)] = Append(@, t)]
  ELSE IF Len(frames) > 1 THEN [Front(frames) EXCEPT ![Len(frames) - 1] = @ \o resolved] ELSE frames

(* One token: an opening starts a frame, and a closing resolves the last one.  *)
ReadToken(frames, t, opening, closing, resolved) ==
  IF t = opening THEN Append(frames, <<>>)
  ELSE IF t = closing /\ Len(frames) > 1
  THEN [Front(frames) EXCEPT ![Len(frames) - 1] = @ \o resolved]
  ELSE [frames EXCEPT ![Len(frames)] = Append(@, t)]

(* _resolve_nested(): one pass, with a stack of the openings not yet closed.   *)
Unclosed(frames, opening) ==
  frames[1] \o FlattenSeq([n \in 1..Len(frames) - 1 |-> <<opening>> \o frames[n + 1]])

ResolvedNested(text, opening, closing, Resolve(_)) ==
  Unclosed(FoldLeft(LAMBDA read, t: ReadToken(read, t, opening, closing, Resolve(Last(read))), <<<<>>>>, text),
           opening)

Filled(text) == [n \in DOMAIN text |-> IF text[n] \in Slots THEN SlotWord[text[n]] ELSE text[n]]

Speakable(pattern) ==
  Filled(ResolvedNested(ResolvedNested(pattern, "[", "]", Nothing), "(", ")", ChosenBranch))

-----------------------------------------------------------------------------
Unmarked(text) ==
  SubSeq(text, 1, Max({0} \cup {n \in DOMAIN text: text[n] \notin Marks}))

Dangling(text) == \E word \in Trailing: IsSuffix(<<word>>, Unmarked(text))

(* as_sentence() of a language with rules: the mark it gets.                   *)
AsSentence(text) ==
  IF text = <<>> \/ Last(text) \in Marks \/ Dangling(text) THEN text
  ELSE Append(text, IF text[1] \in Openers THEN "?" ELSE ".")

(* rank(): whole sentences first, then without a slot, then the fullest up to  *)
(* eight words, then the shorter; the order given breaks ties.                 *)
Bit(b) == IF b THEN 1 ELSE 0
Before(a, b) == \E d \in 1..5: a[d] < b[d] /\ \A e \in 1..d - 1: a[e] = b[e]
Ranked(phrases) ==
  LET Key(n) == <<Bit(Dangling(phrases[n])), Bit(ToSet(phrases[n]) \cap Slots # {}),
                  8 - Min({Len(phrases[n]), 8}), Len(phrases[n]), n>>
      order == SetToSortSeq({Key(n): n \in DOMAIN phrases}, Before)
  IN [n \in DOMAIN phrases |-> phrases[order[n][5]]]

(* examples(): what is rendered, once each, up to a limit (0 for none).        *)
Rendered(phrase, sentence) == IF sentence THEN AsSentence(Speakable(phrase)) ELSE Speakable(phrase)

OneMore(shown, text, limit) ==
  IF (limit > 0 /\ Len(shown) >= limit) \/ text = <<>> \/ text \in ToSet(shown) THEN shown ELSE Append(shown, text)

Examples(phrases, limit, sentence) ==
  FoldLeft(LAMBDA shown, p: OneMore(shown, Rendered(p, sentence), limit), <<>>, Ranked(phrases))

-----------------------------------------------------------------------------
(* The innermost pair is a closing and the nearest opening before it.          *)
RECURSIVE BySubstitution(_, _)
BySubstitution(text, dropped) ==
  LET pairs == {p \in (1..Len(text)) \X (1..Len(text)): /\ p[1] < p[2] /\ text[p[1]] = "(" /\ text[p[2]] = ")"
                   /\ \A k \in p[1] + 1..p[2] - 1: text[k] \notin {"(", ")"}}
  IN IF pairs = {} THEN text
     ELSE LET p == CHOOSE p \in pairs: TRUE
              inside == SubSeq(text, p[1] + 1, p[2] - 1)
          IN BySubstitution(SubSeq(text, 1, p[1] - 1) \o (IF dropped THEN <<>> ELSE ChosenBranch(inside))
                            \o SubSeq(text, p[2] + 1, Len(text)), dropped)

(* "What repeatedly substituting the innermost pair until none is left does,   *)
(* in one pass", whatever is left unbalanced (121-148); and a person is never  *)
(* shown a bracket of a balanced pattern.                                      *)
PatternIsResolved(text) ==
  /\ ResolvedNested(text, "(", ")", ChosenBranch) = BySubstitution(text, FALSE)
  /\ ResolvedNested(text, "(", ")", Nothing) = BySubstitution(text, TRUE)

(* A limit counts what is shown: no repeat and nothing empty takes a place, and*)
(* a prefix is shown only once every whole sentence is (308-340).              *)
ExamplesAreWorthShowing(phrases, limit, sentence) ==
  \A shown \in {Examples(phrases, limit, sentence)}:
  \A worth \in {{Rendered(phrases[n], sentence): n \in DOMAIN phrases} \ {<<>>}}:
  \A whole \in {{Rendered(phrases[n], sentence): n \in {n \in DOMAIN phrases: ~Dangling(phrases[n])}} \ {<<>>}}:
     /\ ToSet(shown) \subseteq worth /\ IsInjective(shown)
     /\ Len(shown) = IF limit = 0 \/ Cardinality(worth) < limit THEN Cardinality(worth) ELSE limit
     /\ \A n \in DOMAIN shown: shown[n] \notin whole => whole \subseteq ToSet(SubSeq(shown, 1, n))
=============================================================================
