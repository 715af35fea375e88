------------------------- MODULE ConversationMemory -------------------------
(* What a client carries from one turn of a conversation to the next           *)
(* (src/thalovant/client.py 1660-1748, with the calls of it at 1968-1991 and   *)
(* 2198-2209): the state the hub's handled frame left, filed under every id    *)
(* that reaches the conversation, bounded in ids and in conversations.         *)
(*                                                                             *)
(* A conversation has an id of the caller's and others the hub answers under.  *)
(* A turn is asked under one of them, is replied to, and may have its handled  *)
(* frame before the reply, between, or within the grace window after it.       *)
EXTENDS Naturals, Sequences, SequencesExt, FiniteSets

CONSTANTS Turns,          \* the asks of a behaviour
          Ids,            \* session ids, and the absence of one
          Conversations,
          ConversationOf, \* the conversation each id belongs to
          OwnIds,         \* those the callers began with
          Steady,         \* conversations the hub answers under one id
          MaxAliases,     \* MAX_CONVERSATION_ALIASES
          MaxRemembered,  \* MAX_REMEMBERED_CONVERSATIONS
          Nothing

ASSUME MemoryShape ==
  /\ ConversationOf \in [Ids -> Conversations]
  /\ OwnIds \subseteq Ids /\ Steady \subseteq Conversations
  /\ Nothing \notin Turns \cup Ids \cup Conversations
  /\ MaxAliases \in Nat /\ MaxAliases >= 3
  /\ MaxRemembered \in Nat \ {0}

VARIABLES
  memory,    \* _conversations: groups of ids with a turn's state, oldest first
  turn,      \* each turn: "new", "asked", "replied", "over"
  under,     \* the id it was asked under
  filed,     \* the ids its state was filed under: handled_session
  kept,      \* whether the hub left it a state to carry
  returned,  \* the id its caller was handed
  owed,      \* history: turns whose handled frame is to come, in the order asked
  latest,    \* history: the last turn of each conversation that was handled
  recency,   \* history: conversations in the order of their last use
  evicted    \* history: turns whose state was dropped for want of room

turnVars == <<turn, under, filed, kept, returned>>
recordVars == <<owed, latest, recency, evicted>>
memoryVars == <<memory, turnVars, recordVars>>

IdsOf(c) == {i \in Ids : ConversationOf[i] = c}
Of(t) == ConversationOf[under[t]]

Group == [ids : Seq(Ids), turn : Turns]

MemoryTypeOK ==
  /\ memory \in Seq(Group) /\ Len(memory) <= MaxRemembered
  /\ \A n \in 1..Len(memory) : Len(memory[n].ids) \in 1..MaxAliases
  /\ turn \in [Turns -> {"new", "asked", "replied", "over"}]
  /\ under \in [Turns -> Ids \cup {Nothing}]
  /\ filed \in [Turns -> Seq(Ids)] /\ kept \in [Turns -> BOOLEAN]
  /\ returned \in [Turns -> Ids \cup {Nothing}]
  /\ owed \in Seq(Turns) /\ recency \in Seq(Conversations)
  /\ latest \in [Conversations -> Turns \cup {Nothing}]
  /\ evicted \subseteq Turns

MemoryInit ==
  /\ memory = << >> /\ owed = << >> /\ recency = << >> /\ evicted = {}
  /\ turn = [t \in Turns |-> "new"]
  /\ under = [t \in Turns |-> Nothing]
  /\ filed = [t \in Turns |-> << >>]
  /\ kept = [t \in Turns |-> FALSE]
  /\ returned = [t \in Turns |-> Nothing]
  /\ latest = [c \in Conversations |-> Nothing]

-----------------------------------------------------------------------------
(* The store.                                                                  *)

\* A sequence without what a set does not hold, in its order.
Only(s, S) ==
  LET upto[n \in 0..Len(s)] ==
        IF n = 0 THEN << >> ELSE IF s[n] \in S THEN Append(upto[n - 1], s[n]) ELSE upto[n - 1]
  IN upto[Len(s)]

\* Names, and after them those of more that are not among them yet.
Joined(names, more) ==
  LET upto[n \in 0..Len(more)] ==
        IF n = 0 THEN names
        ELSE IF more[n] \in ToSet(upto[n - 1]) THEN upto[n - 1] ELSE Append(upto[n - 1], more[n])
  IN upto[Len(more)]

Once(ids) == Joined(<< >>, ids)

Reached(mem, K) == {g \in ToSet(mem) : ToSet(g.ids) \cap K # {}}
Holder(mem, i) == CHOOSE g \in Reached(mem, {i}) : TRUE
Siblings(mem, i) == IF Reached(mem, {i}) = {} THEN << >> ELSE Holder(mem, i).ids

\* mutant: only the ids of this turn are taken over, not their siblings.
SiblingsStay(mem, ids) ==
  LET left == [n \in 1..Len(mem) |-> [mem[n] EXCEPT !.ids = Only(@, Ids \ ToSet(ids))]] IN
  Only(left, {g \in ToSet(left) : g.ids # << >>})

\* The groups a set of ids does not reach stay, whole.
Others(mem, ids) == Only(mem, ToSet(mem) \ Reached(mem, ToSet(ids)))

\* mutant: the names inherited come before those of this turn.
InheritedFirst(mem, ids) ==
  LET upto[n \in 0..Len(ids)] ==
        IF n = 0 THEN << >> ELSE Joined(upto[n - 1], Siblings(mem, ids[n]))
  IN Joined(upto[Len(ids)], ids)

\* This turn's ids first, then, id by id, those of the groups they reach.
Names(mem, ids) ==
  LET upto[n \in 0..Len(ids)] ==
        IF n = 0 THEN Once(ids) ELSE Joined(upto[n - 1], Siblings(mem, ids[n]))
  IN upto[Len(ids)]

FirstOf(s, n) == SubSeq(s, 1, IF Len(s) < n THEN Len(s) ELSE n)

LastOf(s, n) == SubSeq(s, IF Len(s) < n THEN 1 ELSE Len(s) - n + 1, Len(s))

(* _remember_conversation(): a state to carry replaces whatever its ids reach; *)
(* a turn that left none makes them forget.                                    *)
Remembered(mem, ids, t, carries) ==
  IF ~carries THEN Others(mem, ids)
  ELSE LastOf(Append(Others(mem, ids),
                     [ids |-> FirstOf(Names(mem, ids), MaxAliases), turn |-> t]),
              MaxRemembered)

\* mutant: looking a conversation up does not renew it.
NotRenewed(mem, i) == mem

\* _continue_conversation(): the conversation looked up becomes the youngest.
Renewed(mem, i) ==
  Others(mem, <<i>>) \o Only(mem, Reached(mem, {i}))

Lookup(mem, i) == IF Reached(mem, {i}) = {} THEN Nothing ELSE Holder(mem, i).turn

TurnsOf(mem) == {g.turn : g \in ToSet(mem)}
UsedNow(c) == recency' = Append(Only(recency, Conversations \ {c}), c)

File(t, ids, carries) ==
  /\ memory' = Remembered(memory, ids, t, carries)
  /\ evicted' = (evicted \ {t}) \cup (TurnsOf(Others(memory, ids)) \ TurnsOf(memory'))
  /\ UsedNow(Of(t))

-----------------------------------------------------------------------------
\* What the hub may answer under: for a steady conversation an id of its own, in
\* the handled frame and the reply alike, or the one it was asked under.
AnswerIds(c) == IF c \in Steady /\ ~(IdsOf(c) \subseteq OwnIds) THEN IdsOf(c) \ OwnIds ELSE IdsOf(c)

ASSUME SteadyShape == \A c \in Steady : \A i, j \in AnswerIds(c) : i = j

\* The ids a caller may use for a conversation: its own, or one it was handed.
Callable(i) == i \in OwnIds \/ \E t \in Turns : returned[t] = i

NoLongerOwed(t) == Only(owed, Turns \ {t})

(* _ask_reserved(): the turn is sent with what the last one left.  Where the   *)
(* hub answers under several ids, a caller waits for the reply before the next *)
(* turn: a reply files its state a second time, over that of a later turn.     *)
Ask(t, i) ==
  /\ turn[t] = "new" /\ Callable(i)
  /\ \/ ConversationOf[i] \in Steady
     \/ \A s \in Turns : turn[s] = "asked" => Of(s) # ConversationOf[i]
  /\ turn' = [turn EXCEPT ![t] = "asked"]
  /\ under' = [under EXCEPT ![t] = i]
  /\ memory' = Renewed(memory, i)
  /\ owed' = Append(owed, t)
  /\ IF Lookup(memory, i) = Nothing THEN UNCHANGED recency ELSE UsedNow(ConversationOf[i])
  /\ UNCHANGED <<filed, kept, returned, latest, evicted>>

(* The handled frame: filed under the id of the request, the one the hub       *)
(* answered with, if any, and the one the caller already holds.  The hub ends  *)
(* the turns of one conversation in the order it was asked them.               *)
HandledFrame(t, answered, carries) ==
  /\ turn[t] \in {"asked", "replied"} /\ filed[t] = << >>
  /\ \E n \in 1..Len(owed) : owed[n] = t /\ \A k \in 1..(n - 1) : Of(owed[k]) # Of(t)
  /\ LET keys == Once(<<under[t]>> \o answered
                      \o IF returned[t] = Nothing THEN << >> ELSE <<returned[t]>>) IN
     /\ filed' = [filed EXCEPT ![t] = keys]
     /\ File(t, keys, carries)
  /\ kept' = [kept EXCEPT ![t] = carries]
  /\ latest' = [latest EXCEPT ![Of(t)] = t]
  /\ owed' = NoLongerOwed(t)
  /\ UNCHANGED <<turn, under, returned>>

(* The reply: its caller is handed the first session id the hub answered with, *)
(* and a state already filed is filed under that id too.                       *)
Reply(t, i) ==
  /\ turn[t] = "asked"
  /\ turn' = [turn EXCEPT ![t] = "replied"]
  /\ returned' = [returned EXCEPT ![t] = i]
  /\ IF filed[t] # << >> /\ ~Contains(filed[t], i)
     THEN File(t, Append(filed[t], i), kept[t])
     ELSE UNCHANGED <<memory, recency, evicted>>
  /\ UNCHANGED <<under, filed, kept, owed, latest>>

(* The grace window of a reply ends, and its handled frame came within it; or  *)
(* a turn ends without a reply.                                                *)
TurnEnds(t) ==
  /\ turn[t] = "asked" \/ (turn[t] = "replied" /\ filed[t] # << >>)
  /\ turn' = [turn EXCEPT ![t] = "over"]
  /\ filed' = [filed EXCEPT ![t] = << >>]
  /\ owed' = NoLongerOwed(t)
  /\ UNCHANGED <<memory, under, kept, returned, latest, recency, evicted>>

MemoryNext ==
  \E t \in Turns :
    \/ \E i \in Ids : Ask(t, i)
    \/ turn[t] # "new" /\ \E i \in AnswerIds(Of(t)) :
         \/ Reply(t, i)
         \/ \E carries \in BOOLEAN : HandledFrame(t, <<i>>, carries)
    \/ turn[t] # "new" /\ Of(t) \notin Steady
         /\ \E carries \in BOOLEAN : HandledFrame(t, << >>, carries)
    \/ TurnEnds(t)

MemorySpec == MemoryInit /\ [][MemoryNext]_memoryVars

-----------------------------------------------------------------------------
(* Properties                                                                  *)

(* Whatever id a turn is asked under, it carries the state of the last turn of *)
(* that conversation or none: never another conversation's, and, where the hub *)
(* answers under one id, never an older one under a name left behind (client.py*)
(* 1686-1702).                                                                 *)
NeverStale ==
  \A n \in 1..Len(memory) :
    LET C == {ConversationOf[i] : i \in ToSet(memory[n].ids)} IN
    \E c \in C : /\ C = {c} /\ Of(memory[n].turn) = c
                 /\ c \in Steady => memory[n].turn = latest[c] /\ kept[latest[c]]

(* The id a caller was handed reaches what its turn left, as does the one it   *)
(* asked under, until another turn is handled or room is needed (2198-2203).   *)
ReturnedIdReaches ==
  \A t \in Turns :
    (/\ turn[t] = "replied" /\ filed[t] # << >> /\ kept[t]
     /\ latest[Of(t)] = t /\ t \notin evicted)
    => Lookup(memory, returned[t]) = t /\ Lookup(memory, under[t]) = t

(* What is dropped for want of room is the conversation used least recently,   *)
(* whichever of its names it was used by (1739-1743).                          *)
LeastRecentGoes ==
  \A m, n \in 1..Len(memory) :
    LET c == Of(memory[m].turn)   d == Of(memory[n].turn) IN
    m < n /\ {c, d} \subseteq Steady =>
      \E k, l \in 1..Len(recency) : k < l /\ recency[k] = c /\ recency[l] = d

(* The memory is true: what a turn carries is the last state of its own        *)
(* conversation, it is there under the id its caller was handed, and what goes *)
(* for want of room is what was used least recently (1660-1748).               *)
MemoryIsTrue == NeverStale /\ ReturnedIdReaches /\ LeastRecentGoes
=============================================================================
