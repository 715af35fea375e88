-------------------------------- MODULE BusQuery --------------------------------
(* _request_reply() and _describe_many() (src/thalovant/intents.py 486-592,    *)
(* 697-795): bus queries over one connection.  A single query has one request; *)
(* a describe has one per registration, emitted in windows of Batch.  The hub     *)
(* answers in any order, overdue, twice or not at all, with or without the id of  *)
(* the request, or denies the query.                                           *)
EXTENDS Naturals, Sequences, SequencesExt

CONSTANTS Queries,   \* calls: [single, wanted], wanted a sequence of registrations
          Batch,     \* DESCRIBE_BATCH
          Knows      \* what a hub says of a registration: "defs" or "none"

ASSUME QueryShape ==
  /\ Batch \in Nat \ {0}
  /\ \A k \in DOMAIN Knows: Knows[k] \in {"defs", "none"}
  /\ \A c \in Queries: /\ c.single \in BOOLEAN /\ c.wanted \in Seq(DOMAIN Knows) \ {<<>>}
                       /\ IsInjective(c.wanted) /\ (c.single => Len(c.wanted) = 1)

VARIABLES
  query, waitStep,   \* the call, and what it is doing
  first, emitted,      \* the window's first registration; how many of it are asked
  foundNow, batched,   \* answers of this window, and of those before it
  listening,             \* subscriptions: "denials", "replies"
  denial,           \* the last denial kept: "none", "query", "another"
  overdue,             \* the deadline has passed
  heard             \* history: registrations whose answer came while listened for

queryVars == <<query, waitStep, first, emitted, foundNow, batched, listening, denial, overdue, heard>>

QueryInit ==
  /\ query \in Queries /\ waitStep = "connect" /\ first = 1 /\ emitted = 0 /\ foundNow = <<>> /\ batched = <<>>
  /\ listening = {} /\ denial = "none" /\ overdue = FALSE /\ heard = <<>>

LatestOf ==
  IF query.single \/ first + Batch > Len(query.wanted) THEN Len(query.wanted) ELSE first + Batch - 1
QueryWindow == [n \in 1..(LatestOf - first + 1) |-> query.wanted[first + n - 1]]
AskedFor == {QueryWindow[n]: n \in 1..emitted}
Defines(answers) == \E k \in DOMAIN answers: answers[k] = "defs"
AllFound == DOMAIN foundNow = {QueryWindow[n]: n \in 1..Len(QueryWindow)}
QueryOver == waitStep \in {"answered", "timeout", "denied", "failed"}

Steps(s) == waitStep' = s
Keeps(rest) == UNCHANGED <<query, first, heard, rest>>

(* connect(): a slow one counts against a single query's deadline.             *)
QueryConnects ==
  /\ waitStep = "connect"
  /\ \/ Steps("denials")
     \/ Steps("failed")
     \/ query.single /\ Steps("timeout")
  /\ Keeps(<<emitted, foundNow, batched, listening, denial, overdue>>)

ListensForDenials ==
  /\ waitStep = "denials" /\ Steps("replies") /\ listening' = {"denials"}
  /\ Keeps(<<emitted, foundNow, batched, denial, overdue>>)

ListensForReplies ==
  /\ waitStep = "replies" /\ Steps("send") /\ listening' = listening \cup {"replies"}
  /\ Keeps(<<emitted, foundNow, batched, denial, overdue>>)

(* emit() of each request; one that fails ends the call, subscriptions closed.  *)
EmitsQuery ==
  /\ waitStep = "send"
  /\ \/ /\ emitted' = emitted + 1 /\ Steps(IF emitted' = Len(QueryWindow) THEN "check" ELSE "send")
        /\ UNCHANGED listening
     \/ Steps("failed") /\ listening' = {} /\ UNCHANGED emitted
  /\ Keeps(<<foundNow, batched, denial, overdue>>)


(* What is left of a timeout once nothing but silence was heard.               *)
NothingHeard == ~Defines(foundNow) /\ ~Defines(batched)

\* mutant: a window's answers replace those of the windows before it.
ForgetsWindows(answers) == answers

Merged(answers) ==
  [k \in DOMAIN answers \cup DOMAIN batched |-> IF k \in DOMAIN answers THEN answers[k] ELSE batched[k]]

(* The window is over: the next begins, or the call returns what it has.       *)
WindowEnds(answers) ==
  /\ listening' = {} /\ batched' = Merged(answers) /\ emitted' = 0 /\ foundNow' = <<>> /\ overdue' = FALSE
  /\ IF LatestOf = Len(query.wanted) THEN Steps("answered") /\ UNCHANGED <<first, denial>>
     ELSE Steps("connect") /\ first' = first + Batch /\ denial' = "none"
  /\ UNCHANGED <<query, heard>>

QueryRaises(how) == Steps(how) /\ listening' = {} /\ Keeps(<<emitted, foundNow, batched, denial, overdue>>)

(* The head of _wait()'s loop: a denial first, then the deadline, then done.   *)
WaitLoops ==
  /\ waitStep = "check"
  /\ \/ denial = "query" /\ QueryRaises("denied")
     \/ denial # "query" /\ overdue /\ (query.single \/ NothingHeard) /\ QueryRaises("timeout")
     \/ /\ denial # "query" /\ overdue /\ ~query.single /\ ~NothingHeard
        \* Within a window partial answers stand; across windows none may be added.
        /\ WindowEnds(IF Defines(foundNow) THEN foundNow ELSE <<>>)
     \/ denial # "query" /\ ~overdue /\ AllFound /\ WindowEnds(foundNow)
     \/ denial # "query" /\ ~overdue /\ ~AllFound /\ Steps("wait") /\ Keeps(<<emitted, foundNow, batched, listening, denial, overdue>>)

(* asyncio.wait() returns: done, a denial or the deadline.                     *)
WaitWakes ==
  /\ waitStep = "wait"
  /\ \/ AllFound /\ WindowEnds(foundNow)
     \/ ~AllFound /\ (overdue \/ denial # "none") /\ Steps("check") /\ Keeps(<<emitted, foundNow, batched, listening, denial, overdue>>)

Noted(answers, k) == [n \in DOMAIN answers \cup {k} |-> IF n = k THEN Knows[k] ELSE answers[n]]

(* keep(): the request id names the registration, or else the definition does; *)
(* a repeat is dropped.  A reply to an earlier window names nothing of this.   *)
QueryReplied(k) ==
  /\ "replies" \in listening /\ k \in AskedFor \cup DOMAIN heard
  /\ \E withId \in BOOLEAN:
       IF k \in AskedFor \ DOMAIN foundNow /\ (withId \/ (Knows[k] = "defs" /\ ~query.single))
       THEN foundNow' = Noted(foundNow, k) /\ heard' = Noted(heard, k)
       ELSE UNCHANGED <<foundNow, heard>>
  /\ UNCHANGED <<query, waitStep, first, emitted, batched, listening, denial, overdue>>

(* A denial of the query (with its id, or none), or of another one.            *)
QueryDenied ==
  /\ "denials" \in listening /\ ~QueryOver
  /\ denial' \in {"query"} \cup (IF query.single \/ denial = "query" THEN {} ELSE {"another"})
  /\ Keeps(<<waitStep, emitted, foundNow, batched, listening, overdue>>)

DeadlinePasses ==
  /\ waitStep \in {"check", "wait"} /\ ~overdue /\ overdue' = TRUE
  /\ Keeps(<<waitStep, emitted, foundNow, batched, listening, denial>>)

QueryNext ==
  \/ QueryConnects \/ ListensForDenials \/ ListensForReplies \/ EmitsQuery \/ WaitLoops \/ WaitWakes
  \/ QueryDenied \/ DeadlinePasses \/ \E k \in DOMAIN Knows: QueryReplied(k)

QuerySpec == QueryInit /\ [][QueryNext]_queryVars

-----------------------------------------------------------------------------
(* What a hub said in time is in the answer, whichever window it was asked in  *)
(* and whatever came twice or without an id (712-724, 751-775); only a hub     *)
(* that described nothing at all is reported as silent (725, 775-781).         *)
AnswersAreKept ==
  /\ waitStep = "answered" => \A k \in DOMAIN heard: heard[k] = "defs" => k \in DOMAIN batched
  /\ waitStep = "answered" => \A k \in DOMAIN batched: batched[k] = Knows[k]
  /\ waitStep = "timeout" /\ ~query.single => ~Defines(heard)
  /\ waitStep = "answered" /\ query.single => DOMAIN batched = {query.wanted[1]}

=============================================================================
