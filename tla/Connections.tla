------------------------------ MODULE Connections ------------------------------
(* Creating and deleting hub connections (src/thalovant/control.py 2108-2286): *)
(* create_client_identity() asks for a kind of connection, deletes one made of *)
(* another kind and says so; delete_client() deletes under the version it last *)
(* read, against other writers.  Requests and answers may be lost.             *)
EXTENDS Naturals

CONSTANTS Calls,      \* calls of create_client_identity(), each with a connection of its name
          Typed,      \* those that ask for a kind of connection
          Deletes,    \* delete_client() calls of an application
          Of,         \* Of[d]: the connection a delete is of
          MaxVersion  \* bound on the changes of other writers

ASSUME ConnectionsShape ==
  /\ Typed \subseteq Calls /\ Deletes \cap Calls = {} /\ Of \in [Deletes -> Calls]
  /\ MaxVersion \in Nat \ {0}

ConnTasks == Calls \cup Deletes
Connection(t) == IF t \in Calls THEN t ELSE Of[t]

VARIABLES
  version,   \* each connection at the API: 0 if there is none, else its version
  asked,     \* the API made it of the kind asked for
  gone,      \* it was there and was deleted
  connTask,      \* "new", "creating", "checking", "reading", "deleting", "over"
  etag,      \* the version a delete is sent under, 0 before it is read
  connAttempt,   \* of the deletion
  reply,     \* to the request in flight: "none" or what the API said
  result     \* how the call ended

connVars == <<version, asked, gone, connTask, etag, connAttempt, reply, result>>

Replies == {"none", "made", "madeOther", "refusedType", "refused", "etag", "missing",
            "deleted", "conflict", "lost"}
\* "unsupportedUnnamed" is the "unsupported" of an answer that named no connection.
Results == {"none", "identity", "unsupported", "unsupportedLeft", "unsupportedUnnamed", "failed", "deleted"}

ConnTypeOK ==
  /\ version \in [Calls -> 0..MaxVersion] /\ asked \in [Calls -> BOOLEAN]
  /\ gone \subseteq Calls
  /\ connTask \in [ConnTasks -> {"new", "creating", "checking", "reading", "deleting", "over"}]
  /\ etag \in [ConnTasks -> 0..MaxVersion] /\ connAttempt \in [ConnTasks -> 0..2]
  /\ reply \in [ConnTasks -> Replies] /\ result \in [ConnTasks -> Results]

ConnInit ==
  /\ version = [c \in Calls |-> 0] /\ asked = [c \in Calls |-> FALSE] /\ gone = {}
  /\ connTask = [t \in ConnTasks |-> "new"] /\ etag = [t \in ConnTasks |-> 0]
  /\ connAttempt = [t \in ConnTasks |-> 0] /\ reply = [t \in ConnTasks |-> "none"]
  /\ result = [t \in ConnTasks |-> "none"]

Goes(t, s) == connTask' = [connTask EXCEPT ![t] = s] /\ reply' = [reply EXCEPT ![t] = "none"]
CallOver(t, r) == Goes(t, "over") /\ result' = [result EXCEPT ![t] = r]

-----------------------------------------------------------------------------
(* The API, with the other writers of its connections.                         *)
ApiSays(t, r) == reply' = [reply EXCEPT ![t] = r]

Makes(t) ==
  /\ connTask[t] = "creating" /\ reply[t] = "none" /\ version[t] = 0 /\ t \notin gone
  /\ \/ /\ version' = [version EXCEPT ![t] = 1]
        /\ \E kind \in BOOLEAN : /\ asked' = [asked EXCEPT ![t] = kind]
                                 /\ ApiSays(t, IF kind THEN "made" ELSE "madeOther")
     \/ ApiSays(t, "refusedType") /\ t \in Typed /\ UNCHANGED <<version, asked>>
     \/ ApiSays(t, "refused") /\ UNCHANGED <<version, asked>>
  /\ UNCHANGED <<gone, connTask, etag, connAttempt, result>>

Tells(t) ==
  /\ connTask[t] = "reading" /\ reply[t] = "none"
  /\ LET held == Connection(t) IN ApiSays(t, IF version[held] = 0 THEN "missing" ELSE "etag")
  /\ etag' = [etag EXCEPT ![t] = version[Connection(t)]]
  /\ UNCHANGED <<version, asked, gone, connTask, connAttempt, result>>

Removes(t) ==
  /\ connTask[t] = "deleting" /\ reply[t] = "none"
  /\ LET held == Connection(t) IN
     IF version[held] = 0 THEN ApiSays(t, "missing") /\ UNCHANGED <<version, gone>>
     ELSE IF version[held] # etag[t] THEN ApiSays(t, "conflict") /\ UNCHANGED <<version, gone>>
     ELSE ApiSays(t, "deleted") /\ version' = [version EXCEPT ![held] = 0] /\ gone' = gone \cup {held}
  /\ UNCHANGED <<asked, connTask, etag, connAttempt, result>>

OtherWriter(c) ==
  /\ version[c] \in 1..(MaxVersion - 1) /\ version' = [version EXCEPT ![c] = @ + 1]
  /\ UNCHANGED <<asked, gone, connTask, etag, connAttempt, reply, result>>

CallLost(t) ==
  /\ connTask[t] \in {"creating", "reading", "deleting"} /\ reply[t] # "lost" /\ ApiSays(t, "lost")
  /\ UNCHANGED <<version, asked, gone, connTask, etag, connAttempt, result>>

-----------------------------------------------------------------------------
(* create_client_identity().                                                   *)
Create(t) ==
  /\ t \in Calls /\ connTask[t] = "new" /\ Goes(t, "creating")
  /\ UNCHANGED <<version, asked, gone, etag, connAttempt, result>>

Refused(t) ==
  /\ t \in Calls /\ connTask[t] = "creating" /\ reply[t] \in {"refusedType", "refused", "lost"}
  /\ CallOver(t, IF reply[t] = "refusedType" THEN "unsupported" ELSE "failed")
  /\ UNCHANGED <<version, asked, gone, etag, connAttempt>>

\* The connection is of the kind asked for, if one was.
RightKind(t) == t \notin Typed \/ reply[t] = "made"

(* _require_connection_type(): a connection of another kind is deleted, under  *)
(* the version it was made with if the answer has it; one the answer does not  *)
(* name cannot be.                                                             *)
Made(t) ==
  /\ t \in Calls /\ connTask[t] = "creating" /\ reply[t] \in {"made", "madeOther"}
  /\ IF RightKind(t) THEN CallOver(t, "identity") /\ UNCHANGED <<etag, connAttempt>>
     ELSE \/ CallOver(t, "unsupportedUnnamed") /\ UNCHANGED <<etag, connAttempt>>
          \/ /\ connAttempt' = [connAttempt EXCEPT ![t] = 1] /\ UNCHANGED result
             /\ \/ Goes(t, "deleting") /\ etag' = [etag EXCEPT ![t] = 1]
                \/ Goes(t, "reading") /\ UNCHANGED etag
  /\ UNCHANGED <<version, asked, gone>>

-----------------------------------------------------------------------------
(* delete_client(), with a version the application once read or with none.     *)
Delete(t) ==
  /\ t \in Deletes /\ connTask[t] = "new" /\ version[Of[t]] # 0
  /\ connAttempt' = [connAttempt EXCEPT ![t] = 1]
  /\ \/ Goes(t, "deleting") /\ etag' \in {[etag EXCEPT ![t] = v] : v \in 1..version[Of[t]]}
     \/ Goes(t, "reading") /\ UNCHANGED etag
  /\ UNCHANGED <<version, asked, gone, result>>

ReadEtag(t) ==
  /\ connTask[t] = "reading" /\ reply[t] = "etag" /\ Goes(t, "deleting")
  /\ UNCHANGED <<version, asked, gone, etag, connAttempt, result>>

\* mutant: a failed deletion is passed over in silence.
SilentFailure(t) == IF t \in Calls THEN "unsupported" ELSE "failed"

DeletionFailed(t) == IF t \in Calls THEN "unsupportedLeft" ELSE "failed"

Gone(t) ==
  /\ connTask[t] \in {"reading", "deleting"} /\ reply[t] \in {"deleted", "missing"}
  /\ CallOver(t, IF t \in Calls THEN "unsupported" ELSE "deleted")
  /\ UNCHANGED <<version, asked, gone, etag, connAttempt>>

(* Another writer changed it: it is read once more, and the delete sent again. *)
KeyConflict(t) ==
  /\ connTask[t] = "deleting" /\ reply[t] = "conflict"
  /\ IF connAttempt[t] = 2 THEN CallOver(t, DeletionFailed(t)) /\ UNCHANGED connAttempt
     ELSE /\ Goes(t, "reading") /\ connAttempt' = [connAttempt EXCEPT ![t] = 2] /\ UNCHANGED result
  /\ UNCHANGED <<version, asked, gone, etag>>

Unanswered(t) ==
  /\ connTask[t] \in {"reading", "deleting"} /\ reply[t] = "lost" /\ CallOver(t, DeletionFailed(t))
  /\ UNCHANGED <<version, asked, gone, etag, connAttempt>>

ConnNext ==
  \/ \E t \in ConnTasks :
       \/ Tells(t) \/ Removes(t) \/ CallLost(t)
       \/ ReadEtag(t) \/ Gone(t) \/ KeyConflict(t) \/ Unanswered(t) \/ Delete(t)
       \/ Create(t) \/ Refused(t) \/ Made(t)
  \/ \E c \in Calls : Makes(c) \/ OtherWriter(c)

ConnSpec == ConnInit /\ [][ConnNext]_connVars

-----------------------------------------------------------------------------
(* Properties                                                                  *)

(* A kind that could not be had leaves no connection behind, unless the error  *)
(* names it or the API's answer did not: whatever another writer did to it     *)
(* between its creation and its deletion (2223-2239).                          *)
NoStrangerLeft == \A t \in Calls : result[t] = "unsupported" => version[t] = 0

(* The same without the exception: not so of a connection the answer does not  *)
(* name, which stays and of which the error says nothing (2230-2239).          *)
NothingLeft == \A t \in Calls : result[t] \in {"unsupported", "unsupportedUnnamed"} => version[t] = 0

(* Only a connection of the kind asked for is handed out, and the SDK deletes  *)
(* none that is (2193-2194).                                                   *)
KindIsKept ==
  \A t \in Typed :
    /\ result[t] = "identity" => asked[t]
    /\ connTask[t] \in {"reading", "deleting"} => ~asked[t]

(* A delete is reported as done only once the connection is gone, and a change *)
(* of one other writer does not keep it from being done (2276-2286).           *)
DeletedIsGone ==
  \A t \in Deletes :
    /\ result[t] = "deleted" => version[Of[t]] = 0
    /\ reply[t] = "conflict" /\ connAttempt[t] = 2 => version[Of[t]] = 0 \/ version[Of[t]] > 2
=============================================================================
