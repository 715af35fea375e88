----------------------------- MODULE OperationWait -----------------------------
(* Waiting for an operation of the API (src/thalovant/control.py 2288-2412 and *)
(* 1838-1892): wait_for_operation(), wait_for_admission() around it, and the   *)
(* wait of the hub skill commands, against an API that is slow, asks to slow   *)
(* down, fails, forgets, refuses or cannot be understood.  Time is a clock of  *)
(* whole units; what is due is done before it moves on.                        *)
EXTENDS Naturals, FiniteSetsExt

CONSTANTS Timeout,      \* of the wait
          PollInterval,
          HttpTimeout,  \* of one request
          RetryAfters,  \* the times a 429 may name; 0 for none
          Kinds         \* the waits considered

ASSUME WaitShape ==
  /\ Timeout \in Nat \ {0} /\ PollInterval \in Nat \ {0} /\ HttpTimeout \in Nat \ {0}
  /\ RetryAfters \subseteq Nat /\ Kinds \subseteq {"operation", "admission", "skill"}

Horizon == Timeout + HttpTimeout + 1

VARIABLES
  kind,        \* which wait it is
  now,
  operation,   \* at the API: "pending", "ready", "failed", "forgotten"
  credentials, \* whether the token still holds
  step,        \* "new", "due" to read, "reading", "sleeping", "over"
  began,       \* when the read in flight was sent
  wake,        \* when the sleep ends
  said,      \* history: "unread"; "refused", with a status; "unusable", without
  verdict,     \* "none", or one of Verdicts
  notBefore,   \* history: the earliest the API said it may be read again
  readyAt,     \* history: when the operation became ready
  hindered     \* history: a read was slow, refused for now or answered 5xx

waitVars == <<kind, now, operation, credentials, step, began, wake, said, verdict,
              notBefore, readyAt, hindered>>

\* "failed" and "refused" are ThalovantAdmissionFailedError of an admission, without
\* a status_code and with one; "error" is an error of the API or of its use.
Verdicts == {"ready", "nothing", "failed", "refused", "timeout", "auth", "unreachable", "error"}

WaitTypeOK ==
  /\ kind \in Kinds /\ now \in 0..Horizon
  /\ operation \in {"pending", "ready", "failed", "forgotten"} /\ credentials \in BOOLEAN
  /\ step \in {"new", "due", "reading", "sleeping", "over"}
  /\ began \in 0..Horizon /\ wake \in 0..Horizon
  /\ said \in {"unread", "refused", "unusable"}
  /\ verdict \in Verdicts \cup {"none"} /\ (step = "over") = (verdict # "none")
  /\ notBefore \in Nat /\ readyAt \in 0..(Horizon + 1) /\ hindered \in BOOLEAN

WaitInit ==
  /\ kind \in Kinds /\ now = 0 /\ operation = "pending" /\ credentials = TRUE
  /\ step = "new" /\ began = 0 /\ wake = 0 /\ said = "unread" /\ verdict = "none"
  /\ notBefore = 0 /\ readyAt = Horizon + 1 /\ hindered = FALSE

Deadline == Timeout

\* mutant: a wait never has less than one unit left.
LeftAtLeastOne == IF now < Deadline THEN Deadline - now ELSE 1

Left == IF now < Deadline THEN Deadline - now ELSE 0

Gives(what) == step' = "over" /\ verdict' = what

(* An error that is neither a verdict of the API nor of the operation: of an   *)
(* admission it is a failure all the same.                                     *)
Useless == said' = "unusable" /\ Gives(IF kind = "admission" THEN "failed" ELSE "error")

-----------------------------------------------------------------------------
(* The API and the clock.                                                      *)
Settles ==
  /\ operation = "pending" /\ operation' \in {"ready", "failed", "forgotten"}
  /\ readyAt' = IF operation' = "ready" THEN now ELSE readyAt
  /\ UNCHANGED <<kind, now, credentials, step, began, wake, said, verdict, notBefore, hindered>>

TokenDies ==
  /\ credentials /\ credentials' = FALSE
  /\ UNCHANGED <<kind, now, operation, step, began, wake, said, verdict, notBefore, readyAt, hindered>>

\* When the read in flight is given up, at the latest.
GivenUp == IF kind = "skill" THEN began + HttpTimeout
           ELSE Min({Deadline, began + HttpTimeout})

Tick ==
  /\ now < Horizon /\ now' = now + 1
  /\ step \notin {"new", "due"} /\ (step = "sleeping" => now < wake) /\ (step = "reading" => now < GivenUp)
  /\ hindered' = (hindered \/ step = "reading")
  /\ UNCHANGED <<kind, operation, credentials, step, began, wake, said, verdict, notBefore, readyAt>>

-----------------------------------------------------------------------------
(* The wait.                                                                   *)
(* wait_for_admission() before the wait: with no operation there is nothing to *)
(* wait on, and a link that leaves the API's origin is refused; nor can one    *)
(* without an id be waited for.                                                *)
StartWait ==
  /\ step = "new"
  /\ \/ step' = "due" /\ UNCHANGED <<verdict, said>>
     \/ kind = "admission" /\ Gives("nothing") /\ UNCHANGED said
     \/ kind = "admission" /\ Gives("error") /\ UNCHANGED said
     \/ kind # "skill" /\ Useless
  /\ UNCHANGED <<kind, now, operation, credentials, began, wake, notBefore, readyAt, hindered>>

(* A read is begun while something is left of the wait, and never at its end.  *)
Send ==
  /\ step = "due"
  /\ IF Left = 0 THEN Gives("timeout") /\ UNCHANGED began
     ELSE step' = "reading" /\ began' = now /\ UNCHANGED verdict
  /\ UNCHANGED <<kind, now, operation, credentials, wake, said, notBefore, readyAt, hindered>>

Sleep(wait) ==
  IF Left = 0 THEN Gives("timeout") /\ UNCHANGED wake
  ELSE step' = "sleeping" /\ wake' = now + Min({wait, Left}) /\ UNCHANGED verdict

ReadStatus ==
  /\ step = "reading" /\ credentials
  /\ \/ operation = "pending" /\ Sleep(PollInterval)
     \/ operation = "ready" /\ Gives("ready") /\ UNCHANGED wake
     \/ operation = "failed" /\ Gives("failed") /\ UNCHANGED wake
  /\ UNCHANGED <<kind, now, operation, credentials, began, said, notBefore, readyAt, hindered>>

(* An operation the API no longer tracks: an admission has nothing to wait on. *)
ReadForgotten ==
  /\ step = "reading" /\ credentials /\ operation = "forgotten"
  /\ Gives(IF kind = "admission" THEN "nothing" ELSE "error")
  /\ UNCHANGED <<kind, now, operation, credentials, began, wake, said, notBefore, readyAt, hindered>>

\* mutant: a refused token is taken for a refused connection.
TokenIsVerdict ==
  /\ step = "reading" /\ ~credentials
  /\ Gives(IF kind = "skill" THEN "error" ELSE "failed")
  /\ UNCHANGED <<kind, now, operation, credentials, began, wake, said, notBefore, readyAt, hindered>>

(* The token is refused, which says nothing of the connection.                 *)
ReadUnauthorized ==
  /\ step = "reading" /\ ~credentials
  /\ Gives(IF kind = "skill" THEN "error" ELSE "auth")
  /\ UNCHANGED <<kind, now, operation, credentials, began, wake, said, notBefore, readyAt, hindered>>

(* A redirect, any other 4xx, or a body that is no JSON object, which carries  *)
(* its status; or an operation whose fields are missing, or a request that     *)
(* could not be sent, which have none.                                         *)
ReadRefused ==
  /\ step = "reading"
  /\ \/ said' = "refused" /\ Gives(IF kind = "admission" THEN "refused" ELSE "error")
     \/ Useless
  /\ UNCHANGED <<kind, now, operation, credentials, began, wake, notBefore, readyAt, hindered>>

WaitNamed(after) == Max({PollInterval, after})

(* 429: the time it names is waited out, or the wait is over now.              *)
ReadSlowDown(after) ==
  /\ step = "reading" /\ hindered' = TRUE /\ notBefore' = now + after
  /\ IF kind = "skill" THEN Gives("error") /\ UNCHANGED wake
     ELSE IF WaitNamed(after) > Left THEN Gives("timeout") /\ UNCHANGED wake
     ELSE Sleep(WaitNamed(after))
  /\ UNCHANGED <<kind, now, operation, credentials, began, said, readyAt>>

(* 5xx: ridden out.                                                            *)
ReadServerError ==
  /\ step = "reading" /\ hindered' = TRUE
  /\ IF kind = "skill" THEN Gives("error") /\ UNCHANGED wake ELSE Sleep(PollInterval)
  /\ UNCHANGED <<kind, now, operation, credentials, began, said, notBefore, readyAt>>

(* The API is out of reach, or does not answer in the time of a request.       *)
ReadUnreachable ==
  /\ step = "reading" /\ Gives(IF kind = "skill" THEN "error" ELSE "unreachable")
  /\ UNCHANGED <<kind, now, operation, credentials, began, wake, said, notBefore, readyAt, hindered>>

(* The read is cut off at the end of the wait; that of a skill is not.         *)
ReadCutOff ==
  /\ step = "reading" /\ kind # "skill" /\ Left = 0 /\ Gives("timeout")
  /\ UNCHANGED <<kind, now, operation, credentials, began, wake, said, notBefore, readyAt, hindered>>

Wake ==
  /\ step = "sleeping" /\ now = wake /\ step' = "due"
  /\ UNCHANGED <<kind, now, operation, credentials, began, wake, said, verdict, notBefore, readyAt,
                 hindered>>

WaitStep == \/ StartWait \/ Send \/ ReadStatus \/ ReadForgotten \/ ReadUnauthorized \/ ReadRefused
            \/ \E after \in RetryAfters : ReadSlowDown(after)
            \/ ReadServerError \/ ReadUnreachable \/ ReadCutOff \/ Wake

WaitNext == Settles \/ TokenDies \/ Tick \/ WaitStep

\* The clock goes on, what is due is done, and a request ends.
WaitFairness ==
  /\ WF_waitVars(Tick) /\ WF_waitVars(StartWait \/ Send \/ Wake)
  /\ WF_waitVars(now = GivenUp /\ (ReadCutOff \/ ReadUnreachable))

WaitSpec == WaitInit /\ [][WaitNext]_waitVars /\ WaitFairness

-----------------------------------------------------------------------------
(* Properties                                                                  *)

(* A verdict is of the operation, or of a read the API refused or made useless:*)
(* an admission is called failed while the operation may come true only then,  *)
(* and a refusal is told by its status from a failure.  A dead token, an API   *)
(* out of reach, failing, forgetful or slow never is one (2366-2378, 2389-2412).*)
VerdictIsTheOperations ==
  /\ verdict = "ready" => operation = "ready"
  /\ verdict = "failed" => operation = "failed" \/ (said = "unusable" /\ kind = "admission")
  /\ verdict = "refused" <=> (said = "refused" /\ kind = "admission")
  /\ verdict = "auth" => ~credentials

(* ThalovantAdmissionFailedError: the operation failed or timed out, or the API*)
(* refused the wait and then its status is kept (errors.py 443-449).  A read   *)
(* that is useless fails it too, and says neither: this is not held.           *)
FailedIsAnswered == verdict = "failed" => operation = "failed"

(* No wait outlives its timeout, and that of a skill only by the one read that *)
(* was out; none reads once the timeout has passed (2311-2316, 1863-1868).     *)
InTime ==
  /\ step = "reading" => began < Deadline
  /\ step # "over" => now <= Deadline + (IF kind = "skill" THEN HttpTimeout ELSE 0)

(* The API is not asked again before the time it named (2322-2331).            *)
SlowDownKept == step = "reading" => began >= notBefore

(* An operation that was ready a poll interval before the end of a wait that   *)
(* nothing hindered is not reported as timed out: the last sleep is cut short  *)
(* so that no more than one interval is left unread (2349).                    *)
ReadyIsSeen ==
  verdict = "timeout" /\ ~hindered => readyAt + PollInterval >= Deadline

(* Every wait ends.                                                            *)
WaitEnds == []<>(step \in {"new", "over"})
=============================================================================
