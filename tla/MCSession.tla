-------------------------------- MODULE MCSession --------------------------------
(* The session of threads, that of asyncio, the answers to home requests and   *)
(* the choice of an origin: a behaviour is one of the four.                    *)
EXTENDS HubSession, AsyncSession, HomeLink, OriginPreference

VARIABLE part
vars == <<part, sessionVars, aVars, homeVars, originVars>>
Resting == part # "async" => mood = "open"
Init == /\ part \in {"session", "async", "home", "origin"}
        /\ SessionInit /\ AsyncInit /\ HomeInit /\ OriginInit /\ Resting
Next == \/ part = "session" /\ SessionNext /\ UNCHANGED <<part, aVars, homeVars, originVars>>
        \/ part = "async" /\ AsyncNext /\ UNCHANGED <<part, sessionVars, homeVars, originVars>>
        \/ part = "home" /\ HomeNext /\ UNCHANGED <<part, sessionVars, aVars, originVars>>
        \/ part = "origin" /\ OriginNext /\ UNCHANGED <<part, sessionVars, aVars, homeVars>>
SessionStep(t) == part = "session" /\ Step(t) /\ UNCHANGED <<part, aVars, homeVars, originVars>>
AsyncTurn(t) == part = "async" /\ Turn(t) /\ UNCHANGED <<part, sessionVars, homeVars, originVars>>
AsyncRun == part = "async" /\ RunTurn /\ UNCHANGED <<part, sessionVars, homeVars, originVars>>
HomeStep(r) == part = "home" /\ LoopStep(r) /\ UNCHANGED <<part, sessionVars, aVars, originVars>>
HomeTick == part = "home" /\ Tick /\ UNCHANGED <<part, sessionVars, aVars, originVars>>
Spec ==
  /\ Init /\ [][Next]_vars
  /\ \A t \in Workers: WF_vars(SessionStep(t))
  /\ WF_vars(AsyncRun) /\ \A t \in Tasks: WF_vars(AsyncTurn(t))
  /\ WF_vars(HomeTick) /\ \A r \in Requests: WF_vars(HomeStep(r))

(* Of every kind of session there is one client at most that is still to be    *)
(* closed, none of it forgotten or closed under a call, and none once close()  *)
(* has returned; only asyncio's forgets a client, one whose close() raised.    *)
(* Origins are dialled one at a time (session.py 186-425, 584-696, 787-893).   *)
OneOfEach ==
  /\ OneSession /\ CallsAreLeftAlone /\ ClosedForGood
  /\ OneLink /\ ClosedStaysClosed
  /\ OneAttempt /\ ResolverRestored

(* Whichever client is held carries every event subscribed; of asyncio's, what *)
(* came while that very client settled waits for the next, and nothing         *)
(* unsubscribed stays bound (session.py 236-276, 550-610).                     *)
HandlersAreCarried == Carries /\ CarriesWhatIsWanted

(* No step acts on what is no longer so: run() gives up only after a whole     *)
(* grace of refusals, a call drops only its own link, "timeout" is said only of*)
(* a handler that had its time, and nothing starts after unsubscribe()         *)
(* (session.py 135-156, 719-724; home.py 346-425).                             *)
NothingActsLate == NeverHasty /\ OwnLinkOnly /\ TimeoutIsTrue /\ QuietAfterUnsubscribe

(* Everything ends: the background connect, run() after a close or on a hub    *)
(* that refuses for ever, and every home request (session.py 283-321, 436-443, *)
(* 626-676; home.py 338-391).                                                  *)
EverythingEnds == WarmEnds /\ RunEnds /\ RefusalsEnd /\ EveryRequestEnds
=============================================================================
