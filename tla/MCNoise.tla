-------------------------------- MODULE MCNoise --------------------------------
(* The negotiation of a session, the folder its keys are kept in, and the      *)
(* frames of the session: a behaviour is one of the three.                     *)
EXTENDS NoiseNegotiation, StateFolder, NoiseFrames, TLC
CONSTANTS short, full, long
MCSize == short :> 1 @@ full :> 4 @@ long :> 7
MCJson == short :> FALSE @@ full :> TRUE @@ long :> TRUE

VARIABLE part
vars == <<part, negotiationVars, folderVars, frameVars>>
Resting ==
  /\ part # "negotiation" => pin = None /\ cached = None /\ password = [p \in Programs |-> FirstPassword]
  /\ part # "folder" => oldName = Unnamed /\ ~qualified /\ hubPin = Missing
Init == /\ part \in {"negotiation", "folder", "frames"}
        /\ NegotiationInit /\ FolderInit /\ FramesInit /\ Resting
Next == \/ part = "negotiation" /\ NegotiationNext /\ UNCHANGED <<part, folderVars, frameVars>>
        \/ part = "folder" /\ FolderNext /\ UNCHANGED <<part, negotiationVars, frameVars>>
        \/ part = "frames" /\ FramesNext /\ UNCHANGED <<part, negotiationVars, folderVars>>
Ended(p) == part = "negotiation" /\ Negotiates(p) /\ UNCHANGED <<part, folderVars, frameVars>>
Spec == Init /\ [][Next]_vars /\ \A p \in Programs: WF_vars(Ended(p))

(* The two ends, and the programs of one state folder, agree on the keys: one  *)
(* hub key is trusted and one static key presented, the one the hub knows, and *)
(* never without the pin that checks its hub (_noise_runtime.py 236-383).      *)
KeysAgree == OneTrust /\ OneKey /\ KnownKeyStays /\ KeyComesWithPin
=============================================================================
