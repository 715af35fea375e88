-------------------------------- MODULE MCTurns --------------------------------
(* Two parts of the asyncio client that share no state, checked in one run: a  *)
(* behaviour is one of the conversation memory or one of an event stream.  The *)
(* symmetry permutes turns and ids, which a stream has none of.                *)
EXTENDS ConversationMemory, EventStream, TLC
CONSTANTS i1, i2, i3, h1, h2, h3, g2, c1, c2, c3
MCIds == {i1, i2, i3, h1, h2, h3, g2}
MCConversationOf ==
  [i \in MCIds |-> IF i \in {i1, h1, h2, h3} THEN c1 ELSE IF i \in {i2, g2} THEN c2 ELSE c3]
Interchangeable == Permutations(Turns) \cup Permutations({h1, h2, h3})

VARIABLE part
vars == <<part, memoryVars, streamVars>>
Init == /\ part \in {"memory", "stream"} /\ MemoryInit /\ StreamInit
        /\ part = "memory" => ~timed /\ wanted = MaxHeard + 1
Next == \/ part = "memory" /\ MemoryNext /\ UNCHANGED <<part, streamVars>>
        \/ part = "stream" /\ StreamNext /\ UNCHANGED <<part, memoryVars>>
Spec == /\ Init /\ [][Next]_vars
        /\ WF_streamVars(part = "stream" /\ Setup /\ UNCHANGED <<part, memoryVars>>)
        /\ WF_streamVars(part = "stream" /\ Consumes /\ UNCHANGED <<part, memoryVars>>)
        /\ WF_streamVars(part = "stream" /\ DeadlinePasses /\ UNCHANGED <<part, memoryVars>>)
        /\ WF_streamVars(part = "stream" /\ Expiry /\ UNCHANGED <<part, memoryVars>>)
=============================================================================
