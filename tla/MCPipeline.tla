----------------------------- MODULE MCPipeline -----------------------------
(***************************************************************************)
(* Pipeline on its first three stages; and on extraction and embedding, of *)
(* a contract whose stages before those have succeeded.                    *)
(***************************************************************************)
EXTENDS Pipeline

MCCap == [s \in Stage |-> 1]
MCStateOf == <<"VALIDATING", "AI_EXTRACTION", "AI_EXTRACTION">>

(* Two slots for the first stage, so that it can be run twice at once.     *)
MCLateCap == <<2, 1>>
MCLateStateOf == <<"AI_EXTRACTION", "EMBEDDING">>

(***************************************************************************)
(* What a row that is free or dead held before makes no difference to what *)
(* can happen, and neither does the history of deliveries.                 *)
(***************************************************************************)
MCView ==
    <<[r \in Row |-> IF r \in FreeRow THEN <<>>
                     ELSE IF state[r] = "dead" /\ ~InHand(r) THEN <<msg[r]>>
                     ELSE <<state[r], queue[r], attempt[r], msg[r]>>],
      slotVars, jobVars, step, snap, todo, opVars, histVars, faults>>

=============================================================================
