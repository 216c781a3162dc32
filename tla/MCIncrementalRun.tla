-------------------------- MODULE MCIncrementalRun --------------------------
(* IncrementalRun on validation, docpipeline and extraction.               *)
EXTENDS IncrementalRun

CONSTANTS field, other, one, two

None == [f \in {} |-> one]

MCPayload ==
    << {None},
       {[f \in {field} |-> one], [f \in {field} |-> two]},
       {[f \in {field} |-> one], [f \in {field, other} |-> one]} >>

=============================================================================
