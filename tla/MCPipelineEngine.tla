-------------------------- MODULE MCPipelineEngine --------------------------
(* Instances of PipelineEngine for TLC.                                       *)
EXTENDS PipelineEngine

(* Document operations may lose their frame, loads may not.                   *)
OperationFaults == {{"Operation"}}
OneNode == {[nodes |-> 1, payload |-> 1]}
=============================================================================
