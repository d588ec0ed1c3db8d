------------------------------ MODULE MCEngine ------------------------------
(* The engine with any executor and with the one it ships with, in one run:   *)
(* a behaviour follows one of the plans.                                      *)
EXTENDS PipelineEngine

VARIABLE plan   \* the executor, its frame faults, and what the client may ask for

(* The navigations each context may make, and the document operations in all. *)
Plan(kind, faults, navigations, operations) ==
  [executor |-> kind, faults |-> faults, navigations |-> navigations, operations |-> operations]

Plans == {Plan("Any", {}, <<2, 0>>, 2),
          Plan("Any", {}, <<3, 0>>, 0),
          Plan("Pipeline", {}, <<2, 0>>, 1),
          Plan("Pipeline", {"Operation"}, <<1, 1>>, 1),
          Plan("Pipeline", {"Load"}, <<2, 0>>, 1)}

PlannedInit == PipelineInit /\ plan \in Plans /\ plan.faults = frame_faults

PlannedNext ==
  /\ \/ plan.executor = "Any" /\ Next /\ UNCHANGED executor
     \/ plan.executor = "Pipeline" /\ PipelineNext
  /\ \A c \in DOMAIN contexts' : contexts'[c].latest_generation <= plan.navigations[c]
  /\ next_document_operation_sequence' <= plan.operations + 1
  /\ UNCHANGED plan

PlannedSpec == PlannedInit /\ [][PlannedNext]_<<vars, executor, plan>>

PlannedFaults == {p.faults : p \in Plans}
OneNode == {[nodes |-> 1, payload |-> 1]}
-----------------------------------------------------------------------------

(* StaticPipelineExecutor's pages and its count of their nodes follow the     *)
(* worker's view of them, although the two sides are updated in different     *)
(* steps (execute, acknowledge_navigation_publication, close_context and the  *)
(* outcomes of a document operation).                                         *)
PipelineMirrorsWorker == plan.executor = "Pipeline" => ExecutorMirrorsWorker

(* With StaticPipelineExecutor, and frames that can always be made, the       *)
(* worker never stops with ExecutorContractViolation.                         *)
PipelineKeepsContract == plan.executor = "Pipeline" => ContractHolds
=============================================================================
