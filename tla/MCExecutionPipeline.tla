------------------------ MODULE MCExecutionPipeline ------------------------
(***************************************************************************)
(* ExecutionPipeline on small instances.                                   *)
(***************************************************************************)
EXTENDS ExecutionPipeline, TLC

(***************************************************************************)
(* The operators' threads are interchangeable.                             *)
(***************************************************************************)
OperatorSymmetry == Permutations(Operators)

(***************************************************************************)
(* Recommendations for the runs: a confident battery action and a load     *)
(* action in doubt, each within the limits or over them, permitted or not; *)
(* and a battery action that passes policy and safety's look at its        *)
(* parameters, confident or not.                                           *)
(***************************************************************************)
MixedIntents ==
  {i \in [action : {"CHARGE_BATTERY", "SHED_LOAD"}, params : Params,
          permitted : BOOLEAN, lowConfidence : BOOLEAN] :
     i.lowConfidence = (i.action = "SHED_LOAD")}

CleanIntents ==
  [action : {"CHARGE_BATTERY"}, params : {"within"},
   permitted : {TRUE}, lowConfidence : BOOLEAN]
=============================================================================
