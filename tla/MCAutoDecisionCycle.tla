------------------------ MODULE MCAutoDecisionCycle ------------------------
(***************************************************************************)
(* AutoDecisionCycle with one thread of each kind.                         *)
(***************************************************************************)
EXTENDS AutoDecisionCycle

CONSTANTS auto, manual, endpoint
=============================================================================
