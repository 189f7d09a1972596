----------------------------- MODULE MCCalcRules -----------------------------
(***************************************************************************)
(* The instances of CalcRules that TLC checks.                             *)
(***************************************************************************)
EXTENDS CalcRules, TLC

(* Between them, for each property, everything that it does not exclude.   *)
(* What excludes a property is apart from what excludes the others, to     *)
(* keep the state space small.                                             *)
CalcChoices ==
    {{"rules", "re-add", "stale_fill"}, {"rules", "failures"}, {"rules", "overlap"},
     {"config", "stale_fill", "re-add"}, {"config", "override"}}
==============================================================================
