---------------------------- MODULE MCBlackboard ----------------------------
(***************************************************************************)
(* A blackboard with memory for three entries, whose zeroth type is saved, *)
(* so that the collector finds something to collect, beside another saved  *)
(* type and the tick.  The calendar is scaled down: a minute has two       *)
(* seconds, an hour two minutes and a day two hours.                       *)
(***************************************************************************)
EXTENDS Blackboard, TLC

CONSTANTS r1, r2

Symmetry == Permutations(Entries) \cup Permutations(Readers)
=============================================================================
