---------------------------- MODULE MCScripting -----------------------------
(***************************************************************************)
(* Scripting for TLC: two editions of the scripts.  The second lacks what  *)
(* a hook calls and has a folder that fails to load, and so many scripts   *)
(* that their number does not fit a byte.                                  *)
(***************************************************************************)
EXTENDS Scripting

Complete ==
  [functions |-> Hooks \cup {"activate", "update", "stop"}, activities |-> 0, ok |-> TRUE]
Broken ==
  [functions |-> {"activate", "update", "go", "stop", "tickhook"}, activities |-> 240, ok |-> FALSE]

TwoEditions == <<Complete, Broken>>
=============================================================================
