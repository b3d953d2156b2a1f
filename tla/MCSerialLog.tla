---------------------------- MODULE MCSerialLog -----------------------------
(***************************************************************************)
(* SerialLog for TLC.                                                      *)
(***************************************************************************)
EXTENDS SerialLog
=============================================================================
