---------------------------- MODULE MCNavigator -----------------------------
(***************************************************************************)
(* Navigator for TLC: a window long enough to collect a good average, and  *)
(* one that is over before it starts.                                      *)
(***************************************************************************)
EXTENDS Navigator

MCWindows == {-1, 3}
=============================================================================
