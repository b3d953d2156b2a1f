--------------------------- MODULE MCGpsNavigator --------------------------
(***************************************************************************)
(* GpsNavigator for TLC: a window long enough to collect a good average,   *)
(* and one that is over before it starts.                                  *)
(***************************************************************************)
EXTENDS GpsNavigator

MCWindows == {-1, 2}
=============================================================================
