---------------------------- MODULE MCAutopilot -----------------------------
(***************************************************************************)
(* Instances of Autopilot for TLC.  Places lie on the two axes, where the  *)
(* bearing needs no arc tangent.                                           *)
(***************************************************************************)
EXTENDS Autopilot

MCBearing(e, n) ==
  IF e = 0 THEN (IF n >= 0 THEN 0 ELSE 180) ELSE (IF e > 0 THEN 90 ELSE -90)

Tick(p) == [type |-> "TICK_1S", power |-> p]
Pose(l, o, h, n) == [type |-> "POSE",
  pose |-> [located |-> l, oriented |-> o, heading |-> h, north |-> n, east |-> 0]]
OrientTo(o, h) == [type |-> "ORIENT", orient |-> o, heading |-> h]
Move(v, x, n, e) == [type |-> "MOVEMENT", move |-> v, x |-> x, north |-> n, east |-> e]

\* Inhibition, power and moveOK come and go: few places, few commands.
InhibitMessages ==
  {Tick("active"), Tick("other"), Pose(TRUE, TRUE, 0, 0),
   OrientTo("compass", 90), Move("forward", 50, 0, 0), Move("none", 0, 0, 0)}

\* Every kind of goal: facing north at 0, facing south at 100, and the goal
\* at 100, at 0, or where the robot is.
MotionMessages ==
  {Tick("active"), Pose(TRUE, TRUE, 0, 0), Pose(FALSE, TRUE, 180, 100),
   OrientTo("relative", 180), Move("backward", 50, 0, 0),
   Move("absolute", 0, 100, 0), Move("relative", 0, 0, 0)}
=============================================================================
