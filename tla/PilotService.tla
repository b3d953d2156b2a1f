---------------------------- MODULE PilotService ----------------------------
(***************************************************************************)
(* What the pilot of src/Modules/autopilot/autopilot.c promises to the     *)
(* scripts that command it and to the motors: one MOVE for each decision   *)
(* to engage, sent before anything is said of it; every state announced    *)
(* before it is left, so that no outcome is missed; and an engagement that *)
(* ends in "done" or "failed" and no other way, even when the motors may   *)
(* not be used any more.  No queue, thread, angle or distance appears here.*)
(***************************************************************************)
EXTENDS Integers

VARIABLES
  state,   \* "turning" stands for every state in which PILOT_ENGAGED is announced,
           \* "straight" for a move by encoders alone
  told,    \* the notifications that are announced
  phase,   \* "ready" for a message, "owing" a MOVE, "telling" its state
  link     \* MOVEs on their way to the motors

vars == <<state, told, phase, link>>

AtRest == {"idle", "done", "failed"}
AtWork == {"turning", "straight"}

Notice(s) ==
  IF s = "turning" THEN {"PILOT_ENGAGED"}
  ELSE IF s = "done" THEN {"PILOT_DONE"}
  ELSE IF s = "failed" THEN {"PILOT_FAILED"} ELSE {}

Init == state = "inactive" /\ told = {} /\ phase = "ready" /\ link = 0

\* The next state, and what is owed with it.
Enter(s, p) ==
  /\ phase = "ready"
  /\ state' = s /\ phase' = p
  /\ UNCHANGED <<told, link>>

BecomeReady == state = "inactive" /\ Enter("idle", "telling")

Withdraw == state \in AtRest /\ Enter("inactive", "telling")

\* A command, or the next part of a move.
Engage == state # "inactive" /\ \E s \in AtWork : Enter(s, "owing")

\* The end of a move, or of a command that needs none.
Conclude ==
  state # "inactive" /\ \E s \in {"done", "failed"} : s # state /\ Enter(s, "telling")

SendMove ==
  /\ phase = "owing" /\ phase' = "telling"
  /\ link' = link + 1
  /\ UNCHANGED <<state, told>>

Retract ==
  /\ phase = "telling" /\ told' = {}
  /\ UNCHANGED <<state, phase, link>>

Tell ==
  /\ phase = "telling" /\ phase' = "ready"
  /\ told' = Notice(state)
  /\ UNCHANGED <<state, link>>

MotorsTakeMove ==
  /\ link > 0 /\ link' = link - 1
  /\ UNCHANGED <<state, told, phase>>

Next ==
  \/ BecomeReady \/ Withdraw \/ Engage \/ Conclude
  \/ SendMove \/ Retract \/ Tell
  \/ MotorsTakeMove

Spec == Init /\ [][Next]_vars
=============================================================================
