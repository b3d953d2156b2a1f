----------------------------- MODULE Autopilot ------------------------------
(***************************************************************************)
(* The pilot of src/Modules/autopilot/autopilot.c: the thread that turns   *)
(* ORIENT and MOVEMENT commands into MOVE messages for the motor processor *)
(* and reports PILOT_ENGAGED, PILOT_DONE and PILOT_FAILED.                 *)
(*                                                                         *)
(* motorsState is written by two threads without a lock: the one that      *)
(* routes a notification of the motors (AutopilotProcessMessage assigns it *)
(* and then queues the message) and the pilot thread, after it has sent a  *)
(* MOVE.  The pilot takes the messages of autopilotQueue one at a time;    *)
(* what it does with one is a step, each call it then makes is another.    *)
(*                                                                         *)
(* The motor processor is external: it is the least the code relies on.    *)
(* inhibited is a history variable.                                        *)
(***************************************************************************)
EXTENDS Integers, Sequences, FiniteSets

CONSTANTS
  Messages,       \* commands, ticks, poses and odometry other threads route here
  MoveOKValues,   \* what a SET_OPTION message may make of moveOK
  Faults,         \* how the motors may fail: "errors", "inhibit"
  QueueBound,     \* bound: messages in autopilotQueue
  LinkBound,      \* bound: MOVE messages on the way to the motors
  Span,           \* bound: cm, of a coordinate from the origin
  ArrivalHeading, \* degrees: the setting arrivalHeading
  ArrivalRange,   \* cm: the setting arrivalRange
  Bearing(_, _)   \* (int) degrees of atan2(east, north)

Coordinates == -Span..Span

\* A tick carries the power state, a pose says what of it is valid, a
\* relative heading is added to one of -180..359.
ASSUME MessagesAssumption == \A m \in Messages :
  \/ m.type = "TICK_1S" /\ m.power \in {"active", "other"}
  \/ m.type = "ODOMETRY"
  \/ m.type = "POSE" /\ m.pose \in [located : BOOLEAN, oriented : BOOLEAN,
                                    heading : 0..359, north : Coordinates, east : Coordinates]
  \/ m.type = "ORIENT" /\ m.orient \in STRING /\ m.heading \in -180..359
  \/ m.type = "MOVEMENT" /\ m.move \in STRING /\ m.x \in Int
                         /\ m.north \in Coordinates /\ m.east \in Coordinates
\* moveOK is an option of 0 or 1.
ASSUME OptionAssumption == MoveOKValues \subseteq BOOLEAN
\* The two ways the motors may fail.
ASSUME FaultsAssumption == Faults \subseteq {"errors", "inhibit"}
\* The bounds and the settings of Settings.h.
ASSUME BoundsAssumption == /\ QueueBound \in Nat /\ LinkBound \in Nat /\ Span \in Nat
                           /\ ArrivalHeading \in 1..30 /\ ArrivalRange \in 1..30
\* atan2 is in -180..180 degrees, for a goal of at most twice Span.
ASSUME BearingAssumption ==
  \A e, n \in -3 * Span..3 * Span : Bearing(e, n) \in -180..180

NoMove == <<>>
None == "none"

VARIABLES
  queue,             \* autopilotQueue
  motorsState, moveOK,
  pc,                \* the pilot thread: "waiting" is GetNextMessage
  pilotState, priorPilotState, powerState, pose,
  desiredCompassHeading, goal,
  motor,             \* <<port, starboard>>, NoMove unless sendMovementMessage
  announced,         \* what Notify and CancelNotification leave notified
  rx, rxStage,       \* the notification RxThread is routing
  motion, uplink,    \* external: the motors, the MOVEs not yet there
  inhibited          \* history: the last inhibition the motors reported

shared == <<queue, motorsState, moveOK>>
pilot == <<pc, pilotState, priorPilotState, powerState, pose,
           desiredCompassHeading, goal, motor, announced>>
motors == <<motion, uplink>>
routing == <<rx, rxStage, inhibited>>
vars == <<queue, motorsState, moveOK, pc, pilotState, priorPilotState,
          powerState, pose, desiredCompassHeading, goal, motor, announced,
          rx, rxStage, motion, uplink, inhibited>>

Engaged == {"orienting", "aligning", "moving", "forward", "backward"}
Rest == {"idle", "done", "failed"}
PilotStates == Engaged \cup Rest \cup {"inactive"}
Notifications == {"MOTORS_INHIBIT", "-MOTORS_INHIBIT", "MOTORS_DONE",
                  "MOTORS_STARTING", "MOTORS_ERRORS"}

Init ==
  /\ queue = <<>>
  /\ motorsState = "inhibit"
  /\ moveOK = TRUE
  /\ pc = "waiting"
  /\ pilotState = "inactive" /\ priorPilotState = "inactive"
  /\ powerState = "other"
  /\ pose = [located |-> FALSE, oriented |-> FALSE,
             heading |-> 0, north |-> 0, east |-> 0]
  /\ desiredCompassHeading = 0
  /\ goal = [north |-> 0, east |-> 0]
  /\ motor = NoMove
  /\ announced = {}
  /\ rx = None /\ rxStage = "idle"
  /\ motion = "inhibited" /\ uplink = 0
  /\ inhibited = TRUE
-----------------------------------------------------------------------------
(* Arithmetic of the pilot *)

Abs(i) == IF i < 0 THEN -i ELSE i

\* The remainder of C, which takes the sign of the dividend.
Rem(a, b) == IF a < 0 THEN -((-a) % b) ELSE a % b

AngleError(desired, heading) ==
  LET e == Rem(360 + desired - heading, 360)
  IN IF e > 180 THEN e - 360 ELSE e

\* abs() truncates the radians to an int; the radius is 24 cm.
TurnRange(error) == ((Abs(error) * 31416) \div 1800000) * 24

\* The square root as StartMovement stores it, in an int: how many positive
\* integers have a square of at most n * n + e * e.
Distance(n, e) == Cardinality({d \in 1..(Abs(n) + Abs(e)) : d * d <= n * n + e * e})

Facing(h) == Abs(AngleError(h, pose.heading)) < ArrivalHeading

Turn(h) ==
  LET error == AngleError(h, pose.heading)
      range == TurnRange(error)
  IN IF error > 0 THEN <<range, -range>> ELSE <<-range, range>>

Drive(d) == IF d > 100 THEN <<100, 100>> ELSE <<d, d>>
-----------------------------------------------------------------------------
(* What the pilot does with a message *)

\* A new pilot state, and no MOVE.
Enter(s) ==
  /\ pilotState' = s
  /\ motor' = NoMove
  /\ UNCHANGED <<desiredCompassHeading, goal>>

\* Mutant of Orient: sendMovementMessage is not set for a turn.
OrientUnsent(h) ==
  /\ desiredCompassHeading' = h
  /\ UNCHANGED goal
  /\ pilotState' = IF Facing(h) THEN "done" ELSE "orienting"
  /\ motor' = NoMove

\* StartOrient and its callers: done, or a turn.
Orient(h) ==
  /\ desiredCompassHeading' = h
  /\ UNCHANGED goal
  /\ \/ Facing(h) /\ pilotState' = "done" /\ motor' = NoMove
     \/ ~Facing(h) /\ pilotState' = "orienting" /\ motor' = Turn(h)

\* StartAlignment, then StartMovement once aligned.
Approach(g) ==
  LET n == g.north - pose.north
      e == g.east - pose.east
      h == Bearing(e, n)
      d == Distance(n, e)
  IN
  /\ desiredCompassHeading' = h
  /\ goal' = g
  /\ \/ ~Facing(h) /\ pilotState' = "aligning" /\ motor' = Turn(h)
     \/ Facing(h) /\ d >= ArrivalRange /\ pilotState' = "moving" /\ motor' = Drive(d)
     \/ Facing(h) /\ d < ArrivalRange /\ pilotState' = "done" /\ motor' = NoMove

ProcessOrientCommand(m) ==
  \/ ~pose.oriented /\ Enter("failed")
  \/ pose.oriented /\ m.orient = "relative" /\ Orient(m.heading + pose.heading)
  \/ pose.oriented /\ m.orient = "compass" /\ Orient(m.heading)
  \/ pose.oriented /\ m.orient = "none" /\ Enter("done")
  \/ pose.oriented /\ m.orient \notin {"relative", "compass", "none"} /\ Enter("failed")

Straight(s, x) ==
  /\ pilotState' = s
  /\ motor' = <<x, x>>
  /\ UNCHANGED <<desiredCompassHeading, goal>>

ProcessMovementCommand(m) ==
  \/ m.move = "forward" /\ Straight("forward", m.x)
  \/ m.move = "backward" /\ Straight("backward", -m.x)
  \/ /\ m.move \in {"relative", "absolute"}
     /\ pose.oriented /\ pose.located
     /\ Approach(IF m.move = "absolute" THEN [north |-> m.north, east |-> m.east]
                 ELSE [north |-> m.north + pose.north, east |-> m.east + pose.east])
  \/ /\ m.move \in {"relative", "absolute"}
     /\ ~(pose.oriented /\ pose.located)
     /\ Enter("failed")
  \/ m.move = "none" /\ Enter("done")
  \/ /\ m.move \notin {"forward", "backward", "relative", "absolute", "none"}
     /\ Enter("failed")

IsCommand(m) == m.type \in {"ORIENT", "MOVEMENT"}

Command(m) ==
  \/ m.type = "ORIENT" /\ ProcessOrientCommand(m)
  \/ m.type = "MOVEMENT" /\ ProcessMovementCommand(m)

\* Mutant of MotorsReport: MOTORS_DONE does not end a move backward.
ReportMissesBackward(n) ==
  \/ n \in {"MOTORS_INHIBIT", "MOTORS_ERRORS"} /\ Enter("failed")
  \/ n \in {"MOTORS_STARTING", "-MOTORS_INHIBIT"} /\ Enter(pilotState)
  \/ /\ n = "MOTORS_DONE"
     /\ \/ pilotState = "orienting" /\ Orient(desiredCompassHeading)
        \/ pilotState \in {"aligning", "moving"} /\ Approach(goal)
        \/ pilotState = "forward" /\ Enter("done")
        \/ pilotState = "backward" /\ Enter("backward")

\* The motors report to an engaged pilot.
MotorsReport(n) ==
  \/ n \in {"MOTORS_INHIBIT", "MOTORS_ERRORS"} /\ Enter("failed")
  \/ n \in {"MOTORS_STARTING", "-MOTORS_INHIBIT"} /\ Enter(pilotState)
  \/ /\ n = "MOTORS_DONE"
     /\ \/ pilotState = "orienting" /\ Orient(desiredCompassHeading)
        \/ pilotState \in {"aligning", "moving"} /\ Approach(goal)
        \/ pilotState \in {"forward", "backward"} /\ Enter("done")

\* GetNextMessage, general processing, and where the thread goes when it has
\* dealt with the message.
Receive(m) ==
  /\ pc = "waiting"
  /\ queue' = Tail(queue)
  /\ powerState' = IF m.type = "TICK_1S" THEN m.power ELSE powerState
  /\ pose' = IF m.type = "POSE" THEN m.pose ELSE pose
  /\ UNCHANGED <<motorsState, moveOK, priorPilotState, announced, routing, motors>>

\* Mutant of Proceed: a change of state is announced without its MOVE.
ProceedUnsent == pc' =
  IF pilotState' # pilotState THEN "cancel"
  ELSE IF motor' # NoMove THEN "send" ELSE "waiting"

Proceed == pc' =
  IF motor' # NoMove THEN "send"
  ELSE IF pilotState' # pilotState THEN "cancel" ELSE "waiting"

\* Mutant of MovingOK: motorsState is not looked at.
MovingOKUnchecked(power) == power = "active" /\ moveOK

MovingOK(power) == power = "active" /\ moveOK /\ motorsState # "inhibit"

\* IDLE, DONE and FAILED: first check whether moving is OK.
HandleAtRest(m) ==
  /\ pilotState \in Rest
  /\ Receive(m)
  /\ \/ ~MovingOK(powerState') /\ Enter("inactive")
     \/ MovingOK(powerState') /\ Command(m)
     \/ MovingOK(powerState') /\ ~IsCommand(m) /\ Enter(pilotState)
  /\ Proceed

\* ORIENTING, ALIGNING, MOVING, FORWARD and BACKWARD.
HandleEngaged(m) ==
  /\ pilotState \in Engaged
  /\ Receive(m)
  /\ \/ Command(m)
     \/ m.type = "NOTIFICATION" /\ MotorsReport(m.value)
     \/ m.type \notin {"ORIENT", "MOVEMENT", "NOTIFICATION"} /\ Enter(pilotState)
  /\ Proceed

HandleInactive(m) ==
  /\ pilotState = "inactive"
  /\ Receive(m)
  /\ Enter(IF MovingOK(powerState') THEN "idle" ELSE "inactive")
  /\ Proceed

-----------------------------------------------------------------------------
(* The calls the pilot thread makes after a message *)

\* RouteMessage queues the MOVE for the motors.
SendMove ==
  /\ pc = "send"
  /\ uplink < LinkBound
  /\ uplink' = uplink + 1
  /\ pc' = "mark"
  /\ UNCHANGED <<shared, pilotState, priorPilotState, powerState, pose,
                 desiredCompassHeading, goal, motor, announced, routing, motion>>

\* motorsState is overwritten, whatever RxThread has put there meanwhile.
MarkCommanded ==
  /\ pc = "mark"
  /\ motorsState' = "commanded"
  /\ motor' = NoMove
  /\ pc' = IF priorPilotState = pilotState THEN "waiting" ELSE "cancel"
  /\ UNCHANGED <<queue, moveOK, pilotState, priorPilotState, powerState, pose,
                 desiredCompassHeading, goal, announced, routing, motors>>

\* The notification a state stands for, if any.
Notice(s) ==
  IF s \in {"orienting", "aligning", "moving"} THEN {"PILOT_ENGAGED"}
  ELSE IF s = "done" THEN {"PILOT_DONE"}
  ELSE IF s = "failed" THEN {"PILOT_FAILED"} ELSE {}

\* Mutant of CancelPrior: the case of PILOT_STATE_FAILED is missing.
CancelAllButFailed ==
  /\ pc = "cancel"
  /\ announced' = announced \ (Notice(priorPilotState) \ {"PILOT_FAILED"})
  /\ pc' = "notify"
  /\ UNCHANGED <<shared, pilotState, priorPilotState, powerState, pose,
                 desiredCompassHeading, goal, motor, routing, motors>>

CancelPrior ==
  /\ pc = "cancel"
  /\ announced' = announced \ Notice(priorPilotState)
  /\ pc' = "notify"
  /\ UNCHANGED <<shared, pilotState, priorPilotState, powerState, pose,
                 desiredCompassHeading, goal, motor, routing, motors>>

\* priorPilotState is assigned again before it is next read: here already.
NotifyState ==
  /\ pc = "notify"
  /\ announced' = announced \cup Notice(pilotState)
  /\ priorPilotState' = pilotState
  /\ pc' = "waiting"
  /\ UNCHANGED <<shared, pilotState, powerState, pose,
                 desiredCompassHeading, goal, motor, routing, motors>>

-----------------------------------------------------------------------------
(* Other threads *)

\* A command, tick, pose or odometry message: AutopilotProcessMessage queues it.
Deliver(m) ==
  /\ Len(queue) < QueueBound
  /\ queue' = Append(queue, m)
  /\ UNCHANGED <<motorsState, moveOK, pilot, routing, motors>>

\* The blackboard thread sets the option moveOK.
SetMoveOK(b) ==
  /\ moveOK' = b
  /\ UNCHANGED <<queue, motorsState, pilot, routing, motors>>

StateReported(n) ==
  CASE n = "MOTORS_INHIBIT" -> "inhibit"
    [] n \in {"-MOTORS_INHIBIT", "MOTORS_DONE"} -> "idle"
    [] n = "MOTORS_STARTING" -> "running"
    [] n = "MOTORS_ERRORS" -> "errors"

\* Mutant of AssignMotorsState: the notification itself is assigned, both
\* being ints to C.
AssignNotification ==
  /\ rxStage = "arrived"
  /\ motorsState' = rx
  /\ rxStage' = "assigned"
  /\ UNCHANGED <<queue, moveOK, pilot, rx, inhibited, motors>>

\* AutopilotProcessMessage assigns motorsState ...
AssignMotorsState ==
  /\ rxStage = "arrived"
  /\ motorsState' = StateReported(rx)
  /\ inhibited' = CASE rx = "MOTORS_INHIBIT" -> TRUE
                    [] rx = "-MOTORS_INHIBIT" -> FALSE
                    [] OTHER -> inhibited
  /\ rxStage' = "assigned"
  /\ UNCHANGED <<queue, moveOK, pilot, rx, motors>>

\* ... and then queues the message.
QueueNotification ==
  /\ rxStage = "assigned"
  /\ Len(queue) < QueueBound
  /\ queue' = Append(queue, [type |-> "NOTIFICATION", value |-> rx])
  /\ rx' = None /\ rxStage' = "idle"
  /\ UNCHANGED <<motorsState, moveOK, pilot, inhibited, motors>>

-----------------------------------------------------------------------------
(* External: the motor processor *)

Report(n) ==
  /\ rxStage = "idle"
  /\ rx' = n /\ rxStage' = "arrived"
  /\ UNCHANGED <<shared, pilot, uplink, inhibited>>

\* A MOVE replaces the one under way; inhibited motors ignore it.
MotorsTakeMove ==
  /\ uplink > 0
  /\ uplink' = uplink - 1
  /\ motion' = IF motion = "inhibited" THEN "inhibited" ELSE "accepted"
  /\ UNCHANGED <<shared, pilot, routing>>

MotorsStart ==
  motion = "accepted" /\ motion' = "running" /\ Report("MOTORS_STARTING")

MotorsFinish ==
  motion = "running" /\ motion' = "stopped" /\ Report("MOTORS_DONE")

MotorsFail ==
  /\ "errors" \in Faults
  /\ motion \in {"accepted", "running"} /\ motion' = "stopped"
  /\ Report("MOTORS_ERRORS")

MotorsInhibit ==
  /\ "inhibit" \in Faults
  /\ motion # "inhibited" /\ motion' = "inhibited"
  /\ Report("MOTORS_INHIBIT")

MotorsRelease ==
  motion = "inhibited" /\ motion' = "stopped" /\ Report("-MOTORS_INHIBIT")

-----------------------------------------------------------------------------
Handle ==
  /\ queue # <<>>
  /\ LET m == Head(queue) IN
       HandleAtRest(m) \/ HandleEngaged(m) \/ HandleInactive(m)

PilotThread == Handle \/ SendMove \/ MarkCommanded \/ CancelPrior \/ NotifyState

Motors == MotorsTakeMove \/ MotorsStart \/ MotorsFinish

Next ==
  \/ PilotThread
  \/ AssignMotorsState \/ QueueNotification
  \/ \E m \in Messages : Deliver(m)
  \/ \E b \in MoveOKValues : SetMoveOK(b)
  \/ Motors \/ MotorsFail \/ MotorsInhibit \/ MotorsRelease

Spec == Init /\ [][Next]_vars

\* The scheduler runs every thread; the motors carry out the moves they get;
\* a report is not shut out for ever by others or by a full queue.
Fairness ==
  /\ WF_vars(PilotThread)
  /\ WF_vars(AssignMotorsState)
  /\ SF_vars(QueueNotification)
  /\ WF_vars(MotorsTakeMove)
  /\ SF_vars(MotorsStart)
  /\ SF_vars(MotorsFinish)

FairSpec == Spec /\ Fairness
-----------------------------------------------------------------------------
Powers == {"active", "other"}
Poses == [located : BOOLEAN, oriented : BOOLEAN,
          heading : 0..359, north : Coordinates, east : Coordinates]
Goals == [north : -2 * Span..2 * Span, east : -2 * Span..2 * Span]
Reports == [type : {"NOTIFICATION"}, value : Notifications]

\* Every variable has its type.
TypeOK ==
  /\ queue \in Seq(Messages \cup Reports)
  /\ motorsState \in {"idle", "commanded", "running", "inhibit", "errors"}
  /\ moveOK \in BOOLEAN
  /\ pc \in {"waiting", "send", "mark", "cancel", "notify"}
  /\ pilotState \in PilotStates
  /\ priorPilotState \in PilotStates
  /\ powerState \in Powers
  /\ pose \in Poses
  /\ desiredCompassHeading \in -180..718
  /\ goal \in Goals
  /\ motor \in {NoMove} \cup (Int \X Int)
  /\ announced \subseteq {"PILOT_ENGAGED", "PILOT_DONE", "PILOT_FAILED"}
  /\ rx \in Notifications \cup {None}
  /\ rxStage \in {"idle", "arrived", "assigned"}
  /\ motion \in {"stopped", "accepted", "running", "inhibited"}
  /\ uplink \in 0..LinkBound
  /\ inhibited \in BOOLEAN

\* The notifications the pilot leaves active are those of its state: whichever
\* state follows which, what was announced is cancelled and nothing else
\* stays.  The scripts and the responder know the pilot by them alone.
NotificationsCurrent == pc = "waiting" => announced = Notice(pilotState)

IsReport(m, ns) == m.type = "NOTIFICATION" /\ m.value \in ns

\* There is a report of one of ns the pilot has not dealt with.
Pending(ns) == rx \in ns \/ \E i \in 1..Len(queue) : IsReport(queue[i], ns)

\* A pilot that is engaged while motorsState says the motors are inhibited has
\* the report of it still to come: AutopilotProcessMessage assigns the state
\* first and queues the message after, so that no command it finds acceptable
\* is left engaged with motors that will not move.
InhibitReachesPilot ==
  motorsState = "inhibit" /\ pilotState \in Engaged => Pending({"MOTORS_INHIBIT"})

\* Motors that are never inhibited once released do not leave the pilot
\* stranded: an engaged pilot, which has no timeout, has a MOVE to send or on
\* its way, or the motors at work, or their answer waiting to be handled.
NeverStranded ==
  pilotState \in Engaged =>
    \/ pc = "send" \/ uplink > 0
    \/ motion \in {"accepted", "running"}
    \/ Pending({"MOTORS_DONE", "MOTORS_ERRORS"})

\* A move by encoders alone ends, when the motors are not inhibited, unless
\* another command comes: no lock, queue or missed report holds it for ever.
StraightMovesEnd ==
  pilotState \in {"forward", "backward"} ~>
    \/ pilotState \notin {"forward", "backward"}
    \/ \E i \in DOMAIN queue : IsCommand(queue[i])

\* "First check whether moving OK": a pilot at rest does not engage motors
\* that are inhibited, once it has dealt with their report of it.
InhibitHonoured ==
  [][(pilotState \in Rest /\ pilotState' \in Engaged) =>
       ~inhibited \/ Pending({"MOTORS_INHIBIT"})]_vars

\* The pilot as its clients see it.
ServiceState ==
  IF pilotState \in {"orienting", "aligning", "moving"} THEN "turning"
  ELSE IF pilotState \in {"forward", "backward"} THEN "straight" ELSE pilotState

ServicePhase ==
  IF pc = "waiting" THEN "ready" ELSE IF pc = "send" THEN "owing" ELSE "telling"

Service == INSTANCE PilotService
  WITH state <- ServiceState, told <- announced, phase <- ServicePhase, link <- uplink

\* The pilot thread keeps the promises of PilotService: whatever it is sent, in
\* whatever order, every decision to engage sends one MOVE, every state is
\* announced before the next message, and an engagement ends as done or failed.
ServesClients == Service!Spec
=============================================================================
