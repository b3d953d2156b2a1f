-------------------------- MODULE AutopilotProofs ---------------------------
(***************************************************************************)
(* Proofs about Autopilot, for all message sets, bounds and settings.      *)
(*                                                                         *)
(* The inductive invariant adds to the properties what relates the local   *)
(* state of the threads: priorPilotState is what has been announced        *)
(* (NoticeInv), and RxThread has a notification exactly when it routes one *)
(* (RoutingInv).                                                           *)
(***************************************************************************)
EXTENDS Autopilot, FiniteSetTheorems, SequenceTheorems, TLAPS

Moves == {NoMove} \cup (Int \X Int)
Headings == -180..718

NoticeInv ==
  /\ pc = "waiting" => priorPilotState = pilotState
  /\ announced = IF pc = "notify" THEN {} ELSE Notice(priorPilotState)

RoutingInv == IF rxStage = "idle" THEN rx = None ELSE rx \in Notifications

Inv == TypeOK /\ NoticeInv /\ RoutingInv /\ InhibitReachesPilot

-----------------------------------------------------------------------------
(* Arithmetic *)

\* The error StartOrient computes is a signed angle: at most half a turn
\* either way, and a whole number of turns from the difference of the headings.
LEMMA AngleErrorBounds ==
  ASSUME NEW d \in Headings, NEW h \in 0..359
  PROVE  /\ AngleError(d, h) \in -179..180
         /\ (AngleError(d, h) - (d - h)) % 360 = 0
<1> DEFINE a == 360 + d - h
<1>1. a \in -179..1078  BY DEF Headings
<1> DEFINE r == Rem(a, 360)
<1>2. r \in -179..359 /\ r - a \in {0, -360, -720}
  <2>1. CASE a < 0
    <3>1. (-a) % 360 = -a  BY <1>1, <2>1
    <3>2. r = a  BY <1>1, <2>1, <3>1 DEF Rem
    <3> QED BY <1>1, <2>1, <3>2
  <2>2. CASE a >= 0
    <3>1. r = a % 360  BY <1>1, <2>2 DEF Rem
    <3> HIDE DEF a, r
    <3>2. \/ a \in 0..359 /\ a % 360 = a
          \/ a \in 360..719 /\ a % 360 = a - 360
          \/ a \in 720..1078 /\ a % 360 = a - 720
      <4>1. CASE a \in 0..359  BY <4>1
      <4>2. CASE a \in 360..719  BY <4>2
      <4>3. CASE a \in 720..1078  BY <4>3
      <4> QED BY <1>1, <2>2, <4>1, <4>2, <4>3
    <3> QED BY <3>1, <3>2
  <2> QED BY <1>1, <2>1, <2>2
<1>3. AngleError(d, h) = IF r > 180 THEN r - 360 ELSE r  BY DEF AngleError
<1>4. /\ AngleError(d, h) \in -179..180
      /\ AngleError(d, h) - (d - h) \in {360, 0, -360, -720}
  <2>1. a = 360 + (d - h) /\ d - h \in Int  BY DEF Headings
  <2> HIDE DEF r, a
  <2> QED BY <1>1, <1>2, <1>3, <2>1
<1>5. \A x \in {360, 0, -360, -720} : x % 360 = 0
  OBVIOUS
<1> QED BY <1>4, <1>5

\* A turn is a MOVE, even when abs() has made it one of 0 cm.
LEMMA TurnIsMove ==
  ASSUME TypeOK, NEW h \in Headings
  PROVE  Turn(h) \in Moves /\ Turn(h) # NoMove
<1> DEFINE error == AngleError(h, pose.heading)
           range == TurnRange(error)
<1>1. pose.heading \in 0..359  BY DEF TypeOK, Poses
<1>2. error \in Int
  <2>1. AngleError(h, pose.heading) \in -179..180
    BY <1>1, AngleErrorBounds, Zenon
  <2> QED BY <2>1
<1>3. Abs(error) \in Nat
  <2> HIDE DEF error
  <2> QED BY <1>2 DEF Abs
<1>4. range \in Int
  <2> HIDE DEF error
  <2>1. (Abs(error) * 31416) \div 1800000 \in Int  BY <1>3
  <2> QED BY <2>1 DEF TurnRange
<1>5. Turn(h) = IF error > 0 THEN <<range, -range>> ELSE <<-range, range>>
  BY DEF Turn
<1> HIDE DEF range, error
<1> QED BY <1>4, <1>5 DEF Moves, NoMove

LEMMA DistanceIsNat ==
  ASSUME NEW n \in Int, NEW e \in Int
  PROVE  Distance(n, e) \in Nat
<1> DEFINE I == 1..(Abs(n) + Abs(e))
           S == {d \in I : d * d <= n * n + e * e}
<1>1. Abs(n) + Abs(e) \in Int  BY DEF Abs
<1>2. IsFiniteSet(I)  BY <1>1, FS_Interval
<1>3. IsFiniteSet(S)  BY <1>2, FS_Subset
<1> QED BY <1>3, FS_CardinalityType DEF Distance

LEMMA DriveIsMove ==
  ASSUME NEW d \in Int
  PROVE  Drive(d) \in Moves /\ Drive(d) # NoMove
BY DEF Drive, Moves, NoMove

-----------------------------------------------------------------------------
(* What a decision of the pilot leaves *)

\* The variables a decision assigns keep their types, and a pilot that engages,
\* and no other, has a MOVE to send.
Decision ==
  /\ pilotState' \in Engaged \cup {"done", "failed"}
  /\ motor' \in Moves
  /\ desiredCompassHeading' \in Headings
  /\ goal' \in Goals
  /\ pilotState' \in Engaged <=> motor' # NoMove

LEMMA MessageKinds ==
  ASSUME NEW m \in Messages \cup Reports
  PROVE  /\ m.type = "TICK_1S" => m.power \in Powers
         /\ m.type = "POSE" => m.pose \in Poses
         /\ m.type = "ORIENT" => m.heading \in -180..359
         /\ m.type = "MOVEMENT" => /\ m.x \in Int
                                   /\ m.north \in Coordinates
                                   /\ m.east \in Coordinates
         /\ m.type = "NOTIFICATION" => m.value \in Notifications
<1>1. CASE m \in Messages
  BY <1>1, MessagesAssumption DEF Powers, Poses
<1>2. CASE m \in Reports
  BY <1>2 DEF Reports
<1> QED BY <1>1, <1>2

LEMMA OrientDecides ==
  ASSUME TypeOK, NEW h \in Headings, Orient(h)
  PROVE  Decision
<1>1. desiredCompassHeading' \in Headings /\ goal' \in Goals
  BY DEF Orient, TypeOK
<1>2. CASE pilotState' = "done" /\ motor' = NoMove
  BY <1>1, <1>2 DEF Decision, Moves, Engaged
<1>3. CASE pilotState' = "orienting" /\ motor' = Turn(h)
  BY <1>1, <1>3, TurnIsMove DEF Decision, Engaged
<1> QED BY <1>2, <1>3 DEF Orient

LEMMA ApproachDecides ==
  ASSUME TypeOK, NEW g \in Goals, Approach(g)
  PROVE  Decision
<1> DEFINE n == g.north - pose.north
           e == g.east - pose.east
           h == Bearing(e, n)
           d == Distance(n, e)
<1>1. n \in -3 * Span..3 * Span /\ e \in -3 * Span..3 * Span
  BY BoundsAssumption DEF TypeOK, Goals, Poses, Coordinates
<1>2. n \in Int /\ e \in Int
  BY <1>1, BoundsAssumption
<1>3. h \in Headings
  <2> HIDE DEF n, e
  <2>1. Bearing(e, n) \in -180..180  BY <1>1, BearingAssumption, Zenon
  <2> QED BY <2>1 DEF Headings
<1>4. d \in Int
  <2> HIDE DEF n, e
  <2> QED BY <1>2, DistanceIsNat
<1>5. /\ desiredCompassHeading' = h /\ goal' = g
      /\ \/ pilotState' = "aligning" /\ motor' = Turn(h)
         \/ pilotState' = "moving" /\ motor' = Drive(d)
         \/ pilotState' = "done" /\ motor' = NoMove
  BY DEF Approach
<1>6. Turn(h) \in Moves /\ Turn(h) # NoMove
  <2> HIDE DEF h
  <2> QED BY <1>3, TurnIsMove
<1>7. Drive(d) \in Moves /\ Drive(d) # NoMove
  <2> HIDE DEF d
  <2> QED BY <1>4, DriveIsMove
<1> HIDE DEF n, e, h, d
<1>8. desiredCompassHeading' \in Headings /\ goal' \in Goals
  BY <1>3, <1>5
<1>9. CASE pilotState' = "aligning" /\ motor' = Turn(h)
  BY <1>6, <1>8, <1>9 DEF Decision, Engaged
<1>10. CASE pilotState' = "moving" /\ motor' = Drive(d)
  BY <1>7, <1>8, <1>10 DEF Decision, Engaged
<1>11. CASE pilotState' = "done" /\ motor' = NoMove
  BY <1>8, <1>11 DEF Decision, Engaged, Moves
<1> QED BY <1>5, <1>9, <1>10, <1>11

LEMMA EnterDecides ==
  ASSUME TypeOK, NEW s \in {"done", "failed"}, Enter(s)
  PROVE  Decision
BY DEF Enter, Decision, Engaged, Moves, Headings, TypeOK

LEMMA StraightDecides ==
  ASSUME TypeOK, NEW s \in {"forward", "backward"}, NEW x \in Int, Straight(s, x)
  PROVE  Decision
BY DEF Straight, Decision, Engaged, Moves, NoMove, Headings, TypeOK

LEMMA CommandDecides ==
  ASSUME TypeOK, NEW m \in Messages \cup Reports, Command(m)
  PROVE  Decision
<1>1. CASE m.type = "ORIENT" /\ ProcessOrientCommand(m)
  <2>1. m.heading \in -180..359 /\ pose.heading \in 0..359
    BY <1>1, MessageKinds DEF TypeOK, Poses
  <2>2. m.heading \in Headings /\ m.heading + pose.heading \in Headings
    <3>1. ASSUME NEW i \in -180..359, NEW j \in 0..359
          PROVE  i \in -180..718 /\ i + j \in -180..718
      BY <3>1
    <3> QED BY <2>1, <3>1, Zenon DEF Headings
  <2>3. CASE Orient(m.heading + pose.heading)  BY <2>2, <2>3, OrientDecides
  <2>4. CASE Orient(m.heading)  BY <2>2, <2>4, OrientDecides
  <2>5. CASE Enter("done") \/ Enter("failed")  BY <2>5, EnterDecides
  <2> QED BY <1>1, <2>3, <2>4, <2>5 DEF ProcessOrientCommand
<1>2. CASE m.type = "MOVEMENT" /\ ProcessMovementCommand(m)
  <2>1. m.x \in Int /\ m.north \in Coordinates /\ m.east \in Coordinates
    BY <1>2, MessageKinds
  <2>2. pose.north \in Coordinates /\ pose.east \in Coordinates
    BY DEF TypeOK, Poses
  <2>3. [north |-> m.north, east |-> m.east] \in Goals
    BY <2>1, BoundsAssumption DEF Goals, Coordinates
  <2>4. [north |-> m.north + pose.north, east |-> m.east + pose.east] \in Goals
    BY <2>1, <2>2, BoundsAssumption DEF Goals, Coordinates
  <2>5. CASE Straight("forward", m.x) \/ Straight("backward", -m.x)
    <3>1. -m.x \in Int  BY <2>1
    <3> QED BY <2>1, <2>5, <3>1, StraightDecides
  <2>6. CASE Approach([north |-> m.north, east |-> m.east])
    BY <2>3, <2>6, ApproachDecides
  <2>7. CASE Approach([north |-> m.north + pose.north, east |-> m.east + pose.east])
    BY <2>4, <2>7, ApproachDecides
  <2>8. CASE Enter("done") \/ Enter("failed")  BY <2>8, EnterDecides
  <2> QED BY <1>2, <2>5, <2>6, <2>7, <2>8 DEF ProcessMovementCommand
<1> QED BY <1>1, <1>2 DEF Command

-----------------------------------------------------------------------------
(* What the thread has done when it has handled a message *)

Answers == {"MOTORS_DONE", "MOTORS_ERRORS"}

\* A pilot that is engaged after a message has a MOVE to send, or was engaged
\* before and the message was no report that ends a move.
Resolved(m) ==
  pilotState' \in Engaged =>
    \/ /\ motor' # NoMove
       /\ pilotState \in Engaged \/ motorsState # "inhibit"
       /\ ~IsReport(m, {"MOTORS_INHIBIT"})
    \/ /\ pilotState' = pilotState
       /\ ~IsReport(m, Answers \cup {"MOTORS_INHIBIT"})

\* How the state may follow the one before.
Permitted ==
  \/ pilotState' = pilotState /\ motor' = NoMove
  \/ /\ pilotState # "inactive"
     /\ pilotState' \in Engaged \cup {"done", "failed"}
     /\ pilotState' \in Engaged <=> motor' # NoMove
  \/ pilotState = "inactive" /\ pilotState' = "idle" /\ motor' = NoMove
  \/ pilotState \in Rest /\ pilotState' = "inactive" /\ motor' = NoMove

Handled(m) ==
  /\ Receive(m) /\ Proceed /\ Resolved(m) /\ Permitted
  /\ powerState' \in Powers /\ pose' \in Poses
  /\ pilotState' \in PilotStates
  /\ motor' \in Moves
  /\ desiredCompassHeading' \in Headings
  /\ goal' \in Goals
  /\ pilotState = "inactive" /\ motorsState = "inhibit" =>
       pilotState' = "inactive" /\ motor' = NoMove

LEMMA ReportDecides ==
  ASSUME TypeOK, pilotState \in Engaged, NEW n \in Notifications, MotorsReport(n)
  PROVE  \/ /\ Decision
            /\ n = "MOTORS_INHIBIT" => pilotState' \notin Engaged
         \/ Enter(pilotState) /\ n \notin Answers \cup {"MOTORS_INHIBIT"}
<1>1. CASE n \in {"MOTORS_INHIBIT", "MOTORS_ERRORS"} /\ Enter("failed")
  <2>1. Decision  BY <1>1, EnterDecides
  <2> QED BY <1>1, <2>1 DEF Enter, Engaged
<1>2. CASE n \in {"MOTORS_STARTING", "-MOTORS_INHIBIT"} /\ Enter(pilotState)
  BY <1>2 DEF Answers
<1>3. CASE n = "MOTORS_DONE" /\ pilotState = "orienting" /\ Orient(desiredCompassHeading)
  <2>1. desiredCompassHeading \in Headings  BY DEF TypeOK, Headings
  <2> QED BY <1>3, <2>1, OrientDecides
<1>4. CASE n = "MOTORS_DONE" /\ Approach(goal)
  <2>1. goal \in Goals  BY DEF TypeOK
  <2> QED BY <1>4, <2>1, ApproachDecides
<1>5. CASE n = "MOTORS_DONE" /\ Enter("done")
  BY <1>5, EnterDecides
<1> QED BY <1>1, <1>2, <1>3, <1>4, <1>5 DEF MotorsReport

\* Decisions and unchanged states resolve a message that has been received.
LEMMA DecisionHandles ==
  ASSUME TypeOK, NEW m \in Messages \cup Reports, Receive(m), Proceed, Decision,
         pilotState \in Engaged \/ MovingOK(powerState'),
         pilotState # "inactive",
         IsReport(m, {"MOTORS_INHIBIT"}) => pilotState' \notin Engaged
  PROVE  Handled(m)
<1>1. powerState' \in Powers /\ pose' \in Poses
  BY MessageKinds DEF Receive, TypeOK
<1>2. Resolved(m)
  BY DEF Decision, Resolved, MovingOK
<1>3. pilotState' \in PilotStates
  BY DEF Decision, PilotStates, Rest
<1>4. Permitted
  BY DEF Decision, Permitted
<1> QED BY <1>1, <1>2, <1>3, <1>4 DEF Handled, Decision

LEMMA EnterHandles ==
  ASSUME TypeOK, NEW m \in Messages \cup Reports, Receive(m), Proceed,
         NEW s \in PilotStates, Enter(s),
         s \in Engaged => /\ s = pilotState
                          /\ ~IsReport(m, Answers \cup {"MOTORS_INHIBIT"}),
         pilotState = "inactive" /\ motorsState = "inhibit" => s = "inactive",
         \/ s = pilotState
         \/ pilotState = "inactive" /\ s = "idle"
         \/ pilotState \in Rest /\ s = "inactive"
         \/ pilotState # "inactive" /\ s \in {"done", "failed"}
  PROVE  Handled(m)
<1>1. powerState' \in Powers /\ pose' \in Poses
  BY MessageKinds DEF Receive, TypeOK
<1>2. Resolved(m)
  BY DEF Enter, Resolved
<1>3. Permitted
  BY DEF Enter, Permitted, Engaged
<1> QED BY <1>1, <1>2, <1>3 DEF Handled, Enter, Moves, Headings, TypeOK

LEMMA HandleStep ==
  ASSUME TypeOK, Handle
  PROVE  /\ queue # <<>> /\ Head(queue) \in Messages \cup Reports
         /\ Handled(Head(queue))
<1> DEFINE m == Head(queue)
<1>1. queue # <<>> /\ m \in Messages \cup Reports
  BY DEF Handle, TypeOK
<1> SUFFICES Handled(m)  BY <1>1
<1>2. HandleAtRest(m) \/ HandleEngaged(m) \/ HandleInactive(m)
  BY DEF Handle
<1> HIDE DEF m
<1>3. CASE HandleAtRest(m)
  <2>1. pilotState \in Rest /\ Receive(m) /\ Proceed
    BY <1>3 DEF HandleAtRest
  <2>2. pilotState \notin Engaged /\ pilotState # "inactive"
    BY <2>1 DEF Rest, Engaged
  <2>3. CASE Enter("inactive")
    BY <1>1, <2>1, <2>3, EnterHandles DEF PilotStates, Engaged
  <2>4. CASE MovingOK(powerState') /\ Command(m)
    <3>1. Decision  BY <1>1, <2>4, CommandDecides
    <3>2. ~IsReport(m, {"MOTORS_INHIBIT"})
      BY <2>4 DEF Command, IsReport
    <3> QED BY <1>1, <2>1, <2>2, <2>4, <3>1, <3>2, DecisionHandles
  <2>5. CASE Enter(pilotState)
    <3>1. pilotState \in PilotStates  BY DEF TypeOK
    <3> QED BY <1>1, <2>1, <2>2, <2>5, <3>1, EnterHandles
  <2> QED BY <1>3, <2>3, <2>4, <2>5 DEF HandleAtRest
<1>4. CASE HandleEngaged(m)
  <2>1. pilotState \in Engaged /\ Receive(m) /\ Proceed
    BY <1>4 DEF HandleEngaged
  <2>2. pilotState # "inactive" /\ pilotState \in PilotStates
    BY <2>1 DEF Engaged, PilotStates
  <2>3. CASE Command(m)
    <3>1. Decision  BY <1>1, <2>3, CommandDecides
    <3>2. ~IsReport(m, {"MOTORS_INHIBIT"})
      BY <2>3 DEF Command, IsReport
    <3> QED BY <1>1, <2>1, <2>2, <3>1, <3>2, DecisionHandles
  <2>4. CASE m.type = "NOTIFICATION" /\ MotorsReport(m.value)
    <3>1. m.value \in Notifications  BY <1>1, <2>4, MessageKinds
    <3>2. CASE Decision /\ (m.value = "MOTORS_INHIBIT" => pilotState' \notin Engaged)
      <4>1. IsReport(m, {"MOTORS_INHIBIT"}) => pilotState' \notin Engaged
        BY <3>2 DEF IsReport
      <4> QED BY <1>1, <2>1, <2>2, <3>2, <4>1, DecisionHandles
    <3>3. CASE Enter(pilotState) /\ m.value \notin Answers \cup {"MOTORS_INHIBIT"}
      <4>1. ~IsReport(m, Answers \cup {"MOTORS_INHIBIT"})  BY <3>3 DEF IsReport
      <4> QED BY <1>1, <2>1, <2>2, <3>3, <4>1, EnterHandles
    <3> QED BY <2>1, <2>4, <3>1, <3>2, <3>3, ReportDecides
  <2>5. CASE m.type # "NOTIFICATION" /\ Enter(pilotState)
    <3>1. ~IsReport(m, Answers \cup {"MOTORS_INHIBIT"})  BY <2>5 DEF IsReport
    <3> QED BY <1>1, <2>1, <2>2, <2>5, <3>1, EnterHandles
  <2> QED BY <1>4, <2>3, <2>4, <2>5 DEF HandleEngaged
<1>5. CASE HandleInactive(m)
  <2> DEFINE s == IF MovingOK(powerState') THEN "idle" ELSE "inactive"
  <2>1. pilotState = "inactive" /\ Receive(m) /\ Proceed /\ Enter(s)
    BY <1>5 DEF HandleInactive
  <2>2. s \in PilotStates /\ s \notin Engaged /\ s \in {"idle", "inactive"}
    BY DEF PilotStates, Rest, Engaged
  <2>3. motorsState = "inhibit" => s = "inactive"
    BY DEF MovingOK
  <2> HIDE DEF s
  <2> QED BY <1>1, <2>1, <2>2, <2>3, EnterHandles
<1> QED BY <1>2, <1>3, <1>4, <1>5

-----------------------------------------------------------------------------
(* Pending reports *)

LEMMA AppendKeepsPending ==
  ASSUME TypeOK, NEW ns, NEW m, Pending(ns), queue' = Append(queue, m),
         rx \in ns => (rx' \in ns \/ IsReport(m, ns))
  PROVE  Pending(ns)'
<1> DEFINE n == Len(queue)
<1>1. queue \in Seq(Messages \cup Reports)  BY DEF TypeOK
<1>2. /\ n \in Nat /\ Len(Append(queue, m)) = n + 1
      /\ Append(queue, m)[n + 1] = m
      /\ \A i \in 1..n : Append(queue, m)[i] = queue[i]
  BY <1>1
<1>3. CASE rx' \in ns  BY <1>3 DEF Pending
<1>4. CASE IsReport(m, ns)
  <2>1. n + 1 \in 1..Len(queue') /\ queue'[n + 1] = m  BY <1>2
  <2> QED BY <1>4, <2>1 DEF Pending, IsReport
<1>5. CASE \E i \in 1..n : IsReport(queue[i], ns)
  <2>1. PICK i \in 1..n : IsReport(queue[i], ns)  BY <1>5
  <2>2. i \in 1..Len(queue') /\ queue'[i] = queue[i]  BY <1>2
  <2> QED BY <2>1, <2>2 DEF Pending, IsReport
<1> QED BY <1>3, <1>4, <1>5 DEF Pending

LEMMA TailKeepsPending ==
  ASSUME TypeOK, NEW ns, Pending(ns), queue # <<>>, ~IsReport(Head(queue), ns),
         queue' = Tail(queue), rx' = rx
  PROVE  Pending(ns)'
<1> DEFINE n == Len(queue)
<1>1. queue \in Seq(Messages \cup Reports)  BY DEF TypeOK
<1>2. /\ n \in Nat /\ Len(Tail(queue)) = n - 1
      /\ \A i \in 1..(n - 1) : Tail(queue)[i] = queue[i + 1]
      /\ Head(queue) = queue[1]
  BY <1>1
<1>3. CASE rx \in ns  BY <1>3 DEF Pending
<1>4. CASE \E i \in 1..n : IsReport(queue[i], ns)
  <2>1. PICK i \in 1..n : IsReport(queue[i], ns)  BY <1>4
  <2>2. i # 1  BY <1>2, <2>1
  <2>3. i - 1 \in 1..Len(queue') /\ queue'[i - 1] = queue[i]  BY <1>2, <2>2
  <2> QED BY <2>1, <2>3 DEF Pending, IsReport
<1> QED BY <1>3, <1>4 DEF Pending

LEMMA SameKeepsPending ==
  ASSUME NEW ns, Pending(ns), queue' = queue, rx \in ns => rx' \in ns
  PROVE  Pending(ns)'
BY DEF Pending, IsReport

-----------------------------------------------------------------------------
(* The steps preserve the parts of the invariant *)

LEMMA TypeStep ==
  ASSUME Inv, [Next]_vars
  PROVE  TypeOK'
<1> USE DEF Inv
<1>1. CASE Handle
  <2>1. queue # <<>> /\ Handled(Head(queue))  BY <1>1, HandleStep
  <2>2. queue' \in Seq(Messages \cup Reports)
    BY <2>1 DEF Handled, Receive, TypeOK
  <2>3. pc' \in {"waiting", "send", "cancel"}
    BY <2>1 DEF Handled, Proceed
  <2> QED BY <2>1, <2>2, <2>3
       DEF Handled, Receive, TypeOK, routing, motors, Moves, Headings
<1>2. CASE SendMove
  <2>1. uplink' \in 0..LinkBound  BY <1>2, BoundsAssumption DEF SendMove, TypeOK
  <2> QED BY <1>2, <2>1 DEF SendMove, TypeOK, shared, routing
<1>3. CASE MarkCommanded
  BY <1>3 DEF MarkCommanded, TypeOK, routing, motors
<1>4. CASE CancelPrior
  <2>1. announced' \subseteq {"PILOT_ENGAGED", "PILOT_DONE", "PILOT_FAILED"}
    BY <1>4 DEF CancelPrior, TypeOK
  <2>2. pc' = "notify"  BY <1>4 DEF CancelPrior
  <2>3. UNCHANGED <<shared, pilotState, priorPilotState, powerState, pose,
                    desiredCompassHeading, goal, motor, routing, motors>>
    BY <1>4 DEF CancelPrior
  <2> QED BY <2>1, <2>2, <2>3 DEF TypeOK, shared, routing, motors
<1>5. CASE NotifyState
  <2>1. announced' \subseteq {"PILOT_ENGAGED", "PILOT_DONE", "PILOT_FAILED"}
    BY <1>5 DEF NotifyState, Notice, TypeOK
  <2> QED BY <1>5, <2>1 DEF NotifyState, TypeOK, shared, routing, motors
<1>6. CASE AssignMotorsState
  <2>1. rx \in Notifications  BY <1>6 DEF AssignMotorsState, RoutingInv
  <2>2. motorsState' \in {"idle", "commanded", "running", "inhibit", "errors"}
    BY <1>6, <2>1 DEF AssignMotorsState, StateReported, Notifications
  <2>3. inhibited' \in BOOLEAN
    BY <1>6, <2>1 DEF AssignMotorsState, Notifications, TypeOK
  <2> QED BY <1>6, <2>2, <2>3 DEF AssignMotorsState, TypeOK, pilot, motors
<1>7. CASE QueueNotification
  <2>1. rx \in Notifications  BY <1>7 DEF QueueNotification, RoutingInv
  <2>2. [type |-> "NOTIFICATION", value |-> rx] \in Messages \cup Reports
    BY <2>1 DEF Reports
  <2>3. queue' \in Seq(Messages \cup Reports)
    BY <1>7, <2>2 DEF QueueNotification, TypeOK
  <2> QED BY <1>7, <2>3 DEF QueueNotification, TypeOK, pilot, motors
<1>8. ASSUME NEW m \in Messages, Deliver(m)
      PROVE  TypeOK'
  <2>1. queue' \in Seq(Messages \cup Reports)  BY <1>8 DEF Deliver, TypeOK
  <2> QED BY <1>8, <2>1 DEF Deliver, TypeOK, pilot, routing, motors
<1>9. ASSUME NEW b \in MoveOKValues, SetMoveOK(b)
      PROVE  TypeOK'
  BY <1>9, OptionAssumption DEF SetMoveOK, TypeOK, pilot, routing, motors
<1>10. CASE MotorsTakeMove
  <2>1. uplink' \in 0..LinkBound
    BY <1>10, BoundsAssumption DEF MotorsTakeMove, TypeOK
  <2> QED BY <1>10, <2>1 DEF MotorsTakeMove, TypeOK, shared, pilot, routing
<1>11. CASE MotorsStart \/ MotorsFinish \/ MotorsFail \/ MotorsInhibit \/ MotorsRelease
  <2>1. /\ motion' \in {"stopped", "running", "inhibited"}
        /\ \E n \in Notifications : Report(n)
    BY <1>11 DEF MotorsStart, MotorsFinish, MotorsFail, MotorsInhibit,
       MotorsRelease, Notifications
  <2>2. rx' \in Notifications /\ rxStage' = "arrived"
    BY <2>1 DEF Report
  <2>3. UNCHANGED <<shared, pilot, uplink, inhibited>>  BY <2>1 DEF Report
  <2> QED BY <2>1, <2>2, <2>3 DEF TypeOK, shared, pilot
<1>12. CASE UNCHANGED vars
  BY <1>12 DEF vars, TypeOK
<1> QED BY <1>1, <1>2, <1>3, <1>4, <1>5, <1>6, <1>7, <1>8, <1>9, <1>10, <1>11, <1>12
     DEF Next, PilotThread, Motors

LEMMA NoticeStep ==
  ASSUME Inv, [Next]_vars
  PROVE  NoticeInv'
<1> USE DEF Inv
<1>1. CASE Handle
  <2>1. Handled(Head(queue))  BY <1>1, HandleStep
  <2>2. /\ pc = "waiting"
        /\ priorPilotState' = priorPilotState /\ announced' = announced
        /\ pc' = IF motor' # NoMove THEN "send"
                 ELSE IF pilotState' # pilotState THEN "cancel" ELSE "waiting"
    BY <2>1 DEF Handled, Receive, Proceed
  <2> QED BY <2>2 DEF NoticeInv
<1>2. CASE SendMove  BY <1>2 DEF SendMove, NoticeInv
<1>3. CASE MarkCommanded  BY <1>3 DEF MarkCommanded, NoticeInv
<1>4. CASE CancelPrior  BY <1>4 DEF CancelPrior, NoticeInv
<1>5. CASE NotifyState  BY <1>5 DEF NotifyState, NoticeInv
<1>6. CASE UNCHANGED pilot  BY <1>6 DEF pilot, NoticeInv
<1> QED BY <1>1, <1>2, <1>3, <1>4, <1>5, <1>6
     DEF Next, PilotThread, Motors, AssignMotorsState, QueueNotification, Deliver,
     SetMoveOK, MotorsTakeMove, MotorsStart, MotorsFinish, MotorsFail,
     MotorsInhibit, MotorsRelease, Report, vars, pilot

LEMMA RoutingStep ==
  ASSUME Inv, [Next]_vars
  PROVE  RoutingInv'
<1> USE DEF Inv
<1>1. CASE Handle
  <2>1. Handled(Head(queue))  BY <1>1, HandleStep
  <2> QED BY <2>1 DEF Handled, Receive, routing, RoutingInv
<1>2. CASE UNCHANGED routing  BY <1>2 DEF routing, RoutingInv
<1>3. CASE AssignMotorsState
  BY <1>3 DEF AssignMotorsState, RoutingInv
<1>4. CASE QueueNotification
  BY <1>4 DEF QueueNotification, RoutingInv
<1>5. CASE MotorsStart \/ MotorsFinish \/ MotorsFail \/ MotorsInhibit \/ MotorsRelease
  BY <1>5 DEF MotorsStart, MotorsFinish, MotorsFail, MotorsInhibit,
     MotorsRelease, Report, RoutingInv, Notifications
<1> QED BY <1>1, <1>2, <1>3, <1>4, <1>5
     DEF Next, PilotThread, Motors, SendMove, MarkCommanded, CancelPrior,
     NotifyState, Deliver, SetMoveOK, MotorsTakeMove, vars, routing

\* Either the report of the inhibition comes before the pilot engages, and
\* MovingOK stops it, or after, and then it is pending until it is handled.
LEMMA InhibitStep ==
  ASSUME Inv, [Next]_vars
  PROVE  InhibitReachesPilot'
<1> USE DEF Inv
<1> DEFINE ns == {"MOTORS_INHIBIT"}
<1>1. SUFFICES ASSUME motorsState' = "inhibit", pilotState' \in Engaged
               PROVE  Pending(ns)'
  BY DEF InhibitReachesPilot
<1>2. motorsState = "inhibit" /\ pilotState \in Engaged => Pending(ns)
  BY DEF InhibitReachesPilot
<1> HIDE DEF InhibitReachesPilot
<1>3. CASE Handle
  <2>1. queue # <<>> /\ Handled(Head(queue))  BY <1>3, HandleStep
  <2>2. /\ queue' = Tail(queue) /\ rx' = rx /\ motorsState' = motorsState
        /\ Resolved(Head(queue))
    BY <2>1 DEF Handled, Receive, routing
  <2>3. pilotState \in Engaged /\ ~IsReport(Head(queue), ns)
    BY <1>1, <2>2 DEF Resolved, IsReport
  <2>4. Pending(ns)  BY <1>1, <1>2, <2>2, <2>3
  <2> QED BY <2>1, <2>2, <2>3, <2>4, TailKeepsPending
<1>4. CASE AssignMotorsState
  <2>1. rx \in Notifications /\ rx' = rx
    BY <1>4 DEF AssignMotorsState, RoutingInv
  <2>2. rx = "MOTORS_INHIBIT"
    BY <1>1, <1>4, <2>1 DEF AssignMotorsState, StateReported, Notifications
  <2> QED BY <2>1, <2>2 DEF Pending
<1>5. CASE QueueNotification
  <2> DEFINE r == [type |-> "NOTIFICATION", value |-> rx]
  <2>1. Pending(ns)  BY <1>1, <1>2, <1>5 DEF QueueNotification, pilot
  <2>2. queue' = Append(queue, r) /\ (rx \in ns => IsReport(r, ns))
    BY <1>5 DEF QueueNotification, IsReport
  <2> QED BY <2>1, <2>2, AppendKeepsPending
<1>6. ASSUME NEW m \in Messages, Deliver(m)
      PROVE  Pending(ns)'
  <2>1. Pending(ns)  BY <1>1, <1>2, <1>6 DEF Deliver, pilot
  <2>2. queue' = Append(queue, m) /\ rx' = rx  BY <1>6 DEF Deliver, routing
  <2> QED BY <2>1, <2>2, AppendKeepsPending
<1>7. CASE MotorsStart \/ MotorsFinish \/ MotorsFail \/ MotorsInhibit \/ MotorsRelease
  <2>1. /\ rxStage = "idle" /\ queue' = queue
        /\ motorsState' = motorsState /\ pilotState' = pilotState
    BY <1>7 DEF MotorsStart, MotorsFinish, MotorsFail, MotorsInhibit,
       MotorsRelease, Report, shared, pilot
  <2>2. Pending(ns) /\ rx \notin ns
    BY <1>1, <1>2, <2>1 DEF RoutingInv, None
  <2> QED BY <2>1, <2>2, SameKeepsPending
<1>8. CASE SendMove \/ CancelPrior \/ NotifyState \/ MotorsTakeMove \/ UNCHANGED vars
  <2>1. /\ queue' = queue /\ rx' = rx
        /\ motorsState' = motorsState /\ pilotState' = pilotState
    BY <1>8 DEF SendMove, CancelPrior, NotifyState, MotorsTakeMove, vars,
       shared, pilot, routing
  <2>2. Pending(ns)  BY <1>1, <1>2, <2>1
  <2> QED BY <2>1, <2>2, SameKeepsPending
<1>9. CASE MarkCommanded
  BY <1>1, <1>9 DEF MarkCommanded
<1>10. ASSUME NEW b \in MoveOKValues, SetMoveOK(b)
       PROVE  Pending(ns)'
  <2>1. /\ queue' = queue /\ rx' = rx
        /\ motorsState' = motorsState /\ pilotState' = pilotState
    BY <1>10 DEF SetMoveOK, pilot, routing
  <2>2. Pending(ns)  BY <1>1, <1>2, <2>1
  <2> QED BY <2>1, <2>2, SameKeepsPending
<1> QED BY <1>3, <1>4, <1>5, <1>6, <1>7, <1>8, <1>9, <1>10 DEF Next, PilotThread, Motors

LEMMA InitInv == Init => Inv
<1> SUFFICES ASSUME Init PROVE Inv  OBVIOUS
<1>1. TypeOK
  BY BoundsAssumption DEF Init, TypeOK, PilotStates, Powers, Poses, Goals,
     Coordinates, NoMove, Notifications
<1>2. NoticeInv /\ RoutingInv  BY DEF Init, NoticeInv, RoutingInv, Notice
<1>3. InhibitReachesPilot  BY DEF Init, InhibitReachesPilot, Engaged
<1> QED BY <1>1, <1>2, <1>3 DEF Inv

\* The inductive invariant of the pilot, for all constants.
THEOREM Invariance == Spec => []Inv
<1>1. Inv /\ [Next]_vars => Inv'
  BY TypeStep, NoticeStep, RoutingStep, InhibitStep DEF Inv
<1> QED BY <1>1, InitInv, PTL DEF Spec

\* Every variable keeps its type; in particular a turn is a pair of ints and
\* the desired heading stays within -180..718.
THEOREM Typing == Spec => []TypeOK
<1>1. Inv => TypeOK  BY DEF Inv
<1> QED BY <1>1, Invariance, PTL

\* The active notifications are those of the pilot's state.
THEOREM NotificationsStayCurrent == Spec => []NotificationsCurrent
<1>1. Inv => NotificationsCurrent  BY DEF Inv, NoticeInv, NotificationsCurrent
<1> QED BY <1>1, Invariance, PTL

\* A pilot engaged with inhibited motors has their report to come.
THEOREM InhibitionReachesPilot == Spec => []InhibitReachesPilot
<1>1. Inv => InhibitReachesPilot  BY DEF Inv
<1> QED BY <1>1, Invariance, PTL

-----------------------------------------------------------------------------
(* Motors that are not inhibited *)

\* The motors have not been released yet, and the pilot is at its start.
ReleasedInv ==
  motion = "inhibited" =>
    /\ pilotState = "inactive" /\ motorsState = "inhibit"
    /\ pc = "waiting" /\ rxStage = "idle" /\ motor = NoMove

LEMMA ReleasedStep ==
  ASSUME Inv, ReleasedInv, [Next]_vars, "inhibit" \notin Faults
  PROVE  ReleasedInv'
<1> USE DEF Inv
<1>1. CASE Handle
  <2>1. Handled(Head(queue))  BY <1>1, HandleStep
  <2>2. /\ motion' = motion /\ motorsState' = motorsState /\ rxStage' = rxStage
        /\ Proceed
        /\ pilotState = "inactive" /\ motorsState = "inhibit" =>
             pilotState' = "inactive" /\ motor' = NoMove
    BY <2>1 DEF Handled, Receive, motors, routing
  <2> QED BY <2>2 DEF ReleasedInv, Proceed
<1>2. CASE SendMove \/ MarkCommanded \/ CancelPrior \/ NotifyState
  BY <1>2 DEF SendMove, MarkCommanded, CancelPrior, NotifyState, motors, ReleasedInv
<1>3. CASE AssignMotorsState \/ QueueNotification
  BY <1>3 DEF AssignMotorsState, QueueNotification, motors, ReleasedInv
<1>4. ASSUME NEW m \in Messages, Deliver(m)
      PROVE  ReleasedInv'
  BY <1>4 DEF Deliver, pilot, routing, motors, ReleasedInv
<1>5. ASSUME NEW b \in MoveOKValues, SetMoveOK(b)
      PROVE  ReleasedInv'
  BY <1>5 DEF SetMoveOK, pilot, routing, motors, ReleasedInv
<1>6. CASE MotorsTakeMove
  BY <1>6 DEF MotorsTakeMove, shared, pilot, routing, ReleasedInv
<1>7. CASE MotorsStart \/ MotorsFinish \/ MotorsFail \/ MotorsInhibit \/ MotorsRelease
  BY <1>7 DEF MotorsStart, MotorsFinish, MotorsFail, MotorsInhibit,
     MotorsRelease, ReleasedInv
<1>8. CASE UNCHANGED vars
  BY <1>8 DEF vars, ReleasedInv
<1> QED BY <1>1, <1>2, <1>3, <1>4, <1>5, <1>6, <1>7, <1>8 DEF Next, PilotThread, Motors

\* Each MOVE moves on from the pilot to the link, to the motors, to their
\* answer and to autopilotQueue; what the pilot does with an answer either
\* ends the engagement or starts over.
LEMMA StrandedStep ==
  ASSUME Inv, ReleasedInv, NeverStranded, [Next]_vars, "inhibit" \notin Faults
  PROVE  NeverStranded'
<1> USE DEF Inv, Answers
<1> DEFINE Due == \/ pc = "send" \/ uplink > 0
                  \/ motion \in {"accepted", "running"} \/ Pending(Answers)
<1>1. SUFFICES ASSUME pilotState' \in Engaged
               PROVE  Due'
  BY DEF NeverStranded
<1>2. pilotState \in Engaged => Due  BY DEF NeverStranded
<1> HIDE DEF NeverStranded
<1>3. CASE Handle
  <2>1. queue # <<>> /\ Handled(Head(queue))  BY <1>3, HandleStep
  <2>2. /\ pc = "waiting" /\ queue' = Tail(queue)
        /\ rx' = rx /\ uplink' = uplink /\ motion' = motion
        /\ Proceed /\ Resolved(Head(queue))
    BY <2>1 DEF Handled, Receive, routing, motors
  <2>3. CASE motor' # NoMove  BY <2>2, <2>3 DEF Proceed
  <2>4. CASE /\ pilotState' = pilotState
             /\ ~IsReport(Head(queue), Answers \cup {"MOTORS_INHIBIT"})
    <3>1. ~IsReport(Head(queue), Answers)  BY <2>4 DEF IsReport
    <3>2. Due /\ pc # "send"  BY <1>1, <1>2, <2>2, <2>4
    <3>3. CASE Pending(Answers)
      BY <2>1, <2>2, <3>1, <3>3, TailKeepsPending
    <3> QED BY <2>2, <3>2, <3>3
  <2> QED BY <1>1, <2>2, <2>3, <2>4 DEF Resolved
<1>4. CASE SendMove
  BY <1>4 DEF SendMove, TypeOK
<1>5. CASE MarkCommanded \/ CancelPrior \/ NotifyState
  <2>1. /\ pc # "send" /\ pilotState' = pilotState
        /\ queue' = queue /\ rx' = rx /\ uplink' = uplink /\ motion' = motion
    BY <1>5 DEF MarkCommanded, CancelPrior, NotifyState, shared, routing, motors
  <2>2. CASE Pending(Answers)  BY <2>1, <2>2, SameKeepsPending
  <2> QED BY <1>1, <1>2, <2>1, <2>2
<1>6. ASSUME queue' = queue, rx' = rx, UNCHANGED pilot, UNCHANGED motors
      PROVE  Due'
  <2>1. CASE Pending(Answers)  BY <1>6, <2>1, SameKeepsPending
  <2> QED BY <1>1, <1>2, <1>6, <2>1 DEF pilot, motors
<1>7. ASSUME NEW m, queue' = Append(queue, m), UNCHANGED pilot, UNCHANGED motors,
             rx \in Answers => (rx' \in Answers \/ IsReport(m, Answers))
      PROVE  Due'
  <2>1. CASE Pending(Answers)  BY <1>7, <2>1, AppendKeepsPending
  <2> QED BY <1>1, <1>2, <1>7, <2>1 DEF pilot, motors
<1>8. CASE QueueNotification
  <2> DEFINE r == [type |-> "NOTIFICATION", value |-> rx]
  <2>1. rx \in Answers => IsReport(r, Answers)  BY DEF IsReport
  <2>2. queue' = Append(queue, r) /\ UNCHANGED pilot /\ UNCHANGED motors
    BY <1>8 DEF QueueNotification
  <2> HIDE DEF r
  <2> QED BY <1>7, <2>1, <2>2
<1>9. ASSUME NEW m \in Messages, Deliver(m)
      PROVE  Due'
  BY <1>7, <1>9 DEF Deliver, routing
<1>10. CASE AssignMotorsState
  BY <1>6, <1>10 DEF AssignMotorsState
<1>11. ASSUME NEW b \in MoveOKValues, SetMoveOK(b)
       PROVE  Due'
  BY <1>6, <1>11 DEF SetMoveOK, routing
<1>12. CASE MotorsTakeMove
  <2>1. motion # "inhibited"
    BY <1>1, <1>12 DEF MotorsTakeMove, pilot, ReleasedInv, Engaged
  <2> QED BY <1>12, <2>1 DEF MotorsTakeMove
<1>13. CASE MotorsStart
  BY <1>13 DEF MotorsStart
<1>14. CASE MotorsFinish \/ MotorsFail
  BY <1>14 DEF MotorsFinish, MotorsFail, Report, Pending
<1>15. CASE MotorsInhibit
  BY <1>15 DEF MotorsInhibit
<1>16. CASE MotorsRelease
  BY <1>1, <1>16 DEF MotorsRelease, Report, pilot, ReleasedInv, Engaged
<1>17. CASE UNCHANGED vars
  BY <1>6, <1>17 DEF vars, pilot, motors
<1> QED BY <1>3, <1>4, <1>5, <1>8, <1>9, <1>10, <1>11, <1>12, <1>13, <1>14,
           <1>15, <1>16, <1>17 DEF Next, PilotThread, Motors

\* If the motors are never inhibited again once released, an engaged pilot is
\* never left with nothing to wait for, whatever the commands, the poses and
\* the errors of the motors.
THEOREM NoStrandedPilot ==
  "inhibit" \notin Faults => (Spec => []NeverStranded)
<1> SUFFICES ASSUME "inhibit" \notin Faults
             PROVE  Spec => []NeverStranded
  OBVIOUS
<1>1. Init => ReleasedInv /\ NeverStranded
  BY DEF Init, ReleasedInv, NeverStranded, Engaged
<1>2. Inv /\ ReleasedInv /\ NeverStranded /\ [Next]_vars
      => ReleasedInv' /\ NeverStranded'
  BY ReleasedStep, StrandedStep
<1> QED BY <1>1, <1>2, Invariance, PTL DEF Spec
-----------------------------------------------------------------------------
(* The abstract pilot *)

\* A message that is handled is one step of the abstract pilot, or none.
LEMMA HandleServes ==
  ASSUME Inv, Handle
  PROVE  [Service!Next]_(Service!vars)
<1> USE DEF Inv
<1>1. Handled(Head(queue))  BY HandleStep
<1>2. /\ pc = "waiting" /\ Permitted
      /\ announced' = announced /\ uplink' = uplink
      /\ pc' = IF motor' # NoMove THEN "send"
               ELSE IF pilotState' # pilotState THEN "cancel" ELSE "waiting"
  BY <1>1 DEF Handled, Receive, Proceed, motors
<1>3. pilotState \in PilotStates  BY DEF TypeOK
<1> USE DEF ServiceState, ServicePhase, Service!Enter
<1>4. CASE pilotState' = pilotState /\ motor' = NoMove
  BY <1>2, <1>4 DEF Service!vars
<1>5. CASE /\ pilotState # "inactive"
           /\ pilotState' \in Engaged \cup {"done", "failed"}
           /\ pilotState' \in Engaged <=> motor' # NoMove
  <2>1. ServiceState # "inactive"  BY <1>3, <1>5
  <2>2. CASE pilotState' \in Engaged
    <3>1. ServiceState' \in Service!AtWork  BY <2>2 DEF Engaged, Service!AtWork
    <3> QED BY <1>2, <1>5, <2>1, <2>2, <3>1 DEF Service!Next, Service!Engage
  <2>3. CASE pilotState' \in {"done", "failed"}
    <3>1. pilotState' \notin Engaged  BY <2>3 DEF Engaged
    <3>2. motor' = NoMove  BY <1>5, <3>1
    <3>3. CASE pilotState' = pilotState  BY <1>2, <3>2, <3>3 DEF Service!vars
    <3>4. CASE pilotState' # pilotState
      <4>1. ServiceState' = pilotState' /\ ServiceState' # ServiceState
        BY <1>3, <2>3, <3>4 DEF PilotStates, Engaged, Rest
      <4> QED BY <1>2, <2>1, <2>3, <3>2, <3>4, <4>1 DEF Service!Next, Service!Conclude
    <3> QED BY <3>3, <3>4
  <2> QED BY <1>5, <2>2, <2>3
<1>6. CASE pilotState = "inactive" /\ pilotState' = "idle" /\ motor' = NoMove
  BY <1>2, <1>6 DEF Service!Next, Service!BecomeReady
<1>7. CASE pilotState \in Rest /\ pilotState' = "inactive" /\ motor' = NoMove
  BY <1>2, <1>7 DEF Rest, Service!Next, Service!Withdraw, Service!AtRest
<1> QED BY <1>2, <1>4, <1>5, <1>6, <1>7 DEF Permitted

\* What the two modules call a state's notification is the same.
LEMMA SameNotice ==
  ASSUME TypeOK PROVE Service!Notice(ServiceState) = Notice(pilotState)
  BY DEF TypeOK, PilotStates, Engaged, Rest, Service!Notice, Notice, ServiceState

LEMMA ServiceStep ==
  ASSUME Inv, [Next]_vars
  PROVE  [Service!Next]_(Service!vars)
<1> USE DEF Inv, ServiceState, ServicePhase
<1>1. CASE Handle  BY <1>1, HandleServes
<1>2. CASE SendMove
  BY <1>2 DEF SendMove, Service!Next, Service!SendMove
<1>3. CASE MarkCommanded
  <2>1. pilotState' = pilotState /\ announced' = announced /\ uplink' = uplink
    BY <1>3 DEF MarkCommanded, motors
  <2>2. CASE priorPilotState = pilotState
    <3>1. announced = Notice(pilotState)  BY <1>3, <2>2 DEF MarkCommanded, NoticeInv
    <3> QED BY <1>3, <2>1, <2>2, <3>1, SameNotice DEF MarkCommanded, Service!Next, Service!Tell
  <2>3. CASE priorPilotState # pilotState
    BY <1>3, <2>1, <2>3 DEF MarkCommanded, Service!vars
  <2> QED BY <2>2, <2>3
<1>4. CASE CancelPrior
  <2>1. announced' = {}  BY <1>4 DEF CancelPrior, NoticeInv
  <2> QED BY <1>4, <2>1 DEF CancelPrior, motors, Service!Next, Service!Retract
<1>5. CASE NotifyState
  <2>1. announced' = Notice(pilotState)  BY <1>5 DEF NotifyState, NoticeInv
  <2> QED BY <1>5, <2>1, SameNotice DEF NotifyState, motors, Service!Next, Service!Tell
<1>6. CASE MotorsTakeMove
  BY <1>6 DEF MotorsTakeMove, pilot, Service!Next, Service!MotorsTakeMove
<1>7. CASE UNCHANGED pilot /\ uplink' = uplink
  BY <1>7 DEF pilot, Service!vars
<1> QED BY <1>1, <1>2, <1>3, <1>4, <1>5, <1>6, <1>7
     DEF Next, PilotThread, Motors, AssignMotorsState, QueueNotification, Deliver,
     SetMoveOK, MotorsStart, MotorsFinish, MotorsFail, MotorsInhibit,
     MotorsRelease, Report, vars, pilot, motors

\* For every message set, setting and bound the pilot implements PilotService: one
\* MOVE for each decision to engage, no state left before it is announced, and no
\* engagement that ends other than as done or failed.
THEOREM PilotServes == Spec => ServesClients
<1>1. Init => Service!Init
  BY DEF Init, Service!Init, ServiceState, ServicePhase
<1>2. Inv /\ [Next]_vars => [Service!Next]_(Service!vars)
  BY ServiceStep
<1> QED BY <1>1, <1>2, Invariance, PTL DEF Spec, ServesClients, Service!Spec
=============================================================================
