-------------------------- MODULE NavigatorProofs ---------------------------
(***************************************************************************)
(* Theorems about Navigator.  The three invariants are inductive together; *)
(* every message ends in Conclude, so one lemma about Conclude, with what  *)
(* the message has left as its parameters, carries the proof.              *)
(***************************************************************************)
EXTENDS Navigator, TLAPS

Inv == TypeOK /\ NoticesTellState /\ PoseIsFresh

\* Where the states and the outputs go: the report is of this step, or none is.
Reported ==
  /\ pose' = [located |-> gpsGood', oriented |-> imuGood']
  /\ reportAge' = 0
  /\ appAge' \in Ages

\* A step of the state machine keeps the states, the notifications and the
\* outputs typed, keeps the notifications those of the state, and reports the
\* new validity of the data if it reports at all.
LEMMA NextStateStep ==
  ASSUME TypeOK, NoticesTellState, NextState, gpsGood' \in BOOLEAN, imuGood' \in BOOLEAN
  PROVE  /\ navigationState' \in {"NO_DATA", "GOT_IMU", "GOT_GPS", "GOOD_POSE"}
         /\ announced' \subseteq {"GPS_FIX_OBTAINED", "GPS_FIX_LOST"}
         /\ NoticesTellState'
         /\ Reported \/ NoReport
<1> USE DEF NoticesTellState
<1>0. Report => Reported
  BY TimesAssumption DEF Report, Reported, TypeOK, Ages
<1>1. CASE navigationState = "NO_DATA" /\ Enter(IF imuGood' THEN "GOT_IMU" ELSE "NO_DATA")
  BY <1>1 DEF Enter, TypeOK
<1>2. CASE /\ navigationState = "GOT_IMU"
           /\ Enter(IF ~imuGood' THEN "NO_DATA" ELSE IF gpsGood' THEN "GOT_GPS" ELSE "GOT_IMU")
  BY <1>2 DEF Enter, TypeOK
<1>3. CASE navigationState = "GOT_GPS" /\ ~gpsGood' /\ Enter("GOT_IMU")
  BY <1>3 DEF Enter, TypeOK
<1>4. CASE navigationState = "GOT_GPS" /\ gpsGood' /\ ObtainFix
  BY <1>0, <1>4 DEF ObtainFix, TypeOK
<1>5. CASE navigationState = "GOOD_POSE" /\ KeepPose
  <2>1. CASE Report /\ UNCHANGED <<navigationState, announced>>
    BY <1>0, <2>1 DEF TypeOK
  <2>2. CASE Enter("GOOD_POSE")
    BY <1>5, <2>2 DEF Enter, TypeOK
  <2>3. CASE LoseFix
    BY <1>0, <2>3 DEF LoseFix, TypeOK
  <2> QED BY <1>5, <2>1, <2>2, <2>3 DEF KeepPose
<1> QED BY <1>1, <1>2, <1>3, <1>4, <1>5 DEF NextState

\* Whatever a message leaves, as long as it makes neither age larger, the end
\* of the loop restores the invariant.
LEMMA ConcludeStep ==
  ASSUME Inv,
         NEW fixAge \in Ages, fixAge <= gpsAge,
         NEW located \in BOOLEAN,
         NEW reportedAge \in Ages, reportedAge <= imuAge,
         NEW oriented \in BOOLEAN,
         window' \in Nat, samples' \in 0..(SamplesNeeded + 1),
         Conclude(fixAge, located, reportedAge, oriented)
  PROVE  Inv'
<1>1. /\ gpsGood' \in BOOLEAN /\ imuGood' \in BOOLEAN
      /\ NextState
  BY DEF Conclude
<1>2. /\ gpsAge' = IF fixAge > RawDataTimeout THEN Never ELSE fixAge
      /\ imuAge' = reportedAge
  BY DEF Conclude
<1>3. /\ gpsAge' \in Ages /\ imuAge' \in Ages
  BY <1>2, TimesAssumption DEF Ages
<1>4. /\ navigationState' \in {"NO_DATA", "GOT_IMU", "GOT_GPS", "GOOD_POSE"}
      /\ announced' \subseteq {"GPS_FIX_OBTAINED", "GPS_FIX_LOST"}
      /\ NoticesTellState'
      /\ Reported \/ NoReport
  BY <1>1, NextStateStep DEF Inv
<1>5. /\ gpsGood' => fixAge <= RawDataTimeout
      /\ imuGood' => reportedAge <= RawDataTimeout
  BY DEF Conclude
<1>6. CASE Reported
  <2>1. /\ pose' \in [located : BOOLEAN, oriented : BOOLEAN]
        /\ reportAge' \in Ages /\ appAge' \in Ages
    BY <1>1, <1>6, TimesAssumption DEF Reported, Ages
  <2>2. TypeOK'
    BY <1>1, <1>3, <1>4, <2>1 DEF TypeOK
  <2>3. pose'.located = gpsGood' /\ pose'.oriented = imuGood'
    BY <1>6 DEF Reported
  <2>4. PoseIsFresh'
    <3>1. pose'.located => fixAge <= RawDataTimeout
      BY <1>5, <2>3, Zenon
    <3>2. pose'.oriented => reportedAge <= RawDataTimeout
      BY <1>5, <2>3, Zenon
    <3>3. fixAge <= RawDataTimeout => gpsAge' <= RawDataTimeout
      BY <1>2, TimesAssumption DEF Ages
    <3> QED BY <1>2, <3>1, <3>2, <3>3 DEF PoseIsFresh
  <2> QED BY <1>4, <2>2, <2>4 DEF Inv
<1>7. CASE NoReport
  <2>1. TypeOK'
    BY <1>1, <1>3, <1>4, <1>7 DEF Inv, TypeOK, NoReport
  <2>2. PoseIsFresh'
    <3>1. /\ pose' = pose /\ reportAge' = reportAge
      BY <1>7 DEF NoReport
    <3>2. gpsAge <= RawDataTimeout => gpsAge' <= RawDataTimeout
      BY <1>2, TimesAssumption DEF Inv, TypeOK, Ages
    <3>3. imuAge <= RawDataTimeout => imuAge' <= RawDataTimeout
      BY <1>2, TimesAssumption DEF Inv, TypeOK, Ages
    <3> QED BY <3>1, <3>2, <3>3 DEF Inv, PoseIsFresh
  <2> QED BY <1>4, <2>1, <2>2 DEF Inv
<1> QED BY <1>4, <1>6, <1>7

\* Time alone announces and reports nothing, and what is a second old is no
\* longer a report of now.
LEMMA PassStep == ASSUME Inv, Pass PROVE Inv'
<1>1. \A age \in Ages : Older(age) \in Ages /\ Older(age) # 0
  BY TimesAssumption DEF Ages, Older
<1>2. /\ gpsAge' \in Ages /\ imuAge' \in Ages /\ appAge' \in Ages
      /\ reportAge' \in Ages /\ reportAge' # 0
  BY <1>1 DEF Inv, TypeOK, Pass
<1>3. window' \in Nat
  BY DEF Inv, TypeOK, Pass
<1>4. UNCHANGED <<navigationState, gpsGood, imuGood, samples, pose, announced>>
  BY DEF Pass
<1>5. TypeOK'  BY <1>2, <1>3, <1>4 DEF Inv, TypeOK
<1>6. NoticesTellState'  BY <1>4 DEF Inv, NoticesTellState
<1>7. PoseIsFresh'  BY <1>2 DEF PoseIsFresh
<1> QED BY <1>5, <1>6, <1>7 DEF Inv

\* The types, the notifications of the state and the freshness of the pose
\* hold after any sequence of messages and seconds.
THEOREM Invariance == Spec => []Inv
<1>1. Init => Inv
  <2> SUFFICES ASSUME Init PROVE Inv
    OBVIOUS
  <2>1. TypeOK
    BY TimesAssumption, FixesAssumption DEF Init, TypeOK, Ages
  <2>2. NoticesTellState /\ PoseIsFresh
    BY TimesAssumption DEF Init, NoticesTellState, PoseIsFresh
  <2> QED BY <2>1, <2>2 DEF Inv
<1>2. Inv /\ [Next]_vars => Inv'
  <2> SUFFICES ASSUME Inv, [Next]_vars PROVE Inv'
    OBVIOUS
  <2>0. /\ gpsAge \in Ages /\ imuAge \in Ages /\ 0 \in Ages
        /\ gpsGood \in BOOLEAN /\ imuGood \in BOOLEAN
        /\ window \in Nat /\ samples \in 0..(SamplesNeeded + 1)
        /\ gpsAge <= gpsAge /\ imuAge <= imuAge /\ 0 <= gpsAge /\ 0 <= imuAge
    BY TimesAssumption DEF Inv, TypeOK, Ages
  <2>1. CASE CollectFix
    <3>1. window' \in Nat /\ samples' \in 0..(SamplesNeeded + 1)
      BY <2>0, <2>1, FixesAssumption DEF CollectFix
    <3> QED BY <2>0, <2>1, <3>1, ConcludeStep DEF CollectFix
  <2>2. CASE AverageFixes
    <3>1. window' \in Nat /\ samples' \in 0..(SamplesNeeded + 1)
      BY <2>0, <2>2, FixesAssumption DEF AverageFixes
    <3>2. (samples + 1 > SamplesNeeded) \in BOOLEAN
      OBVIOUS
    <3> QED BY <2>0, <2>2, <3>1, <3>2, ConcludeStep DEF AverageFixes
  <2>3. CASE UseFix
    BY <2>0, <2>3, ConcludeStep DEF UseFix, fixes
  <2>4. CASE NoFix
    BY <2>0, <2>4, ConcludeStep DEF NoFix, fixes
  <2>5. CASE ImuReport
    BY <2>0, <2>5, ConcludeStep DEF ImuReport, fixes
  <2>6. CASE OtherMessage
    BY <2>0, <2>6, ConcludeStep DEF OtherMessage, fixes
  <2>7. ASSUME NEW w \in Windows, GetAFix(w) PROVE Inv'
    <3>1. window' \in Nat /\ samples' \in 0..(SamplesNeeded + 1)
      BY <2>0, <2>7, FixesAssumption DEF GetAFix
    <3> QED BY <2>0, <2>7, <3>1, ConcludeStep DEF GetAFix
  <2>8. CASE Pass
    BY <2>8, PassStep
  <2>9. CASE UNCHANGED vars
    BY <2>9 DEF vars, Inv, TypeOK, NoticesTellState, PoseIsFresh
  <2> QED BY <2>1, <2>2, <2>3, <2>4, <2>5, <2>6, <2>7, <2>8, <2>9 DEF Next
<1> QED BY <1>1, <1>2, PTL DEF Spec

\* Every variable of the navigator keeps its type.
THEOREM Typing == Spec => []TypeOK
<1>1. Inv => TypeOK  BY DEF Inv
<1> QED BY <1>1, Invariance, PTL

\* GPS_FIX_OBTAINED is notified exactly while navigationState is GOOD_POSE, and
\* GPS_FIX_LOST never then: whatever the settings and the messages.
THEOREM NoticesAlwaysTellState == Spec => []NoticesTellState
<1>1. Inv => NoticesTellState  BY DEF Inv
<1> QED BY <1>1, Invariance, PTL

\* No POSE claims a location or a heading from data older than RAW_DATA_TIMEOUT,
\* although the flags are not initialised.
THEOREM PosesAreFresh == Spec => []PoseIsFresh
<1>1. Inv => PoseIsFresh  BY DEF Inv
<1> QED BY <1>1, Invariance, PTL
=============================================================================
