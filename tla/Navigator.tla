----------------------------- MODULE Navigator ------------------------------
(***************************************************************************)
(* The navigator of src/Modules/navigator/navigator.c: the thread that     *)
(* fuses GPS, IMU and odometry reports, announces GPS_FIX_OBTAINED and     *)
(* GPS_FIX_LOST, and publishes POSE.                                       *)
(*                                                                         *)
(* It acts only when a message arrives: a message is one step, from        *)
(* GetNextMessage to the report, and seconds pass between steps.  A time   *)
(* t is kept as its age time(NULL) - t, up to Never, which stands for any  *)
(* age beyond every timeout and for the time 0.  The filters are left out: *)
(* no branch depends on a position or a heading.  In particular the three  *)
(* comparisons of lines 451-453 compare the last report with itself, for   *)
(* lastPoseMsg and poseMsg are only assigned together.                     *)
(***************************************************************************)
EXTENDS Integers

CONSTANTS
  RawDataTimeout, FixLostTimeout, MaxInterval, \* seconds, navigator.h
  AppInterval,   \* seconds: the setting appReportInterval
  SamplesNeeded, \* an average of more fixes than this is good
  Windows,       \* seconds a GETAFIX message may ask for
  Never          \* an age beyond every timeout

\* The timeouts are numbers of seconds, all smaller than Never.
ASSUME TimesAssumption ==
  /\ Never \in Nat
  /\ {RawDataTimeout, FixLostTimeout, MaxInterval, AppInterval} \subseteq 0..(Never - 1)
\* A count, and any int of a script.
ASSUME FixesAssumption == SamplesNeeded \in Nat /\ Windows \subseteq Int

VARIABLES
  navigationState,
  gpsGood, imuGood,
  gpsAge, imuAge,    \* of latestGPSFixTime, latestIMUReportTime
  window,            \* seconds until getFixEndTime
  samples,           \* fixes in getFixQueue: more than SamplesNeeded count as one more
  reportAge, appAge, \* of latestReportTime, latestAppReportTime
  pose,              \* what the last POSE said is valid
  announced          \* what Notify and CancelNotification leave notified

fixes == <<window, samples>>
outputs == <<reportAge, appAge, pose, announced>>
vars == <<navigationState, gpsGood, imuGood, gpsAge, imuAge, window, samples,
          reportAge, appAge, pose, announced>>

\* GPSGood and IMUGood are not initialised.
Init ==
  /\ navigationState = "NO_DATA"
  /\ gpsGood \in BOOLEAN /\ imuGood \in BOOLEAN
  /\ gpsAge = Never /\ imuAge = Never
  /\ window = 0 /\ samples = 0
  /\ reportAge = Never /\ appAge = Never
  /\ pose = [located |-> FALSE, oriented |-> FALSE]
  /\ announced = {}
-----------------------------------------------------------------------------
(* After the message: timeouts, state, report *)

\* The POSE, and a POSEREP when the app has not had one for long enough.
Report ==
  /\ pose' = [located |-> gpsGood', oriented |-> imuGood']
  /\ reportAge' = 0
  /\ appAge' = IF appAge > AppInterval THEN 0 ELSE appAge

NoReport == UNCHANGED <<pose, reportAge, appAge>>

Enter(s) == navigationState' = s /\ NoReport /\ UNCHANGED announced

\* oldestGPSFixTime is 0 whatever line 221 is meant to do, so the GPS counts
\* as stable at once.
ObtainFix ==
  /\ navigationState' = "GOOD_POSE"
  /\ announced' = (announced \cup {"GPS_FIX_OBTAINED"}) \ {"GPS_FIX_LOST"}
  /\ Report

\* Mutant of LoseFix: GPS_FIX_OBTAINED is not cancelled.
LoseFixQuietly ==
  /\ navigationState' = "GOT_IMU"
  /\ announced' = announced \cup {"GPS_FIX_LOST"}
  /\ Report

\* Mutant of LoseFix: the state is left as it is.
LoseFixForNow ==
  /\ announced' = (announced \cup {"GPS_FIX_LOST"}) \ {"GPS_FIX_OBTAINED"}
  /\ UNCHANGED navigationState
  /\ Report

LoseFix ==
  /\ navigationState' = "GOT_IMU"
  /\ announced' = (announced \cup {"GPS_FIX_LOST"}) \ {"GPS_FIX_OBTAINED"}
  /\ Report

\* A good pose is reported as long as the last report is recent.
KeepPose ==
  \/ gpsGood' /\ reportAge < MaxInterval
       /\ Report /\ UNCHANGED <<navigationState, announced>>
  \/ gpsGood' /\ reportAge >= MaxInterval /\ Enter("GOOD_POSE")
  \/ ~gpsGood' /\ gpsAge' > FixLostTimeout /\ LoseFix
  \/ ~gpsGood' /\ gpsAge' <= FixLostTimeout /\ Enter("GOOD_POSE")

NextState ==
  \/ navigationState = "NO_DATA" /\ Enter(IF imuGood' THEN "GOT_IMU" ELSE "NO_DATA")
  \/ /\ navigationState = "GOT_IMU"
     /\ Enter(IF ~imuGood' THEN "NO_DATA" ELSE IF gpsGood' THEN "GOT_GPS" ELSE "GOT_IMU")
  \/ navigationState = "GOT_GPS" /\ ~gpsGood' /\ Enter("GOT_IMU")
  \/ navigationState = "GOT_GPS" /\ gpsGood' /\ ObtainFix
  \/ navigationState = "GOOD_POSE" /\ KeepPose

\* Mutant of Conclude: an old fix remains good.
ConcludeTrusting(fixAge, located, reportedAge, oriented) ==
  /\ gpsAge' = IF fixAge > RawDataTimeout THEN Never ELSE fixAge
  /\ gpsGood' = located
  /\ imuAge' = reportedAge
  /\ imuGood' = (oriented /\ reportedAge <= RawDataTimeout)
  /\ NextState

\* From what the message has left, the ages of the latest fix and IMU report
\* and whether each is good.
Conclude(fixAge, located, reportedAge, oriented) ==
  /\ gpsAge' = IF fixAge > RawDataTimeout THEN Never ELSE fixAge
  /\ gpsGood' = (located /\ fixAge <= RawDataTimeout)
  /\ imuAge' = reportedAge
  /\ imuGood' = (oriented /\ reportedAge <= RawDataTimeout)
  /\ NextState

-----------------------------------------------------------------------------
(* The messages *)

\* A GPS_REPORT with a fix, within the time a GETAFIX gave: kept.
CollectFix ==
  /\ window > 0
  /\ samples' = IF samples > SamplesNeeded THEN samples ELSE samples + 1
  /\ UNCHANGED window
  /\ Conclude(0, gpsGood, imuAge, imuGood)

\* The first fix after it: all are averaged, and released.
AverageFixes ==
  /\ window = 0 /\ samples > 0
  /\ samples' = 0
  /\ UNCHANGED window
  /\ Conclude(0, samples + 1 > SamplesNeeded, imuAge, imuGood)

\* Any other fix only updates the filter.
UseFix ==
  /\ window = 0 /\ samples = 0
  /\ UNCHANGED fixes
  /\ Conclude(0, gpsGood, imuAge, imuGood)

\* A GPS_REPORT without a fix, or with an HDOP over 10.
NoFix == UNCHANGED fixes /\ Conclude(gpsAge, FALSE, imuAge, imuGood)

ImuReport == UNCHANGED fixes /\ Conclude(gpsAge, gpsGood, 0, TRUE)

\* Mutant of GetAFix: a time already over is kept as it is.
GetAFixUnchecked(w) ==
  /\ window' = w
  /\ UNCHANGED samples
  /\ Conclude(gpsAge, gpsGood, imuAge, imuGood)

GetAFix(w) ==
  /\ window' = IF w > 0 THEN w ELSE 0
  /\ UNCHANGED samples
  /\ Conclude(gpsAge, gpsGood, imuAge, imuGood)

\* ODOMETRY, which only updates the filters, TICK_1S and the rest.
OtherMessage == UNCHANGED fixes /\ Conclude(gpsAge, gpsGood, imuAge, imuGood)

\* A second passes.
Older(age) == IF age = Never THEN Never ELSE age + 1
Pass ==
  /\ gpsAge' = Older(gpsAge)
  /\ imuAge' = Older(imuAge)
  /\ window' = IF window > 0 THEN window - 1 ELSE 0
  /\ reportAge' = Older(reportAge)
  /\ appAge' = Older(appAge)
  /\ UNCHANGED <<navigationState, gpsGood, imuGood, samples, pose, announced>>

Next ==
  \/ CollectFix \/ AverageFixes \/ UseFix \/ NoFix
  \/ ImuReport \/ OtherMessage
  \/ \E w \in Windows : GetAFix(w)
  \/ Pass

Spec == Init /\ [][Next]_vars

\* Time passes, and ticks are among the messages that keep arriving.
FairSpec == Spec /\ WF_vars(Pass) /\ WF_vars(OtherMessage)
-----------------------------------------------------------------------------
Ages == 0..Never

\* Every variable has its type.
TypeOK ==
  /\ navigationState \in {"NO_DATA", "GOT_IMU", "GOT_GPS", "GOOD_POSE"}
  /\ gpsGood \in BOOLEAN /\ imuGood \in BOOLEAN
  /\ gpsAge \in Ages /\ imuAge \in Ages
  /\ window \in Nat
  /\ samples \in 0..(SamplesNeeded + 1)
  /\ reportAge \in Ages /\ appAge \in Ages
  /\ pose \in [located : BOOLEAN, oriented : BOOLEAN]
  /\ announced \subseteq {"GPS_FIX_OBTAINED", "GPS_FIX_LOST"}

\* Whatever sequence of losses and recoveries leads there, GPS_FIX_OBTAINED
\* is notified exactly while the pose is good and GPS_FIX_LOST only while it is
\* not: scripts that wait for one of them are never misled by a leftover.
NoticesTellState ==
  /\ "GPS_FIX_OBTAINED" \in announced <=> navigationState = "GOOD_POSE"
  /\ "GPS_FIX_LOST" \in announced => navigationState # "GOOD_POSE"

\* What a POSE says is valid comes from a fix, or a report of the IMU, of the
\* last RawDataTimeout seconds, although GPSGood and IMUGood are remembered
\* from one message to the next, are never refreshed by time alone, and start
\* with any value.
PoseIsFresh ==
  reportAge = 0 =>
    /\ pose.located => gpsAge <= RawDataTimeout
    /\ pose.oriented => imuAge <= RawDataTimeout

\* REPORT_MAX_INTERVAL: a good pose is reported again and again.
PosesKeepComing ==
  navigationState = "GOOD_POSE" ~> (navigationState # "GOOD_POSE" \/ reportAge = 0)
=============================================================================
