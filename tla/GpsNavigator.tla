--------------------------- MODULE GpsNavigator ----------------------------
(***************************************************************************)
(* The navigator (navigator.c) with the drivers that feed it: GPS.c, whose *)
(* reports it takes from its queue in the order they were published, and   *)
(* IMU.c, which publishes one report after another.                        *)
(***************************************************************************)
EXTENDS Navigator, GpsReader

SystemInit == Init /\ GpsInit

\* A report with a fix that is not too diluted.
GoodFix(report) == report.gpsStatus /\ report.HDOP = "low"

\* The navigator takes a report of the GPS.
TakeReport ==
  /\ navigatorQueue # <<>>
  /\ navigatorQueue' = Tail(navigatorQueue)
  /\ \/ GoodFix(Head(navigatorQueue)) /\ (CollectFix \/ AverageFixes \/ UseFix)
     \/ ~GoodFix(Head(navigatorQueue)) /\ NoFix
  /\ UNCHANGED <<locked, currentline, known>>

\* IMUReaderThread's loop: read, publish, sleep.
PollIMU == ImuReport /\ UNCHANGED gps

TakeOther ==
  /\ OtherMessage \/ \E w \in Windows : GetAFix(w)
  /\ UNCHANGED gps

SystemNext ==
  \/ (ReceiveAny \/ LockChanges) /\ UNCHANGED vars
  \/ TakeReport \/ PollIMU \/ TakeOther
  \/ Pass /\ UNCHANGED gps

SystemSpec == SystemInit /\ [][SystemNext]_<<vars, gps>>

\* Time passes, ticks keep arriving, and the navigator takes what is queued.
\* Nothing makes the receiver send.
FairSystemSpec ==
  /\ SystemSpec
  /\ WF_<<vars, gps>>(Pass /\ UNCHANGED gps)
  /\ WF_<<vars, gps>>(OtherMessage /\ UNCHANGED gps)
  /\ WF_<<vars, gps>>(TakeReport)

-----------------------------------------------------------------------------
\* What the driver knows comes from sentences that were sent: none is mixed from
\* two, and no damage is taken for data.
SentencesBelieved == [][Believed]_gps

\* "No position" comes through.
StatusArrives == Receive(<<"GPRMC", "V">>, 0)

\* When the receiver falls silent, or has lost its position and its GPRMC
\* comes through again and again, the pose does not stay good, although every
\* GPGGA is published with the status of the last GPRMC, and an empty HDOP is
\* the best there is.
LossIsNoticed ==
  <>[](gpsAge > 0) \/ (<>[]~locked /\ []<><<StatusArrives>>_<<vars, gps>>)
    => <>[](navigationState # "GOOD_POSE")
=============================================================================
