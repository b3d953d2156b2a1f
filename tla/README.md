# A TLA+ model of the FIDO overmind

`src/` is the *overmind* of FIDO, a robot: one multi-threaded C process on a
BeagleBone that talks over a UART to the motor processor (a PIC) and to an app.
Subsystems are threads; each reads one message queue and publishes messages that
a router copies to the queues of the others. Everything here is translated from
that code; names are those of the code wherever TLA+ allows.

## The system

| component | source | state | operations |
|---|---|---|---|
| message queues | `Modules/pubsub/brokerQ.c` | freelist, its mutex; per queue: list, mutex, condition variable | `CopyMessageToQ`, `AppendQueueEntry`, `GetNextMessage`, `DoneWithMessage`, `GetFreeEntry`, `AddToFreelist` |
| router | `Modules/pubsub/pubsub.c` | `brokerQueue` | `RouteMessage` (topic to handlers), `Notify`, `CancelNotification`, `BrokerInputThread` |
| serial broker | `Modules/pubsub/serialBroker.c` | `uartTxQueue`, `errorCount` | `SerialBrokerProcessMessage`, `RxThread`, `TxThread` |
| system log | `Modules/syslog/syslog.c` | `logQueue`, log file | `_LogMessage`, `LogProcessMessage`, `LoggingThread` |
| responder | `Modules/pubsub/responder.c` | `responderQueue`, `configCount` | answers CONFIG and PING |
| autopilot | `Modules/autopilot/autopilot.c` | `pilotState`, `motorsState`, pose, command, `autopilotQueue` | `AutopilotProcessMessage`, `AutopilotThread` |
| navigator | `Modules/navigator/navigator.c` | `navigationState`, filters, fix-averaging queues | `NavigatorThread` |
| drivers | `Modules/navigator/{GPS,IMU,LSM303}.c` | device files | publish GPS_REPORT, IMU_REPORT |
| filters | `Modules/navigator/{kalman,matrix}.c` | matrices | predict, estimate |
| blackboard | `Modules/blackboard/blackboard.c` | lists of saved messages, settings, options | message thread, collector thread, `bbGetMessage` |
| behavior | `Modules/behavior/*.c` | one Lua state, `luaMtx` | script thread (every 250 ms), message thread, call-backs that publish commands |
| behavior trees | `lua/behaviortree` | node being run | start, run, success, fail, finish |
| main | `Robots/FIDO/fidomain.c` | `SIGHUPflag` | starts everything, polls for SIGHUP |
| scanner | `Modules/scanner/scanner.c` | | not compiled (`SCANNER` is undefined) |
| platform | `Platforms/BBB` | | pins, PWM, UART, I2C set-up |

How they interact. `RouteMessage` runs **in the thread that publishes** and calls
the `...ProcessMessage` function of each subscriber; most copy the message to
their queue and return, but `AutopilotProcessMessage` also assigns the shared
variable `motorsState`. `Notify` instead queues to `brokerQueue`, from which
`BrokerInputThread` routes. The blackboard thread assigns settings and options
that other threads read. There is no lock outside `brokerQ.c`, `luaMtx` and the
blackboard's.

What is hard. All queues share one pool of entries and every thread is both
producer and consumer; signals are sent after the unlock; threads share
variables without locks; the motors answer asynchronously, by notifications that
carry no move number, over a queue in which older answers may still wait; most
states have no timeout; memory may run out in the middle of publishing.
`PROJECT.json` lists each hazard at its line.

What makes each part correct:

* queues: lists stay lists, one owner per entry, FIFO, no lost wake-up, progress;
* pilot: what it announced is its state; inhibition is noticed; it is never left
  engaged with nothing that will end the move; it serves scripts and motors as
  `PilotService` says;
* serial broker and log: an error is forwarded once, never in a loop, and the
  quota does not close before `MAX_ERROR` errors (after them it may close for good);
* navigator: notifications match the state, every entry taken is released once,
  a pose is reported regularly, a lost fix is announced;
* drivers: what is published was sent, whatever characters are lost;
* blackboard: the collector frees no entry in use, the lists never mix, a reader
  finds the latest entry, the history is thinned out and not lost;
* behavior: Lua state under its mutex, reload not lost;
* behavior trees: starts and finishes of nodes alternate, a tree reports what its
  tasks did, and is ready to be run again;
* responder: CONFIG_DONE counts what was sent.

## Modules

`MessageQueue` is the abstract promise of the queues: unbounded FIFO sequences
`contents`, and the message each reader has in `hand`.

`BrokerQ` is `brokerQ.c` pointer by pointer: the fields `next` and `msg` of each
entry, `freelist`, `qHead`, `qTail`, the mutexes, and per thread a location `pc`
and the locals `e` (`entry`) and `wake`. A critical section is two steps: one
takes the mutex and reads the word the code branches on, one writes and unlocks;
the signal is a third step, after the unlock. `Publish ... Signal` is
`CopyMessageToQ`/`Notify`; `LockQueueToTake ... UnlinkEntry` is `GetNextMessage`,
with spurious wake-ups; `DoneWithMessage ... PushFree` returns the entry;
`Forward` is the navigator's `AppendQueueEntry` of an entry it holds. When
`calloc` fails `NewQueueEntry` logs an error, and so publishes, with `freeMtx`
held: `NoMemory`. `order`, `spare` and `place` are history variables; nothing
depends on them. `FifoQueues` states that `BrokerQ` implements `MessageQueue`
under the mapping `Contents`, `Hand`.

`Autopilot` is `autopilot.c`. The pilot thread takes a message
(`HandleAtRest`, `HandleEngaged`, `HandleInactive`: the state machine, with the
arithmetic of turns and distances in C integers), then makes its calls one step
at a time: `SendMove` (RouteMessage), `MarkCommanded` (the unlocked assignment
of `motorsState`), `CancelPrior`, `NotifyState`. The thread that receives from
the UART assigns `motorsState` and queues the message in two steps. Commands,
ticks, poses and odometry are delivered by other threads at any time, and the
blackboard thread sets the option `moveOK`. The motor processor is not in this
repository: it is modelled, as external, by the little the code relies on (a MOVE
replaces the one under way, each is announced when started and when done, errors
and inhibition come at any time where a run allows them). The queue is a sequence, which is what
`BrokerQ` implements. Speeds, flags, time stamps and texts are left out:
nothing branches on them (`latestMotorTime` is compared only before a statement
without effect, line 198).

`PilotService` is what the pilot promises to the scripts and the motors, with no queue,
thread, angle or distance in it: one MOVE for each decision to engage, sent before
anything is announced; each state announced before it is left; an engagement that ends
done or failed and in no other way. `ServesClients` states that `Autopilot` implements it:
all states in which PILOT_ENGAGED is announced map to `turning`, the locations of the pilot
thread to `phase`, the MOVEs on their way to `link`.

`Navigator` is `navigator.c`. The thread acts only when a message arrives, and a
message is one step: what the handler leaves (`CollectFix`, `AverageFixes`,
`UseFix`, `NoFix`, `ImuReport`, `GetAFix`, `OtherMessage`), then the age tests, the
state machine and the report (`Conclude`, `NextState`, `Report`). There is no queue in it: the
messages come in any order, which is what a queue can give. A time is kept as its
age, `Pass` lets a second go by, and an age beyond every timeout is `Never`; this loses
nothing, for ages are only compared with timeouts. No second ends inside a step, so the
three or four calls of `time(NULL)` of one message agree. `GPSGood` and `IMUGood` are
uninitialised in the code and start with any value. The filters are left out.
What the code does and may not have meant is modelled as it is: `oldestGPSFixTime`
is always 0 (line 221 assigns), so a GPS is stable at once; lines 451-453 compare the
last report with itself.

`GpsReader` is `GPS.c`: the thread that reads the receiver's UART (`ReadChar`: a `$` begins a
line, a line feed ends it, one too long is parsed after each further character), checks and
parses lines (`ParseNMEA`) and publishes a GPS_REPORT for each that it accepts, with the fix
of the last GPRMC and the HDOP of the last GPGGA. A sentence is a sequence of characters, the
sentence's name and the field that is used taken as one each, and the checksum the text it
was computed from. External: the receiver, which finds and loses its position, and the
UART, which may lose one character of each sentence. A sentence is read in one step, since
the line is the thread's own, and what can come of it is a table (`Hearing`).

`GpsNavigator` composes the two, and the loop of `IMU.c`: the navigator takes the driver's
reports in order, among messages of other kinds in any order.

`SerialLog` is `syslog.c`, `serialBroker.c` and the part of `RouteMessage` that joins them.
Any thread publishes (`Publish`); the logging thread takes a message, forwards a copy of
an error and prints (`TakeLog ... PrintLog`); `TxThread` writes to the UART, `RxThread`
routes what the motor processor sends. `errorCount` is shared by two threads without a
lock, so its ++ and -- are each a load and a store. A message is known by its number,
which its forwarded copy keeps. The queues are sequences, as `BrokerQ` allows. External: the table of
topics, which is not in the repository, and the motor processor, which sends messages of
its own and may return any it was sent. A short write is not told from a whole one.

`Scripting` is `behavior.c`, `scriptplayer.c`, `luaglobals.c`, `responder.c` and what the main
program has to do with them: it starts the scripts (`OpenState`, `StartScripts`) and turns a
SIGHUP into a RELOAD (`RouteReload`, `ClearFlag`). Three threads use the Lua state under
`luaMtx`: the script thread (`Update`), the message thread (`Reopen`, `Reload`, `Activate`,
`ActivateNothing`, `CallHook`, `IgnoreMessage`) and the responder (`AvailableScripts`, between
`TakeConfig`, `SendSettings` and `SendDone`). A critical section is two steps: `LockLua`, and one
that works and unlocks; a reload is a step longer, for the state is open before it is loaded. Of
the state the model keeps the edition of the scripts it was loaded from and the activity
that `update` calls; the depth of its stack is left out. What `AvailableScripts` lists is the table
`Activities` (`scriptplayer.c:212`). The scripts of the repository define another, `ActivityList`
(`initglobals.lua:3`, `test_scripts.lua:33`): with them it lists nothing, as with the first edition of the
run; the second stands for scripts that have the table. `Folders` lists the editions of the scripts on
disk, each with the functions it defines and whether loading fails; an edit replaces one by the
next. The main program loads without the mutex, and the responder may already run: two
threads inside are a data race, and a use of the state while it is NULL is as undefined;
`Race` and `UseNullState` may end the process. External: the app, the operator and the table
of topics. A script's function is assumed to return, to publish at most a setting or option
as far as the scripts themselves are told, and to change the activity only by `activate`.

`BehaviorTree` is the library under `lua/behaviortree` that scripts build their behavior from.
An action is a call of one method; `call` is the call to be made next, and `stack` what its
callers still have to do when it returns. Trees, branches (Sequence, Priority, Random),
decorators and tasks are data (`class`, `kids`), so that any forest can be modelled. What a
task does is external: it reports success, fail or running, through its own methods or the
global functions (`Globals`), or nothing, or ends in an error. `active`, `outcome`, `ran`,
`report`, `reports` and `stalled` are history variables. What a reader of the library may not
expect is modelled as it is: a tree that is resumed goes on in the child that was running,
but its root, started again, counts from its first child, and so runs some again that have
been run; a task that is
the root of a tree is started at each resumption; a global function called below a
decorator reports for the node that `call_run` set last. That may have no child under way, and a
Lua error ends the update (`BranchHasNoNode`, `ResumeNothing`); or it may be above an inner tree,
which the report passes by and which stays started though nothing has failed. `OwnReports` therefore
leaves out of `ChildrenAlternate`, `NoNilNode`, `TreesReady` and `ReportMatches` the trees whose tasks use the
global functions, but for those in which a report cannot go astray: that have no branch, or one
with nothing but tasks below it. `ReportMatches` compares the report with `Eval`, what the nodes make
of the last outcomes of their tasks, and so is about trees in which two children of a branch have no node in
common (`Apart`): of a task below two of them the last outcome may be another than the first of them told.
(A branch may have the same child twice, and separate trees may share nodes.) After an error, or a task that reports nothing, the tree stays started
for ever and only ever reports running. Success and fail of a decorator, and every report of a branch, call
`control` without looking whether it is nil, which `Node` does (`Tell`); that it never is, is part of `NoNilCall`.

The repository's own scripts do not get as far as any tree. The first line of `initglobals.lua` requires
`behaviortree/behavaor_tree`, and the file is `behaviortree/behaviour_tree.lua`; the error ends the loading
of `initglobals.lua`, so that `activate`, `update`, `ActivityList` and `NextActivity`, which it would define
further down, are missing as well, and a start that loads these scripts fails: `BehaviorInit` returns before it
creates its threads. In `Scripting` that is an edition without `activate` and `update` that is not `ok`. The
library is modelled for scripts that require it by the name it has.

`Blackboard` is `blackboard.c` pointer by pointer: `next`, `timeStamp` and `accessCount` of each
entry, the list of each type, the free list, the mutex. The message thread saves a message
(`bbGetFreeEntry`, `FillEntry`, `bbAddToMsgList`) or overwrites the tick's entry in place
(`ReceiveTick`, `UpdateTick`); the collector (`CollectorWakes ... CollectorUnlocks`) takes a step
per entry; readers walk a list under the mutex, count their access and take it back without
the mutex. Only the list of the message type numbered 0 is ever collected, since `messageType`
is never changed, and `bbGetMessage` refuses that number: `Zeroth` is that type, which may be
one of the saved ones or not (the numbers are not in the repository). When the collector has
discarded an entry it goes on along the `next` that it has just overwritten, into the free
list. SET_OPTION and NEW_SETTING are in `Autopilot`, which reads the option `moveOK`;
`bbAddToMsgList` never fails, so `bbAddToFreelist` is not reached. `place` is a history variable.

`MCBrokerQ`, `MCAutopilot`, `MCNavigator`, `MCGpsNavigator`, `MCSerialLog`, `MCScripting`,
`MCBehaviorTree` and `MCBlackboard` give small instances. `BrokerQProofs`, `AutopilotProofs`,
`NavigatorProofs`, `GpsNavigatorProofs`, `SerialLogProofs`, `ScriptingProofs`,
`BlackboardProofs` and `BehaviorTreeProofs` hold the theorems.

Operators next to an action and called "Mutant of ..." are wrong variants of it
that no specification uses. Each shows that a property can fail: with the variant in
place of the action, TLC finds the property violated (`PROJECT.json`, `mutants`).

## Runs

| run | what it checks | instance |
|---|---|---|
| `brokerq` | `TypeOK`, `ListsWellFormed`, `OneOwner`, `NoLostWakeup`, `FifoQueues` | a source, the broker, a subsystem; two queues; two entries, one preloaded; two messages |
| `brokerq_live` | `QueuesDrain` | two threads, one queue, two entries |
| `brokerq_no_memory` | `FailsCleanly`, violated | as `brokerq` |
| `pilot` | `TypeOK`, `NotificationsCurrent`, `InhibitReachesPilot`, `ServesClients` | power, `moveOK`, inhibition and errors come and go; six messages; queue of 2 |
| `pilot_motion` | `NeverStranded`, `StraightMovesEnd` | turns, relative and absolute goals, a backward move; errors; queue of 1 |
| `pilot_inhibit` | `InhibitHonoured`, violated | as `pilot` |
| `navigator` | `TypeOK`, `NoticesTellState`, `PoseIsFresh`, `SentencesBelieved`, `LossIsNoticed` | the navigator with GPS and IMU; timeouts of 1 s, two samples for a good average, windows of 2 s and of -1 s; one character of each sentence may be lost |
| `navigator_report` | `PosesKeepComing`, violated | the navigator alone; timeouts of 2 s, three samples, windows of 3 s and of -1 s |
| `seriallog` | `TypeOK`, `LoggedOnce`, `SentOnce`, `FirstErrorsForwarded`, `EveryLogPrinted` | quota of 2, four messages |
| `scripting` | `TypeOK`, `LuaUsedSafely`, `ConfigDoneCounts`, `ActivityAnnounced`, `SignalReloads`, `ConfigAnswered` | two editions, the second broken; two activities; two CONFIGs; queue of 1 |
| `blackboard` | `TypeOK`, `ListsWhole`, `HeldStays`, `OneTickEntry`, `FoundIsLatest`, `SlotsStayCovered` | three entries, two readers; a minute of 2 s, an hour of 4, a day of 8; three instants |
| `behavior` | `TypeOK`, `ChildrenAlternate`, `NoNilCall`, `ReportMatches`, `ReadyAgain`, `UpdateEnds` | nine trees over four tasks, with every kind of node |

The violated properties are what a comment of the code says and the code
does not do; `PROJECT.json` quotes them under `findings`:

* `FailsCleanly`: callers are prepared for `GetFreeEntry` to return NULL; it
  never does, the thread locks a mutex it holds.
* `InhibitHonoured`: the pilot "first checks whether moving OK", but it has
  itself overwritten the inhibition with COMMANDED.
* `PosesKeepComing`: `REPORT_MAX_INTERVAL` is the longest a report may take, but the
  test is the wrong way round, and a single bad fix silences a good pose for as
  long as the fixes that follow renew its age.

Bounds, and why they suffice. Two entries make the freelist run empty, an
entry be allocated, recycled and handed on, and a queue go from empty to one to
two; three threads contend for every mutex; the theorems lift all of it to any
number. In the pilot, a queue of 2 lets one message wait behind another (a report behind a command and the
reverse), `LinkBound` 1 blocks the pilot in RouteMessage at most until the motors take the earlier MOVE; places on
the two axes reach every branch of the arithmetic (error positive, negative, within
`arrivalHeading`; distance within `arrivalRange`, below and above 100 cm).
`pilot_motion` has one message in the queue at a time because its question is
about reports that get lost, not about order.

In the navigator every timeout is 1 and `Never` is 2 (2 and 3 in `navigator_report`), so that
each age is met below, at and beyond its timeout; the samples saturate one beyond what
tells a short average from a good one. A line holds `MAXLINELENGTH` = 13 characters, counted as
`GpsReader` counts them: two whole sentences that run together are too long, and with one that
has an empty field they are not, so that both ends of a line are met; the theorem is about every room from 8 on. The fault assumed,
one character lost of each sentence, is the one that a checksum of XOR can tell; with two
lost, of which one is the carriage return, a damaged field is accepted.

In the log, four messages allow three errors, one more than the quota, and one from the
motors, with every interleaving of the counter's loads and stores; returned messages are
not counted.

In the scripts, the second edition lacks a hook, an activity and the success of a folder, and
lists 240 activities, which with 20 options and settings do not fit the byte of CONFIG_DONE; two
CONFIGs tell a count that is reset from one that is not. `Delivered` are the types of message
that others send, `MaxQueue` how many of them wait; the RELOAD of a SIGHUP finds room
beside them.

On the blackboard three entries make the free list run dry, let two be discarded in one walk
while the third is kept or read, and let a list hold two while the free list is not empty. `Instants` are
the times at which anything happens: 8, the first at which a fresh entry's stamp of 0 is a day
old, and 11 and 12, which with a day of 8 meet every rule of the collector: too young, the
same second, minute and hour, another one of each, over a day. `Lookbacks` is 1: an entry can be too
late, just right or old enough. `MaxAccess` stops readers when the counts, of which updates
are lost, are further from 0 than 1; each reader may then still be one off.

The forest of `behavior` has a Sequence of tasks, a Priority with a decorator and a Sequence
below it (once with the tasks' own reports, once with the global functions), a decorated
Priority that has a task twice (again with both, as `OwnReports` allows it), a tree within a tree, over a Random, a branch without
children, a tree whose root is a decorated task, and a Sequence of a decorated Sequence and a
task that use the global functions. There is no bound on updates; `MaxStarts`
is one more start than any task may have, and `StartsAssumption` asks as much.

`CHECK_DEADLOCK FALSE` appears for `BrokerQ`, where memory exhaustion really stops every
thread, for `SerialLog`, where everything rests when the bound on messages is reached
and nothing was written that could be returned, and for `Scripting`, where a crashed process
stops.

Fairness. `BrokerQ`: threads of equal priority are all scheduled (weak fairness
of what a thread does without waiting); a mutex released again and again is
eventually obtained (strong fairness of the lock steps); a handler publishes
finitely often per message (strong fairness of `DoneWithMessage`). Starting to
publish and spurious wake-ups are not fair. `Autopilot`: the pilot thread and the
receiving thread run; the external motors start and finish the moves they
accept; a report finds room in the queue eventually. Commands, ticks, options
and faults are not fair. `Navigator`: time passes, and the clock's ticks (TICK_1S, which
it receives) keep arriving: `LossIsNoticed` needs both, for its state changes only on a message.
With the drivers it also takes what is queued; nothing makes the receiver send, and that
its GPRMC comes through again and again is a premise of `LossIsNoticed`.
`SerialLog`: the logging thread runs; the UART and the motors may stop. `BehaviorTree`: a
call in progress goes on, for Lua runs it to its end in the host's thread; the host need not
update. `Scripting`: all
four threads run, and the message thread and the responder obtain `luaMtx`, which is
released again and again (strong fairness of their lock steps). The app, the operator, the
signal and a ping are not fair. `SignalReloads` does not speak of a SIGHUP that arrives
between `RouteReload` and `ClearFlag`: that one the code loses.

## Proofs

All are checked to the last leaf and hold for every value of the constants that
satisfies the named assumptions (ASSUMEs of the modules: a thread reads each
queue, settings within the limits of `Settings.h`, messages of the kinds the
handlers accept).

`BrokerQProofs`. `ListsWellFormed` is not inductive: that `qTail` is right after
`LinkEntry` needs that the linking thread holds the mutex, that `wake` still
tells whether the queue is empty, and that its entry is in no list. The
invariant is the conjunction of the types, mutual exclusion (who is inside which
critical section, and that holder only), the locals of a thread inside a
section (`entry` equals the word it read), the structure of the lists, the
ownership of entries (`place`, each entry in one place once) and the wake-up
condition. `Invariance` proves it, one lemma per action; `Typing`,
`ListsStayWellFormed`, `EntriesHaveOneOwner`, `WakeupsAreNotLost` follow, and
`Refinement` proves that every step is a Put, a Take, a Release or a stutter of
`MessageQueue`.

`AutopilotProofs`. The invariant adds to the types: what is announced at each
location of the pilot thread in terms of the prior and the present state
(`NoticeInv`), and that the receiving thread between its assignment and its
append holds the report that explains `motorsState` (`RoutingInv`).
`InhibitionReachesPilot`: a pilot at rest tests `motorsState` in the step that
engages, and only a report can set it to INHIBIT later. `NoStrandedPilot`
assumes that `"inhibit"` is not among `Faults`: the invariant then adds that the
motors are never inhibited once released (`ReleasedInv`). With inhibition the property is
false, since inhibited motors drop a MOVE and the pilot overwrites the state. `PilotServes`:
from the invariant, every step maps to a step of `PilotService` or to a stutter; it needs
`NoticeInv`, for what is announced has to be that of the state the step leaves.

`NavigatorProofs`. The types, `NoticesTellState` and `PoseIsFresh` are inductive
together. Every message ends in `Conclude`, so one lemma about it, whose parameters are
what the message left, serves all seven; it asks only that no message makes an age
larger. `PassStep` is the other: a report that is a second old is not of now.

`GpsNavigatorProofs`. Every step of the composition is one of `Navigator`, or leaves its
variables alone: so the composition implements `Navigator`, and what is proved of it for messages
in any order holds for the driver's reports.
`SentencesBelieved` is proved by following the reading of a text character by character (`Counting` is
the induction: what holds of 0 and is handed on holds up to n; `HeardIsRead` says that the recursive function
in `Heard` exists). From a `$` on the line is the text (`LineHeard`), so that a sentence is parsed as it was
sent (`WholeHeard`), with a character of its data spoilt, which the checksum tells (`SpoiltHeard`), or with a
part of its end missing (`EndLostHeard`): its checksum then is in no place where it is looked for, and what is
accepted unchecked is right. When the `$` itself is lost, the line that was left grows, is cut and parsed again
any number of times, but keeps the three characters that are looked at (`LineSpoilt`); a line without `$` is
refused (`LineWithoutBeginning`). The invariant is that the line holds the beginning of a sentence or nothing
between two sentences. The one assumption is `LineAssumption`: a line has room for a whole sentence
but for its line feed (`GPS.h` defines 120 characters, a sentence of NMEA has at most 82). TLC finds a
sentence that is not heard as soon as the room is one character less.

`SerialLogProofs`. `LoggedOnce` and `SentOnce` are not inductive: that a number is printed
once needs that it is nowhere else on the way of the log (queue, hand, file), nor a
second time on the way of the UART (copy in the making, queue, wire). The invariant
`Inv` says just that of both ways, with the types and with the bound of `errorCount` by what
was counted; one lemma per action, over two lemmas on appending and removing.
`FirstErrorsAreForwarded` needs that the quota is used up by nothing but errors: `QuotaInv` says that
`errorCount`, and each count that is loaded and not yet stored, is at most the number of errors
printed, and the one in hand if it has been counted (`ChargeInv`; a lost update only lowers it), and
that an error about to be printed, if it is one of the first, was handed to the UART (`HandInv`).

`BlackboardProofs`. `ListsWhole` speaks of every state, those inside the collector's section too: each
step of the walk leaves both of the lists that it rearranges whole, also when it strays. The exception,
`Caught`, is a walk in the free list that is about to discard an entry that is free already. (`ListsSeenWhole`: the
others never see a list broken.) The invariant is a conjunction: the types and the mutex; what
the message thread has in hand is in no list (`Messaging`); the tick's entry (`Ticking`); what a reader
holds is in the list where it was found, with its stamp (`Reading`); the lists that are not collected
are whole (`Others`); the list and the free list as the walk has left them so far, and that a walk that
strays either ends without a change or is `Trapped` (`Collecting`); the stamps along a list do not
increase (`Stamps`), and the lists have an end: there is a rank that falls along `next` (`Order`).
`FindsLatest` needs the last two, `SlotsCovered` that the walk remembers the stamp of the entry it kept
last. `TrapHasNoEnd` is a warning: when the walk discards an entry and then the head of the free
list, the two point at each other, and the collector goes round them for ever, with the mutex. No
property excludes it, for the code runs into it as soon as it discards something while the free list begins
with an entry that it would discard as well, such as a preloaded one, whose stamp is 0. In that state the
other properties hold because nobody else gets in, and `ListsWhole` excepts it.

`ScriptingProofs`. `Inv` adds to the types: where a thread can be (`Places`), that the mutex is held
by the thread that is inside, the loading main program apart, and that a crash has one
of its two causes (`MutexInv`); that `configCount` is what has been sent while a configuration is
under way (`CountInv`); that the name kept in C is the one announced, and that of the
running activity if there is one (`AnnounceInv`). Loading and locking need the first two
together: only once the scripts are loaded do the threads that lock exist.

`BehaviorTreeProofs`. The types are not inductive: a branch reports to its `control`, and goes on to
`kids[actualTask]`, without looking whether there is one. `IInv` adds (`Targets`) that whatever is called or
will be resumed has a control, which has one in turn, up to a tree, and was started, and that the
global functions are set whenever a task runs or a child has ended; and what the stack still holds for
the tree of the host (`Rooted`) and for the globals (`Settled`). From it come the types, that no global
function is nil, and all of `ReadyAgain` but `TreesReady`.

The rest is about the whole way from the host's tree down to the task that runs. A node that several
branches share is told anew at each run to whom it reports, so `control` is a graph that keeps
changing, and parts of it are left over from runs long past. What does not change while a node
runs is what is above it. `PInv`, which needs `IInv`, says so: the branches that are at a child lie on one
way in that graph, each of them a child of the next through decorators and trees (`Path`); a branch
that has been told that its child is running keeps it (`Kept`); the trees that are started are those on the way,
above the next call or, once the report has passed, those the stack will unstart
(`Started`); a task has been started once if a branch is at it, and else, unless a task has failed, not (`Counted`); where the
global functions are used, they are those of the branch, or of the task, that is to hear (`Own`). `Phase` names
where the next call lies: on the way down, on the way up, or nowhere between two updates, with everything
finished or with a branch still at its child. `PathInvariance` proves it one action at a time, and
`NothingCallsNil`, `HooksAlternate` and `TreesAreReadyAgain` follow. Looking for it showed that
`OwnReports` had to cover `TreesReady` too, and could be wider than it was for the others.

The assumptions on the forest: the tree of the host is in no other (a script makes it for its hook);
a task has no children; and no node is below itself (`HeightAssumption`). The library does not forbid
that, for it looks a child up by its name only when it runs it; but such a node would call itself without
end. Branches may share children, a branch may have one of them twice, and trees may be nested in any way.

`Inner`, `Under`, `Below` and `Eval` are functions recursive along the children. The library's induction
theorems cannot be instantiated here, but that a set of numbers has a least element can: with it `NodeInduction`
puts the induction in terms of a set of nodes, and `ForestRecursion` shows that there is a function for every
equation that makes the value of a node from those of its children, the height of a node being what the
argument goes by. So these functions have the values their definitions say, and nothing is assumed of them.

`ReportMatches` then needs a third invariant, `EInv`: a branch that is at a child has come to it past children
whose verdict, by the last outcomes of their tasks, is the one to go on with (`Left`); a node is told the
verdict of the child it hears from (`Told`); a branch that is run and is at no child begins with its first
(`Fresh`). A tree that is resumed starts its root anew, which sets `actualTask` back while the branch is at a
later child: so `Left` says of the place of that child only that `actualTask` is not past it. An outcome or a choice of a
Random branch changes the verdicts of the nodes above it and, where children are `Apart`, of no child that a
branch has left behind (`EvalFrame`, `BelowOne`). `ReportsMatch` follows from the first step of a report to the
last.

Only model-checked: `QueuesDrain`, `StraightMovesEnd`, `LossIsNoticed`, `EveryLogPrinted`,
`SignalReloads`, `ConfigAnswered` and `UpdateEnds` (liveness under fairness is out of the prover's
reach). Every safety property that a run checks and finds to hold is a theorem.

## Plan

1. Done: queues, pilot and navigator; serial broker with the log; scripts with the responder
   and SIGHUP; their runs and theorems.
2. Done: blackboard with its collector, behavior trees, the pilot's abstract specification,
   the GPS driver composed with the navigator, and theorems about them: with the way of reports
   through a forest, what comes of it, and what the GPS driver believes, all safety properties.
3. Left: the pilot composed with the navigator and with turns that change the heading (turns of
   range 0); the quota of `errorCount`, which an error
   over it uses up for good (no document says when it should open again, so no property does).

The set of runs should stay short enough to be repeated on every change: a run for what is left
takes the place of a narrower one.

## Not modelled

* `Libraries` holds two copies of the Lua interpreter, most of the lines of the repository's C code;
  it is not this project's code, and the models take from it what its manual promises: a
  protected call returns, and an error unwinds to it. How much of its stack the host leaves
  filled is not modelled.
* `kalman.c`, `matrix.c` and the trigonometry of `LSM303.c`: floating point, which TLC has not. No
  branch of the modelled code depends on what they compute.
* The scanner is not compiled (`SCANNER` is undefined in `SoftwareProfile.h`).
* `Platforms/BBB`, the opening of devices and files, `printlog.c`: input, output and text. Reads
  that fail are not modelled, nor is the first line of fewer than four characters that
  `GPS.c` may read when it starts within a sentence (line 189 then looks before the array).
* The shared `Messages` code, with the topics and the frames of the UART, is not in the repository.
* What a message on the blackboard says. The tick's is copied in place while others read it: `OneTickEntry` is
  about the entry and the pointers to it, and no property about a notification mask of which half is new.
* Errors returned by pthread calls on valid mutexes: the code logs them and goes on.
* That a MOTORS_DONE belongs to a move that has since been replaced (`autopilot.c:418`) is in the
  model, but no document of the code says which move a DONE must be of, so no property does.
