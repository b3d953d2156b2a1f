----------------------------- MODULE Scripting ------------------------------
(***************************************************************************)
(* The scripts: one Lua state, btLuaState, which three threads use under   *)
(* luaMtx (src/Modules/behavior), the responder (src/Modules/pubsub/       *)
(* responder.c) which lists the scripts for the app, and the main program, *)
(* which creates the state, starts two of the threads, and later turns a   *)
(* SIGHUP into a RELOAD (src/Robots/FIDO/fidomain.c).                      *)
(*                                                                         *)
(* A critical section is two steps: to lock, and to work and unlock, except*)
(* a reload, which opens a state and then loads it.  What the work may do  *)
(* depends on the scripts on disk: Folders lists their editions, an edit   *)
(* replaces one by the next.  A use of the state by two threads at once,   *)
(* or of a state that is NULL, is undefined: it may end the process.       *)
(*                                                                         *)
(* Of the Lua state the model keeps the edition loaded and the activity    *)
(* that update calls; what lies on its stack between two uses is left out. *)
(* External: the app, the operator, the topic table, which sends RELOAD    *)
(* and the messages below to the scripts.                                  *)
(***************************************************************************)
EXTENDS Integers, Sequences

CONSTANTS
  Activities,   \* names of activities, functions of the scripts or not
  Folders,      \* the editions of the script folders
  Delivered,    \* bound: types of the messages that others send
  MaxQueue,     \* bound: messages waiting, one RELOAD of a signal apart
  MaxConfigs    \* bound: configurations asked for

Hooks == {"batteryhook", "tickhook", "settinghook", "optionhook", "notificationhook"}

MessageType ==
  {"RELOAD", "ACTIVATE", "BATTERY", "TICK_1S", "NEW_SETTING", "SET_OPTION", "NOTIFICATION"}

\* functions: the globals that are functions once loaded; activities: how many names the
\* table Activities lists, 0 if there is none (the repository's own scripts call theirs
\* ActivityList).
Folder == [functions : SUBSET (Activities \cup Hooks \cup {"activate", "update"}),
           activities : Nat, ok : BOOLEAN]

\* "none" is no activity, there is an edition to load, and bounds are numbers.
ASSUME ScriptsAssumption ==
  /\ "none" \notin Activities
  /\ Folders \in Seq(Folder) /\ Folders # <<>>
  /\ Delivered \subseteq MessageType
  /\ MaxQueue \in Nat /\ MaxConfigs \in Nat

VARIABLES
  process,        \* running or crashed
  disk,           \* the edition in the folders
  at,             \* location of each thread
  luaMtx,         \* its holder
  lua,            \* btLuaState
  behaviorQueue, message,    \* the second in the hand of the message thread
  currentName,    \* of the activity last announced, in C
  announced,      \* and as the app was told
  SIGHUPflag,
  asked, answered, configCount, startFlag,
  received, lastDone      \* by the app: configuration messages so far; the last CONFIG_DONE

environment == <<disk, asked>>
scripts == <<luaMtx, lua, behaviorQueue, message, currentName, announced>>
responder == <<answered, configCount, startFlag, received, lastDone>>
vars == <<process, at, SIGHUPflag, environment, scripts, responder>>

Thread == {"main", "script", "messages", "responder"}
Location == {"absent", "starting", "loading", "sleeping", "clearing", "locking", "inside",
             "waiting", "sending", "reporting"}
Message == [type : {"ACTIVATE"}, name : Activities]
             \cup [type : MessageType \ {"ACTIVATE"}, name : {"none"}]
Msg(type) == [type |-> type, name |-> "none"]
NoMsg == Msg("none")

NullState == [state |-> "NULL", edition |-> 0, current |-> "none"]
NewState == [NullState EXCEPT !.state = "open"]

Init ==
  /\ process = "running"
  /\ disk = 1
  /\ at = [t \in Thread |-> CASE t = "main" -> "starting" [] t = "responder" -> "waiting"
                              [] OTHER -> "absent"]
  /\ luaMtx = "none" /\ lua = NullState
  /\ behaviorQueue = <<>> /\ message = NoMsg
  /\ currentName = "none" /\ announced = "none"
  /\ SIGHUPflag = FALSE
  /\ asked = 0 /\ answered = 0 /\ configCount = 0 /\ startFlag = TRUE
  /\ received = 0 /\ lastDone = [value |-> 0, received |-> 0]

Goto(t, location) == at' = [at EXCEPT ![t] = location]
-----------------------------------------------------------------------------
(* The Lua state *)

Functions == IF lua.edition = 0 THEN {} ELSE Folders[lua.edition].functions
Listed == IF lua.edition = 0 THEN 0 ELSE Folders[lua.edition].activities

\* ChangeSetting and ChangeOption, from a script; other calls tell the scripts nothing.
ScriptPublishes ==
  \/ UNCHANGED behaviorQueue
  \/ /\ Len(behaviorQueue) < MaxQueue
     /\ \E type \in {"NEW_SETTING", "SET_OPTION"} :
          behaviorQueue' = Append(behaviorQueue, Msg(type))

\* A hook that is no function, or that fails, is only logged.
InvokeScript(f) ==
  /\ UNCHANGED lua
  /\ IF f \in Functions THEN ScriptPublishes ELSE UNCHANGED behaviorQueue

LoadAllScripts == lua' = [lua EXCEPT !.edition = disk]

\* Mutant of LockLua: the mutex is not waited for.
LockLuaUnchecked(t) ==
  /\ at[t] = "locking"
  /\ luaMtx' = t
  /\ Goto(t, "inside")
  /\ UNCHANGED <<process, SIGHUPflag, environment, responder, lua, behaviorQueue, message,
                 currentName, announced>>

LockLua(t) ==
  /\ at[t] = "locking"
  /\ luaMtx = "none" /\ luaMtx' = t
  /\ Goto(t, "inside")
  /\ UNCHANGED <<process, SIGHUPflag, environment, responder, lua, behaviorQueue, message,
                 currentName, announced>>

UnlockLua(t, location) ==
  /\ luaMtx' = "none"
  /\ Goto(t, location)

\* The threads that use the Lua state.
Inside == {t \in Thread : at[t] \in {"inside", "loading"}}

\* A data race: it may do any harm, or none.
Race ==
  /\ \E t, u \in Inside : t # u
  /\ process' = "crashed"
  /\ UNCHANGED <<at, SIGHUPflag, environment, scripts, responder>>
-----------------------------------------------------------------------------
(* The main program *)

\* InitScriptingSystem, without the mutex; its failure stops only the two threads.
OpenState ==
  /\ at["main"] = "starting"
  /\ \/ lua' = NewState /\ Goto("main", "loading")
     \/ lua' = NullState /\ Goto("main", "sleeping")
  /\ UNCHANGED <<process, SIGHUPflag, environment, responder, luaMtx, behaviorQueue, message,
                 currentName, announced>>

StartScripts ==
  /\ at["main"] = "loading"
  /\ LoadAllScripts
  /\ at' = IF Folders[disk].ok
           THEN [at EXCEPT !["main"] = "sleeping", !["script"] = "locking", !["messages"] = "waiting"]
           ELSE [at EXCEPT !["main"] = "sleeping"]
  /\ UNCHANGED <<process, SIGHUPflag, environment, responder, luaMtx, behaviorQueue, message,
                 currentName, announced>>

RouteReload ==
  /\ at["main"] = "sleeping" /\ SIGHUPflag
  /\ Len(behaviorQueue) <= MaxQueue
  /\ behaviorQueue' = Append(behaviorQueue, Msg("RELOAD"))
  /\ Goto("main", "clearing")
  /\ UNCHANGED <<process, SIGHUPflag, environment, responder, luaMtx, lua, message,
                 currentName, announced>>

ClearFlag ==
  /\ at["main"] = "clearing"
  /\ SIGHUPflag' = FALSE
  /\ Goto("main", "sleeping")
  /\ UNCHANGED <<process, environment, scripts, responder>>

Main == OpenState \/ StartScripts \/ RouteReload \/ ClearFlag
-----------------------------------------------------------------------------
(* The script thread *)

Update ==
  /\ at["script"] = "inside"
  /\ IF lua.state = "open" THEN InvokeScript("update") ELSE UNCHANGED <<lua, behaviorQueue>>
  /\ UnlockLua("script", "locking")
  /\ UNCHANGED <<process, SIGHUPflag, environment, responder, message, currentName, announced>>
-----------------------------------------------------------------------------
(* The message thread *)

TakeMessage ==
  /\ at["messages"] = "waiting" /\ behaviorQueue # <<>>
  /\ message' = Head(behaviorQueue)
  /\ behaviorQueue' = Tail(behaviorQueue)
  /\ Goto("messages", "locking")
  /\ UNCHANGED <<process, SIGHUPflag, environment, responder, luaMtx, lua, currentName, announced>>

\* Of ScriptProcessMessage, for a message of one of the types, and DoneWithMessage.
Process(types) ==
  /\ at["messages"] = "inside" /\ message.type \in types
  /\ message' = NoMsg
  /\ UNCHANGED <<process, SIGHUPflag, environment, responder>>

\* Mutant of Reopen: a state that is open is not opened again.
ReopenOnce ==
  /\ Process({"RELOAD"}) /\ lua.state = "open"
  /\ UnlockLua("messages", "waiting")
  /\ UNCHANGED <<lua, behaviorQueue, currentName, announced>>

Reopen ==
  /\ Process({"RELOAD"}) /\ lua.state = "open"
  /\ \/ lua' = NewState /\ Goto("messages", "loading") /\ UNCHANGED luaMtx
     \/ lua' = NullState /\ UnlockLua("messages", "waiting")
  /\ UNCHANGED <<behaviorQueue, currentName, announced>>

\* Failures are only printed.
Reload ==
  /\ at["messages"] = "loading"
  /\ LoadAllScripts
  /\ UnlockLua("messages", "waiting")
  /\ UNCHANGED <<process, SIGHUPflag, environment, responder, behaviorQueue, message,
                 currentName, announced>>

\* Mutant of Activating: the name is kept before it is compared.
ActivatingLate(name) ==
  /\ currentName' = name
  /\ UNCHANGED announced

Activating(name) ==
  IF currentName # name
  THEN currentName' = name /\ announced' = name
  ELSE UNCHANGED <<currentName, announced>>

\* The function activate of the scripts, called with a name and a function; the call
\* itself may fail, for want of memory.
Activate ==
  /\ Process({"ACTIVATE"}) /\ lua.state = "open"
  /\ {"activate", message.name} \subseteq Functions
  /\ \/ lua' = [lua EXCEPT !.current = message.name] /\ Activating(message.name)
     \/ UNCHANGED <<lua, currentName, announced>>
  /\ UnlockLua("messages", "waiting")
  /\ UNCHANGED behaviorQueue

ActivateNothing ==
  /\ Process({"ACTIVATE"}) /\ lua.state = "open"
  /\ ~ {"activate", message.name} \subseteq Functions
  /\ UnlockLua("messages", "waiting")
  /\ UNCHANGED <<lua, behaviorQueue, currentName, announced>>

\* UpdateGlobalsFromMessage: the hook that a type of message is for.
Hook ==
  [type \in {"BATTERY", "TICK_1S", "NEW_SETTING", "SET_OPTION", "NOTIFICATION"} |->
     CASE type = "BATTERY"      -> "batteryhook"
       [] type = "TICK_1S"      -> "tickhook"
       [] type = "NEW_SETTING"  -> "settinghook"
       [] type = "SET_OPTION"   -> "optionhook"
       [] type = "NOTIFICATION" -> "notificationhook"]

CallHook ==
  /\ Process(DOMAIN Hook) /\ lua.state = "open"
  /\ InvokeScript(Hook[message.type])
  /\ UnlockLua("messages", "waiting")
  /\ UNCHANGED <<currentName, announced>>

IgnoreMessage ==
  /\ Process(MessageType) /\ lua.state = "NULL"
  /\ UnlockLua("messages", "waiting")
  /\ UNCHANGED <<lua, behaviorQueue, currentName, announced>>

BehaviorMessageThread ==
  \/ TakeMessage
  \/ Reopen \/ Reload
  \/ Activate \/ ActivateNothing
  \/ CallHook
  \/ IgnoreMessage
-----------------------------------------------------------------------------
(* The responder *)

Options == 2
Settings == 18

\* Mutant of TakeConfig: the count of the last time is not reset.
TakeConfigCounting ==
  /\ at["responder"] = "waiting" /\ answered < asked
  /\ configCount' = configCount + Options
  /\ received' = received + Options
  /\ Goto("responder", "sending")
  /\ UNCHANGED <<process, SIGHUPflag, environment, scripts, answered, startFlag, lastDone>>

TakeConfig ==
  /\ at["responder"] = "waiting" /\ answered < asked
  /\ configCount' = Options
  /\ received' = received + Options
  /\ Goto("responder", "sending")
  /\ UNCHANGED <<process, SIGHUPflag, environment, scripts, answered, startFlag, lastDone>>

SendSettings ==
  /\ at["responder"] = "sending"
  /\ configCount' = configCount + Settings
  /\ received' = received + Settings
  /\ Goto("responder", "locking")
  /\ UNCHANGED <<process, SIGHUPflag, environment, scripts, answered, startFlag, lastDone>>

\* Mutant of AvailableScripts: without the table, the function returns too early.
AvailableScriptsLocked ==
  /\ at["responder"] = "inside" /\ lua.state = "open"
  /\ configCount' = configCount + Listed
  /\ received' = received + Listed
  /\ luaMtx' = IF Listed = 0 THEN luaMtx ELSE "none"
  /\ Goto("responder", "reporting")
  /\ UNCHANGED <<process, SIGHUPflag, environment, lua, behaviorQueue, message, currentName,
                 announced, answered, startFlag, lastDone>>

AvailableScripts ==
  /\ at["responder"] = "inside" /\ lua.state = "open"
  /\ configCount' = configCount + Listed
  /\ received' = received + Listed
  /\ UnlockLua("responder", "reporting")
  /\ UNCHANGED <<process, SIGHUPflag, environment, lua, behaviorQueue, message, currentName,
                 announced, answered, startFlag, lastDone>>

\* Mutant of SendDone: the count is not cut to a byte.
SendDoneWide ==
  /\ at["responder"] = "reporting"
  /\ lastDone' = [value |-> configCount, received |-> received]
  /\ received' = 0
  /\ answered' = answered + 1
  /\ Goto("responder", "waiting")
  /\ UNCHANGED <<process, SIGHUPflag, environment, scripts, configCount, startFlag>>

\* CONFIG_DONE carries the count in a byte.
SendDone ==
  /\ at["responder"] = "reporting"
  /\ lastDone' = [value |-> configCount % 256, received |-> received]
  /\ received' = 0
  /\ answered' = answered + 1
  /\ Goto("responder", "waiting")
  /\ UNCHANGED <<process, SIGHUPflag, environment, scripts, configCount, startFlag>>

\* AvailableScripts does not test btLuaState.
UseNullState ==
  /\ at["responder"] = "inside" /\ lua.state = "NULL"
  /\ process' = "crashed"
  /\ UNCHANGED <<at, SIGHUPflag, environment, scripts, responder>>

AnswerPing ==
  /\ at["responder"] = "waiting"
  /\ startFlag' = FALSE
  /\ UNCHANGED <<process, at, SIGHUPflag, environment, scripts, answered, configCount,
                 received, lastDone>>

ReportConfig == TakeConfig \/ SendSettings \/ AvailableScripts \/ UseNullState \/ SendDone

ResponderMessageThread ==
  ReportConfig \/ AnswerPing
-----------------------------------------------------------------------------
(* The app, the motor processor and the operator *)

BehaviorProcessMessage(m) ==
  /\ m.type \in Delivered
  /\ Len(behaviorQueue) < MaxQueue
  /\ behaviorQueue' = Append(behaviorQueue, m)
  /\ UNCHANGED <<process, at, SIGHUPflag, environment, responder, luaMtx, lua, message,
                 currentName, announced>>

AskConfig ==
  /\ asked < MaxConfigs
  /\ asked' = asked + 1
  /\ UNCHANGED <<process, at, SIGHUPflag, disk, scripts, responder>>

EditScripts ==
  /\ disk < Len(Folders)
  /\ disk' = disk + 1
  /\ UNCHANGED <<process, at, SIGHUPflag, asked, scripts, responder>>

\* The handler is set once the main program has started all.
SIGHUPhandler ==
  /\ at["main"] \in {"sleeping", "clearing"}
  /\ SIGHUPflag' = TRUE
  /\ UNCHANGED <<process, at, environment, scripts, responder>>

Running == process = "running"

Next ==
  /\ Running
  /\ \/ Main \/ Update \/ BehaviorMessageThread \/ ResponderMessageThread
     \/ \E t \in Thread : LockLua(t)
     \/ \E m \in Message : BehaviorProcessMessage(m)
     \/ AskConfig \/ EditScripts \/ SIGHUPhandler
     \/ Race

Spec == Init /\ [][Next]_vars

\* Every thread runs, and obtains a mutex that is released again and again.
FairSpec ==
  /\ Spec
  /\ WF_vars(Running /\ Main) /\ WF_vars(Running /\ Update)
  /\ WF_vars(Running /\ BehaviorMessageThread)
  /\ WF_vars(Running /\ ReportConfig)
  /\ SF_vars(Running /\ LockLua("messages")) /\ SF_vars(Running /\ LockLua("responder"))
-----------------------------------------------------------------------------
\* Every variable has its type; the count sent to the app is a byte.
TypeOK ==
  /\ process \in {"running", "crashed"} /\ disk \in 1..Len(Folders)
  /\ at \in [Thread -> Location]
  /\ luaMtx \in Thread \cup {"none"}
  /\ lua \in [state : {"NULL", "open"}, edition : 0..Len(Folders),
              current : Activities \cup {"none"}]
  /\ behaviorQueue \in Seq(Message) /\ message \in Message \cup {NoMsg}
  /\ currentName \in Activities \cup {"none"} /\ announced \in Activities \cup {"none"}
  /\ SIGHUPflag \in BOOLEAN /\ startFlag \in BOOLEAN
  /\ asked \in Nat /\ answered \in Nat /\ configCount \in Nat /\ received \in Nat
  /\ lastDone \in [value : 0..255, received : Nat]

\* Once the scripts have been started, no two threads use the Lua state at a time, whatever
\* is reloaded, reported or run; the process crashes only if there was no memory for a state
\* or if the app asks for the scripts before they are there.
LuaUsedSafely ==
  /\ \A t, u \in Inside : t # u => {t, u} = {"main", "responder"}
  /\ process = "crashed" => lua.state = "NULL" \/ at["main"] = "loading"

\* The count in CONFIG_DONE is that of the messages sent for this CONFIG, as far as
\* a byte tells, although the scripts may change while they are reported.
ConfigDoneCounts == lastDone.value = lastDone.received % 256

\* The app knows the activity that is running: what is announced only when it changes is
\* not forgotten when the scripts are reloaded or activated again.
ActivityAnnounced == lua.current # "none" => announced = lua.current

\* A SIGHUP is served: an edition put on disk before it is loaded, or a later one.  Not so if it
\* arrives while the main program is about to clear the flag of an earlier one, if the
\* scripts never started, or if no Lua state could be had.
SignalReloads ==
  \A e \in 2..Len(Folders) :
    /\ SIGHUPflag /\ at["main"] = "sleeping" /\ at["messages"] # "absent"
    /\ disk >= e
    ~> lua.edition >= e \/ lua.state = "NULL" \/ process = "crashed"

\* Every CONFIG is answered, though the script thread takes the mutex again and again.
ConfigAnswered == []<>(answered = asked \/ process = "crashed")
=============================================================================
