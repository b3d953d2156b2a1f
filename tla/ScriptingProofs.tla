--------------------------- MODULE ScriptingProofs --------------------------
(***************************************************************************)
(* Proofs about Scripting, for any scripts, activities and bounds.         *)
(***************************************************************************)
EXTENDS Scripting, TLAPS

\* Where each thread can be; the main program starts the other two.
Places ==
  /\ at \in [Thread -> Location]
  /\ at["main"] \in {"starting", "loading", "sleeping", "clearing"}
  /\ at["script"] \in {"absent", "locking", "inside"}
  /\ at["messages"] \in {"absent", "waiting", "locking", "inside", "loading"}
  /\ at["responder"] \in {"waiting", "sending", "locking", "inside", "reporting"}
  /\ at["main"] \in {"starting", "loading"} => at["script"] = "absent" /\ at["messages"] = "absent"

\* The mutex is held by the thread inside; the main program loads without it.
MutexInv ==
  /\ at["script"] = "inside" <=> luaMtx = "script"
  /\ at["messages"] \in {"inside", "loading"} <=> luaMtx = "messages"
  /\ at["responder"] = "inside" <=> luaMtx = "responder"
  /\ luaMtx \in {"none", "script", "messages", "responder"}
  /\ process = "crashed" => lua.state = "NULL" \/ at["main"] = "loading"

\* The count and what the app received agree while a configuration is sent.
CountInv ==
  /\ lastDone.value = lastDone.received % 256
  /\ IF at["responder"] = "waiting" THEN received = 0 ELSE configCount = received

\* The name kept in C is the one announced.
AnnounceInv ==
  /\ currentName = announced
  /\ lua.current # "none" => announced = lua.current

LuaState == [state : {"NULL", "open"}, edition : 0..Len(Folders),
             current : Activities \cup {"none"}]

Types ==
  /\ process \in {"running", "crashed"} /\ disk \in 1..Len(Folders)
  /\ lua \in LuaState
  /\ behaviorQueue \in Seq(Message) /\ message \in Message \cup {NoMsg}
  /\ currentName \in Activities \cup {"none"} /\ announced \in Activities \cup {"none"}
  /\ SIGHUPflag \in BOOLEAN /\ startFlag \in BOOLEAN
  /\ asked \in Nat /\ answered \in Nat /\ configCount \in Nat /\ received \in Nat
  /\ lastDone \in [value : 0..255, received : Nat]

Inv == Types /\ Places /\ MutexInv /\ CountInv /\ AnnounceInv
-----------------------------------------------------------------------------
(* The Lua state *)

\* What the scripts of an edition give.
LEMMA FolderFacts ==
  ASSUME NEW e \in 1..Len(Folders)
  PROVE  /\ Folders[e].activities \in Nat
         /\ Folders[e].ok \in BOOLEAN
<1>1. Folders \in Seq(Folder)  BY ScriptsAssumption
<1>2. Folders[e] \in Folder  BY <1>1
<1> QED BY <1>2 DEF Folder

\* Opening and loading give a state.
LEMMA LoadFacts ==
  ASSUME Types
  PROVE  /\ NewState \in LuaState /\ NewState.state = "open" /\ NewState.current = "none"
         /\ NullState \in LuaState /\ NullState.state = "NULL" /\ NullState.current = "none"
         /\ LoadAllScripts => lua' \in LuaState /\ lua'.state = lua.state /\ lua'.current = lua.current
<1>1. Len(Folders) \in Nat  BY ScriptsAssumption
<1>2. NullState \in LuaState /\ NullState.state = "NULL" /\ NullState.current = "none"
  BY <1>1 DEF NullState, LuaState
<1>3. NewState \in LuaState /\ NewState.state = "open" /\ NewState.current = "none"
  BY <1>1 DEF NullState, NewState, LuaState
<1>4. ASSUME LoadAllScripts
      PROVE  lua' \in LuaState /\ lua'.state = lua.state /\ lua'.current = lua.current
  <2>1. disk \in 0..Len(Folders)  BY <1>1 DEF Types
  <2> QED BY <1>4, <2>1 DEF LoadAllScripts, Types, LuaState
<1> QED BY <1>2, <1>3, <1>4

\* A call may queue settings.
LEMMA InvokeFacts ==
  ASSUME Types, NEW f, InvokeScript(f)
  PROVE  behaviorQueue' \in Seq(Message)
<1>1. Msg("NEW_SETTING") \in Message /\ Msg("SET_OPTION") \in Message
  BY DEF Msg, Message, MessageType
<1>2. behaviorQueue \in Seq(Message)  BY DEF Types
<1>3. CASE UNCHANGED behaviorQueue  BY <1>2, <1>3
<1>4. CASE ScriptPublishes  BY <1>1, <1>2, <1>4 DEF ScriptPublishes
<1> QED BY <1>3, <1>4 DEF InvokeScript
-----------------------------------------------------------------------------
(* One lemma per thread *)

LEMMA LockStep == ASSUME Inv, process = "running", NEW t \in Thread, LockLua(t) PROVE Inv'
<1> USE DEF LockLua, Goto, environment, responder
<1>1. Types'  BY DEF Inv, Types
<1>2. Places' /\ MutexInv'
  BY DEF Inv, Places, MutexInv, Thread, Location
<1>3. CountInv' /\ AnnounceInv'
  BY DEF Inv, CountInv, AnnounceInv, Places, Thread, Location
<1> QED BY <1>1, <1>2, <1>3 DEF Inv

LEMMA MainStep == ASSUME Inv, process = "running", Main PROVE Inv'
<1> USE DEF Goto, environment, responder, scripts
<1>1. CASE OpenState
  <2>1. Types'  BY <1>1, LoadFacts DEF Inv, Types, OpenState
  <2>2. Places' /\ MutexInv'
    BY <1>1 DEF Inv, Places, MutexInv, Thread, Location, OpenState
  <2>3. CountInv' /\ AnnounceInv'
    BY <1>1, LoadFacts DEF Inv, CountInv, AnnounceInv, Places, Thread, Location, OpenState
  <2> QED BY <2>1, <2>2, <2>3 DEF Inv
<1>2. CASE StartScripts
  <2>1. Types'  BY <1>2, LoadFacts DEF Inv, Types, StartScripts
  <2>2. Places' /\ MutexInv'
    BY <1>2 DEF Inv, Places, MutexInv, Thread, Location, StartScripts
  <2>3. CountInv' /\ AnnounceInv'
    BY <1>2, LoadFacts DEF Inv, CountInv, AnnounceInv, Places, Thread, Location, StartScripts
  <2> QED BY <2>1, <2>2, <2>3 DEF Inv
<1>3. CASE RouteReload
  <2>1. Msg("RELOAD") \in Message  BY DEF Msg, Message, MessageType
  <2>2. Types'  BY <1>3, <2>1 DEF Inv, Types, RouteReload
  <2>3. Places' /\ MutexInv' /\ CountInv' /\ AnnounceInv'
    BY <1>3 DEF Inv, Places, MutexInv, CountInv, AnnounceInv, Thread, Location, RouteReload
  <2> QED BY <2>2, <2>3 DEF Inv
<1>4. CASE ClearFlag
  BY <1>4 DEF Inv, Types, Places, MutexInv, CountInv, AnnounceInv, Thread, Location, ClearFlag
<1> QED BY <1>1, <1>2, <1>3, <1>4 DEF Main

LEMMA UpdateStep == ASSUME Inv, process = "running", Update PROVE Inv'
<1> USE DEF Update, Goto, UnlockLua, environment, responder
<1>1. /\ lua' \in LuaState /\ lua'.state = lua.state /\ lua'.current = lua.current
      /\ behaviorQueue' \in Seq(Message)
  BY InvokeFacts DEF Inv, Types, InvokeScript
<1>2. Types'  BY <1>1 DEF Inv, Types
<1>3. Places' /\ MutexInv'  BY <1>1 DEF Inv, Places, MutexInv, Thread, Location
<1>4. CountInv' /\ AnnounceInv'
  BY <1>1 DEF Inv, CountInv, AnnounceInv, Places, Thread, Location
<1> QED BY <1>2, <1>3, <1>4 DEF Inv

\* All but TakeMessage use the Lua state, and leave it open or have failed to open it.
LEMMA MessagesStep == ASSUME Inv, process = "running", BehaviorMessageThread PROVE Inv'
<1> USE DEF Goto, UnlockLua, environment, responder
<1>1. CASE TakeMessage
  <2>1. Types'  BY <1>1 DEF Inv, Types, TakeMessage
  <2>2. Places' /\ MutexInv' /\ CountInv' /\ AnnounceInv'
    BY <1>1 DEF Inv, Places, MutexInv, CountInv, AnnounceInv, Thread, Location, TakeMessage
  <2> QED BY <2>1, <2>2 DEF Inv
<1>2. CASE Reopen
  <2>1. Types'  BY <1>2, LoadFacts DEF Inv, Types, Reopen, Process
  <2>2. Places' /\ MutexInv'
    BY <1>2 DEF Inv, Places, MutexInv, Thread, Location, Reopen, Process
  <2>3. CountInv' /\ AnnounceInv'
    BY <1>2, LoadFacts DEF Inv, CountInv, AnnounceInv, Places, Thread, Location, Reopen, Process
  <2> QED BY <2>1, <2>2, <2>3 DEF Inv
<1>3. CASE Reload
  <2>1. Types'  BY <1>3, LoadFacts DEF Inv, Types, Reload
  <2>2. Places' /\ MutexInv'
    BY <1>3 DEF Inv, Places, MutexInv, Thread, Location, Reload
  <2>3. CountInv' /\ AnnounceInv'
    BY <1>3, LoadFacts DEF Inv, CountInv, AnnounceInv, Places, Thread, Location, Reload
  <2> QED BY <2>1, <2>2, <2>3 DEF Inv
<1>4. CASE Activate
  <2>1. message.name \in Activities /\ message.name # "none"
    BY <1>4, ScriptsAssumption DEF Inv, Types, Activate, Process, Message, NoMsg, Msg
  <2>2. lua' \in LuaState /\ lua'.state = "open" /\ lua'.current \in {message.name, lua.current}
    BY <1>4, <2>1 DEF Inv, Types, Activate, LuaState
  <2>3. Types'
    BY <1>4, <2>1, <2>2 DEF Inv, Types, Activate, Activating, Process
  <2>4. Places' /\ MutexInv' /\ CountInv'
    BY <1>4 DEF Inv, Places, MutexInv, CountInv, Thread, Location, Activate, Process
  <2>5. AnnounceInv'
    <3>1. CASE lua' = [lua EXCEPT !.current = message.name] /\ Activating(message.name)
      <4>1. lua'.current = message.name  BY <3>1 DEF Inv, Types, LuaState
      <4> QED BY <3>1, <4>1 DEF Inv, AnnounceInv, Activating
    <3>2. CASE UNCHANGED <<lua, currentName, announced>>
      BY <3>2 DEF Inv, AnnounceInv
    <3> QED BY <1>4, <3>1, <3>2 DEF Activate
  <2> QED BY <2>3, <2>4, <2>5 DEF Inv
<1>5. CASE ActivateNothing
  <2>1. lua' \in LuaState /\ lua'.state = "open" /\ lua'.current = lua.current
    BY <1>5 DEF Inv, Types, ActivateNothing
  <2>2. Types'  BY <1>5, <2>1 DEF Inv, Types, ActivateNothing, Process
  <2>3. Places' /\ MutexInv'
    BY <1>5, <2>1 DEF Inv, Places, MutexInv, Thread, Location, ActivateNothing, Process
  <2>4. CountInv' /\ AnnounceInv'
    BY <1>5, <2>1 DEF Inv, CountInv, AnnounceInv, Places, Thread, Location, ActivateNothing, Process
  <2> QED BY <2>2, <2>3, <2>4 DEF Inv
<1>6. CASE CallHook
  <2>1. /\ lua' \in LuaState /\ lua'.state = lua.state /\ lua'.current = lua.current
        /\ behaviorQueue' \in Seq(Message)
    BY <1>6, InvokeFacts DEF Inv, Types, CallHook, InvokeScript
  <2>2. Types'  BY <1>6, <2>1 DEF Inv, Types, CallHook, Process
  <2>3. Places' /\ MutexInv'
    BY <1>6, <2>1 DEF Inv, Places, MutexInv, Thread, Location, CallHook, Process
  <2>4. CountInv' /\ AnnounceInv'
    BY <1>6, <2>1 DEF Inv, CountInv, AnnounceInv, Places, Thread, Location, CallHook, Process
  <2> QED BY <2>2, <2>3, <2>4 DEF Inv
<1>7. CASE IgnoreMessage
  <2>1. Types'  BY <1>7 DEF Inv, Types, IgnoreMessage, Process
  <2>2. Places' /\ MutexInv' /\ CountInv' /\ AnnounceInv'
    BY <1>7 DEF Inv, Places, MutexInv, CountInv, AnnounceInv, Thread, Location, IgnoreMessage, Process
  <2> QED BY <2>1, <2>2 DEF Inv
<1> QED BY <1>1, <1>2, <1>3, <1>4, <1>5, <1>6, <1>7 DEF BehaviorMessageThread

\* Each step adds to the count what it sends.
LEMMA ResponderStep == ASSUME Inv, process = "running", ResponderMessageThread PROVE Inv'
<1> USE DEF Goto, UnlockLua, environment, scripts, Options, Settings
<1>1. CASE TakeConfig
  <2>1. Types'  BY <1>1 DEF Inv, Types, TakeConfig
  <2>2. Places' /\ MutexInv' /\ CountInv' /\ AnnounceInv'
    BY <1>1 DEF Inv, Places, MutexInv, CountInv, AnnounceInv, Thread, Location, TakeConfig
  <2> QED BY <2>1, <2>2 DEF Inv
<1>2. CASE SendSettings
  <2>1. Types'  BY <1>2 DEF Inv, Types, SendSettings
  <2>2. Places' /\ MutexInv' /\ CountInv' /\ AnnounceInv'
    BY <1>2 DEF Inv, Places, MutexInv, CountInv, AnnounceInv, Thread, Location, SendSettings
  <2> QED BY <2>1, <2>2 DEF Inv
<1>3. CASE AvailableScripts
  <2>1. Listed \in Nat  BY FolderFacts DEF Inv, Types, LuaState, Listed
  <2>2. lua' \in LuaState /\ lua'.state = lua.state /\ lua'.current = lua.current
    BY <1>3 DEF Inv, Types, AvailableScripts
  <2>3. Types'  BY <1>3, <2>1, <2>2 DEF Inv, Types, AvailableScripts
  <2>4. Places' /\ MutexInv'
    BY <1>3, <2>2 DEF Inv, Places, MutexInv, Thread, Location, AvailableScripts
  <2>5. CountInv' /\ AnnounceInv'
    BY <1>3, <2>2 DEF Inv, CountInv, AnnounceInv, Places, Thread, Location, AvailableScripts
  <2> QED BY <2>3, <2>4, <2>5 DEF Inv
<1>4. CASE SendDone
  <2>1. configCount % 256 \in 0..255  BY DEF Inv, Types
  <2>2. Types'  BY <1>4, <2>1 DEF Inv, Types, SendDone
  <2>3. Places' /\ MutexInv' /\ CountInv' /\ AnnounceInv'
    BY <1>4 DEF Inv, Places, MutexInv, CountInv, AnnounceInv, Thread, Location, SendDone
  <2> QED BY <2>2, <2>3 DEF Inv
<1>5. CASE UseNullState
  <2>1. Types'  BY <1>5 DEF Inv, Types, UseNullState, responder
  <2>2. Places' /\ MutexInv' /\ CountInv' /\ AnnounceInv'
    BY <1>5 DEF Inv, Places, MutexInv, CountInv, AnnounceInv, UseNullState, responder
  <2> QED BY <2>1, <2>2 DEF Inv
<1>6. CASE AnswerPing
  <2>1. Types'  BY <1>6 DEF Inv, Types, AnswerPing
  <2>2. Places' /\ MutexInv' /\ CountInv' /\ AnnounceInv'
    BY <1>6 DEF Inv, Places, MutexInv, CountInv, AnnounceInv, AnswerPing
  <2> QED BY <2>1, <2>2 DEF Inv
<1> QED BY <1>1, <1>2, <1>3, <1>4, <1>5, <1>6 DEF ResponderMessageThread, ReportConfig

\* The mutex leaves one way to use the state twice at a time.
LEMMA OneInside ==
  ASSUME Places, MutexInv, NEW t \in Inside, NEW u \in Inside, t # u
  PROVE  {t, u} = {"main", "responder"} /\ at["main"] = "loading"
  BY DEF Places, MutexInv, Inside, Thread

LEMMA OutsideStep ==
  ASSUME Inv, process = "running",
         \/ \E m \in Message : BehaviorProcessMessage(m)
         \/ AskConfig \/ EditScripts \/ SIGHUPhandler \/ Race
  PROVE  Inv'
<1> USE DEF environment, scripts, responder
<1>1. CASE \E m \in Message : BehaviorProcessMessage(m)
  <2>1. Types'  BY <1>1 DEF Inv, Types, BehaviorProcessMessage
  <2>2. Places' /\ MutexInv' /\ CountInv' /\ AnnounceInv'
    BY <1>1 DEF Inv, Places, MutexInv, CountInv, AnnounceInv, BehaviorProcessMessage
  <2> QED BY <2>1, <2>2 DEF Inv
<1>2. CASE AskConfig \/ EditScripts \/ SIGHUPhandler
  <2>1. Types'
    <3>1. CASE AskConfig  BY <3>1 DEF Inv, Types, AskConfig
    <3>2. CASE EditScripts
      <4>1. disk' \in 1..Len(Folders)  BY <3>2, ScriptsAssumption DEF Inv, Types, EditScripts
      <4> QED BY <3>2, <4>1 DEF Inv, Types, EditScripts
    <3>3. CASE SIGHUPhandler  BY <3>3 DEF Inv, Types, SIGHUPhandler
    <3> QED BY <1>2, <3>1, <3>2, <3>3
  <2>2. Places' /\ MutexInv' /\ CountInv' /\ AnnounceInv'
    BY <1>2 DEF Inv, Places, MutexInv, CountInv, AnnounceInv, AskConfig, EditScripts, SIGHUPhandler
  <2> QED BY <2>1, <2>2 DEF Inv
<1>3. CASE Race
  <2>1. at["main"] = "loading"  BY <1>3, OneInside DEF Inv, Race
  <2> QED BY <1>3, <2>1 DEF Inv, Types, Places, MutexInv, CountInv, AnnounceInv, Race
<1> QED BY <1>1, <1>2, <1>3
-----------------------------------------------------------------------------
(* The theorems *)

\* The invariant of the model, from which the others follow.
THEOREM Invariance == Spec => []Inv
<1>1. Init => Inv
  <2> SUFFICES ASSUME Init PROVE Inv  OBVIOUS
  <2>1. Len(Folders) \in Nat \ {0}  BY ScriptsAssumption
  <2>2. NullState \in LuaState /\ NullState.state = "NULL" /\ NullState.current = "none"
    BY ScriptsAssumption DEF NullState, LuaState
  <2>3. Types
    <3>1. disk \in 1..Len(Folders) /\ lua \in LuaState  BY <2>1, <2>2 DEF Init
    <3>2. lastDone \in [value : 0..255, received : Nat] /\ 0 \in Nat  BY DEF Init
    <3>3. behaviorQueue \in Seq(Message)  BY DEF Init
    <3> QED BY <3>1, <3>2, <3>3 DEF Init, Types
  <2>4. Places /\ MutexInv /\ CountInv /\ AnnounceInv
    BY <2>2 DEF Init, Places, MutexInv, CountInv, AnnounceInv, Thread, Location
  <2> QED BY <2>3, <2>4 DEF Inv
<1>2. Inv /\ [Next]_vars => Inv'
  <2> SUFFICES ASSUME Inv, [Next]_vars PROVE Inv'  OBVIOUS
  <2>1. CASE Next
    BY <2>1, LockStep, MainStep, UpdateStep, MessagesStep, ResponderStep, OutsideStep DEF Next, Running
  <2>2. CASE UNCHANGED vars
    BY <2>2 DEF Inv, Types, Places, MutexInv, CountInv, AnnounceInv, vars, environment, scripts,
                responder
  <2> QED BY <2>1, <2>2
<1> QED BY <1>1, <1>2, PTL DEF Spec

\* Every variable keeps its type, for any scripts: the bounds of the counters included.
THEOREM Typing == Spec => []TypeOK
<1>1. Inv => TypeOK
  BY DEF Inv, Types, Places, MutexInv, TypeOK, Thread, LuaState
<1> QED BY <1>1, Invariance, PTL

\* The Lua state is used by one thread at a time once the scripts have started, and the
\* process crashes only for lack of a state.
THEOREM LuaIsUsedSafely == Spec => []LuaUsedSafely
<1>1. Inv => LuaUsedSafely
  BY OneInside DEF Inv, MutexInv, LuaUsedSafely
<1> QED BY <1>1, Invariance, PTL

\* CONFIG_DONE counts what was sent, for any scripts listed and any number of requests.
THEOREM ConfigDoneCountsSent == Spec => []ConfigDoneCounts
<1>1. Inv => ConfigDoneCounts
  BY DEF Inv, CountInv, ConfigDoneCounts
<1> QED BY <1>1, Invariance, PTL

\* The app knows the activity that runs, whatever is activated, reloaded or fails.
THEOREM ActivityIsAnnounced == Spec => []ActivityAnnounced
<1>1. Inv => ActivityAnnounced
  BY DEF Inv, AnnounceInv, ActivityAnnounced
<1> QED BY <1>1, Invariance, PTL
=============================================================================
