---------------------------- MODULE BehaviorTree ----------------------------
(***************************************************************************)
(* The behavior trees that Lua scripts are built from (src/lua/            *)
(* behaviortree).  The host updates a tree by calling its run; the tree    *)
(* runs its root node, a branch runs its children one by one, and a task   *)
(* reports success, fail or running to the node that controls it, which    *)
(* reports further up, or goes on to its next child, inside the call of    *)
(* the task that reported.                                                 *)
(*                                                                         *)
(* One action is one call of a method: `call` is the call to be made next, *)
(* and `stack` holds what the callers still have to do when it returns;    *)
(* most of them have nothing left, since they end with a call.  start and  *)
(* finish of the library's own nodes call nothing back: they are part of   *)
(* the calls that make them.                                               *)
(***************************************************************************)
EXTENDS Integers, Sequences, FiniteSetsExt

CONSTANTS Nodes,
          class,        \* "tree", "task", a kind of branch or a kind of decorator
          kids,         \* nodes of a branch; node of a decorator; tree of a tree
          Roots,        \* the trees one of which the host runs
          Globals,      \* roots whose tasks call the global success(), fail(), running()
          MaxStarts,    \* bound: starts without a finish that are counted
          Nil

Branches == {"Sequence", "Priority", "Random"}
Decorators == {"Invert", "AlwaysFail", "AlwaysSucceed"}
Reports == {"success", "fail", "running"}

Of(classes) == {n \in Nodes : class[n] \in classes}
Tasks == Of({"task"})
Kid(n) == kids[n][1]
Kids(n) == {kids[n][k] : k \in 1..Len(kids[n])}

ASSUME TreesAssumption ==
  /\ class \in [Nodes -> {"tree", "task"} \cup Branches \cup Decorators]
  /\ kids \in [Nodes -> Seq(Nodes)]
  /\ \A n \in Of({"tree"} \cup Decorators) : Len(kids[n]) = 1
  /\ \A t \in Tasks : kids[t] = <<>>
  /\ Roots \subseteq Of({"tree"}) /\ Globals \subseteq Roots
  /\ Nil \notin Nodes

\* The tree that the host runs is in no other.
ASSUME RootsAssumption == \A n \in Nodes : Kids(n) \cap Roots = {}

\* No node is below itself, though it may be below several others.
Height[n \in Nodes] == IF kids[n] = <<>> THEN 0 ELSE 1 + Max({Height[m] : m \in Kids(n)})

ASSUME HeightAssumption ==
  \A n \in Nodes : Height[n] \in Nat /\ \A m \in Kids(n) : Height[m] < Height[n]

\* At least one start too many is counted.
ASSUME StartsAssumption == MaxStarts \in Nat /\ MaxStarts > 1

VARIABLES root,         \* the tree the host runs
          call, stack,
          started,      \* of trees
          actualTask, nodeRunning, node,    \* of branches
          control,      \* the node that a node reports to
          globals,      \* the node that success(), fail() and running() belong to
          active,       \* history: starts of a task less its finishes
          outcome,      \* history: the last report of a task
          ran,          \* history: the child a branch ran last
          report,       \* history: what the root has reported in this update
          reports,      \* history: how many times
          stalled       \* history: a task has failed with an error, or said nothing

vars == <<root, call, stack, started, actualTask, nodeRunning, node, control, globals,
          active, outcome, ran, report, reports, stalled>>

NoCall == [method |-> "none", n |-> Nil]
Call(method, n) == [method |-> method, n |-> n]

Init ==
  /\ root \in Roots
  /\ call = NoCall /\ stack = <<>>
  /\ started = [n \in Of({"tree"}) |-> FALSE]
  /\ actualTask = [n \in Of(Branches) |-> 0]
  /\ nodeRunning = [n \in Of(Branches) |-> FALSE]
  /\ node = [n \in Of(Branches) |-> Nil]
  /\ control = [n \in Nodes |-> Nil]
  /\ globals = Nil
  /\ active = [t \in Tasks |-> 0]
  /\ outcome = [t \in Tasks |-> "none"]
  /\ ran = [n \in Of(Branches) |-> Nil]
  /\ report = "none" /\ reports = 0
  /\ stalled = FALSE

-----------------------------------------------------------------------------
(* start and finish                                                        *)

\* Decorators pass start and finish on to their node.
Inner[n \in Nodes] == IF class[n] \in Decorators THEN Inner[Kid(n)] ELSE n

\* Starting a task runs its start hook; a branch goes back to its first child,
\* or, a Random one, to any.  begun and actual are active and actualTask as they
\* are by then.
Start(n, begun, actual) ==
  LET i == Inner[n]
  IN /\ active' = IF class[i] = "task"
                  THEN [begun EXCEPT ![i] = IF @ < MaxStarts THEN @ + 1 ELSE @] ELSE begun
     /\ \/ /\ class[i] \in {"Sequence", "Priority"}
           /\ actualTask' = [actual EXCEPT ![i] = 1]
        \/ /\ class[i] = "Random"
           /\ \E k \in {1} \cup 1..Len(kids[i]) : actualTask' = [actual EXCEPT ![i] = k]
        \/ /\ class[i] \in {"task", "tree"}
           /\ actualTask' = actual

\* What active becomes when n is finished.
Finish(n) ==
  LET i == Inner[n]
  IN IF class[i] = "task" THEN [active EXCEPT ![i] = @ - 1] ELSE active

-----------------------------------------------------------------------------
(* Calls                                                                   *)

\* A Lua error unwinds every caller up to the host's pcall: what they still had
\* to do is not done, and a tree that was started stays so.
LuaError ==
  /\ call' = NoCall /\ stack' = <<>>
  /\ stalled' = TRUE

\* The host's hook runs the tree.
Update ==
  /\ call = NoCall /\ stack = <<>>
  /\ call' = Call("run", root)
  /\ report' = "none" /\ reports' = 0
  /\ UNCHANGED <<root, stack, started, actualTask, nodeRunning, node, control, globals,
                 active, outcome, ran, stalled>>

\* Node.success and its like: tell the control, if there is one.  A tree without
\* one is the host's: its report ends here.
Tell(n, what) ==
  IF control[n] # Nil
  THEN /\ call' = Call(what, control[n])
       /\ UNCHANGED <<report, reports>>
  ELSE /\ call' = NoCall
       /\ report' = what /\ reports' = reports + 1

\* BehaviourTree:run: a tree that is still started only reports running.
RunStartedTree ==
  LET n == call.n
  IN /\ call.method = "run" /\ class[n] = "tree" /\ started[n]
     /\ Tell(n, "running")
     /\ UNCHANGED <<root, stack, started, actualTask, nodeRunning, node, control, globals,
                    active, outcome, ran, stalled>>

\* Mutant of RunTree: the root node is not told to whom it reports.
RunTreeUncontrolled ==
  LET n == call.n
  IN /\ call.method = "run" /\ class[n] = "tree" /\ ~started[n]
     /\ started' = [started EXCEPT ![n] = TRUE]
     /\ Start(Kid(n), active, actualTask)
     /\ call' = Call("call_run", Kid(n))
     /\ UNCHANGED <<root, stack, nodeRunning, node, control, globals, outcome, ran, report,
                    reports, stalled>>

RunTree ==
  LET n == call.n
  IN /\ call.method = "run" /\ class[n] = "tree" /\ ~started[n]
     /\ started' = [started EXCEPT ![n] = TRUE]
     /\ control' = [control EXCEPT ![Kid(n)] = n]
     /\ Start(Kid(n), active, actualTask)
     /\ call' = Call("call_run", Kid(n))
     /\ UNCHANGED <<root, stack, nodeRunning, node, globals, outcome, ran, report, reports,
                    stalled>>

\* Mutant of CallRun: the functions are taken back before the node has run.
CallRunClearing ==
  /\ call.method = "call_run"
  /\ globals' = Nil
  /\ call' = Call("run", call.n)
  /\ UNCHANGED <<root, stack, started, actualTask, nodeRunning, node, control, active, outcome,
                 ran, report, reports, stalled>>

\* The global functions are the node's while it runs, and then nobody's.
CallRun ==
  /\ call.method = "call_run"
  /\ globals' = call.n
  /\ stack' = <<Call("clear", Nil)>> \o stack
  /\ call' = Call("run", call.n)
  /\ UNCHANGED <<root, started, actualTask, nodeRunning, node, control, active, outcome, ran,
                 report, reports, stalled>>

RunDecorator ==
  LET n == call.n
  IN /\ call.method = "run" /\ class[n] \in Decorators
     /\ control' = [control EXCEPT ![Kid(n)] = n]
     /\ call' = Call("call_run", Kid(n))
     /\ UNCHANGED <<root, stack, started, actualTask, nodeRunning, node, globals, active,
                    outcome, ran, report, reports, stalled>>

\* BranchNode:_run when no child is running: the one whose turn it is.
RunChild(n, begun, actual) ==
  LET child == kids[n][actual[n]]
  IN /\ node' = [node EXCEPT ![n] = child]
     /\ ran' = [ran EXCEPT ![n] = child]
     /\ Start(child, begun, actual)
     /\ control' = [control EXCEPT ![child] = n]
     /\ call' = Call("run", child)

\* A branch without children, or past its last one, does nothing.
RunNoChild ==
  LET n == call.n
  IN /\ call.method = "run" /\ class[n] \in Branches
     /\ actualTask[n] > Len(kids[n])
     /\ call' = NoCall
     /\ stalled' = TRUE
     /\ UNCHANGED <<root, stack, started, actualTask, nodeRunning, node, control, globals,
                    active, outcome, ran, report, reports>>

\* Mutant of RunBranch: a child that is running is started like any other.
RunBranchAnew ==
  LET n == call.n
  IN /\ call.method = "run" /\ class[n] \in Branches
     /\ actualTask[n] <= Len(kids[n])
     /\ RunChild(n, active, actualTask)
     /\ UNCHANGED <<root, stack, started, nodeRunning, globals, outcome, report, reports,
                    stalled>>

RunBranch ==
  LET n == call.n
  IN /\ call.method = "run" /\ class[n] \in Branches
     /\ actualTask[n] <= Len(kids[n])
     /\ ~nodeRunning[n]
     /\ RunChild(n, active, actualTask)
     /\ UNCHANGED <<root, stack, started, nodeRunning, globals, outcome, report, reports,
                    stalled>>

\* The child that was running is run again without a start.
ResumeBranch ==
  LET n == call.n
  IN /\ call.method = "run" /\ class[n] \in Branches
     /\ actualTask[n] <= Len(kids[n])
     /\ nodeRunning[n] /\ node[n] # Nil
     /\ call' = Call("run", node[n])
     /\ UNCHANGED <<root, stack, started, actualTask, nodeRunning, node, control, globals,
                    active, outcome, ran, report, reports, stalled>>

\* There is none: a report of running went to this branch by mistake.
ResumeNothing ==
  LET n == call.n
  IN /\ call.method = "run" /\ class[n] \in Branches
     /\ actualTask[n] <= Len(kids[n])
     /\ nodeRunning[n] /\ node[n] = Nil
     /\ LuaError
     /\ UNCHANGED <<root, started, actualTask, nodeRunning, node, control, globals, active,
                    outcome, ran, report, reports>>

\* The code of a task calls one of success, fail and running: its own methods,
\* or the global functions, which are the methods of the node that set them.
RunTask ==
  LET n == call.n
  IN /\ call.method = "run" /\ class[n] = "task"
     /\ \E what \in Reports :
          /\ outcome' = [outcome EXCEPT ![n] = what]
          /\ call' = Call(what, IF root \in Globals THEN globals ELSE n)
     /\ UNCHANGED <<root, stack, started, actualTask, nodeRunning, node, control, globals,
                    active, ran, report, reports, stalled>>

\* A task that reports nothing.
RunSilentTask ==
  /\ call.method = "run" /\ class[call.n] = "task"
  /\ call' = NoCall
  /\ stalled' = TRUE
  /\ UNCHANGED <<root, stack, started, actualTask, nodeRunning, node, control, globals,
                 active, outcome, ran, report, reports>>

RunFaultyTask ==
  /\ call.method = "run" /\ class[call.n] = "task"
  /\ LuaError
  /\ UNCHANGED <<root, started, actualTask, nodeRunning, node, control, globals, active,
                 outcome, ran, report, reports>>

-----------------------------------------------------------------------------
(* Reports                                                                 *)

TaskReports ==
  /\ call.method \in Reports /\ class[call.n] = "task"
  /\ Tell(call.n, call.method)
  /\ UNCHANGED <<root, stack, started, actualTask, nodeRunning, node, control, globals,
                 active, outcome, ran, stalled>>

\* What a decorator makes of its node's report.
Decorated(kind, what) ==
  IF what = "running" THEN what
  ELSE CASE kind = "Invert" -> IF what = "success" THEN "fail" ELSE "success"
         [] kind = "AlwaysFail" -> "fail"
         [] kind = "AlwaysSucceed" -> "success"

\* Its running is that of every node; success and fail call the control without
\* looking whether there is one, as those of a branch do.
DecoratorReports ==
  LET n == call.n
  IN /\ call.method \in Reports /\ class[n] \in Decorators
     /\ \/ call.method = "running" /\ Tell(n, "running")
        \/ /\ call.method # "running"
           /\ call' = Call(Decorated(class[n], call.method), control[n])
           /\ UNCHANGED <<report, reports>>
     /\ UNCHANGED <<root, stack, started, actualTask, nodeRunning, node, control, globals,
                    active, outcome, ran, stalled>>

BranchRunning ==
  LET n == call.n
  IN /\ call.method = "running" /\ class[n] \in Branches
     /\ nodeRunning' = [nodeRunning EXCEPT ![n] = TRUE]
     /\ call' = Call("running", control[n])
     /\ UNCHANGED <<root, stack, started, actualTask, node, control, globals, active, outcome,
                    ran, report, reports, stalled>>

\* The report after which a branch goes on to its next child.
GoesOn(n, what) ==
  \/ class[n] = "Sequence" /\ what = "success"
  \/ class[n] = "Priority" /\ what = "fail"

\* Mutant of BranchGoesOn: the same child once more.
BranchRepeats ==
  LET n == call.n
  IN /\ call.method \in {"success", "fail"} /\ class[n] \in Branches
     /\ GoesOn(n, call.method) /\ actualTask[n] < Len(kids[n])
     /\ node[n] # Nil
     /\ nodeRunning' = [nodeRunning EXCEPT ![n] = FALSE]
     /\ RunChild(n, Finish(node[n]), actualTask)
     /\ UNCHANGED <<root, stack, started, globals, outcome, report, reports, stalled>>

\* A child has ended.  The branch goes on with the next one ...
BranchGoesOn ==
  LET n == call.n
      moved == [actualTask EXCEPT ![n] = @ + 1]
  IN /\ call.method \in {"success", "fail"} /\ class[n] \in Branches
     /\ GoesOn(n, call.method) /\ moved[n] <= Len(kids[n])
     /\ node[n] # Nil
     /\ nodeRunning' = [nodeRunning EXCEPT ![n] = FALSE]
     /\ RunChild(n, Finish(node[n]), moved)
     /\ UNCHANGED <<root, stack, started, globals, outcome, report, reports, stalled>>

\* Mutant of BranchEnds: to have run all children is to succeed.
BranchEndsWell ==
  LET n == call.n
      moved == IF GoesOn(n, call.method) THEN [actualTask EXCEPT ![n] = @ + 1] ELSE actualTask
  IN /\ call.method \in {"success", "fail"} /\ class[n] \in Branches
     /\ ~(GoesOn(n, call.method) /\ moved[n] <= Len(kids[n]))
     /\ node[n] # Nil
     /\ nodeRunning' = [nodeRunning EXCEPT ![n] = FALSE]
     /\ active' = Finish(node[n])
     /\ node' = [node EXCEPT ![n] = Nil]
     /\ actualTask' = moved
     /\ call' = Call("success", control[n])
     /\ UNCHANGED <<root, stack, started, control, globals, outcome, ran, report, reports,
                    stalled>>

\* ... or it has none left or needs none, and tells its control.
BranchEnds ==
  LET n == call.n
      moved == IF GoesOn(n, call.method) THEN [actualTask EXCEPT ![n] = @ + 1] ELSE actualTask
  IN /\ call.method \in {"success", "fail"} /\ class[n] \in Branches
     /\ ~(GoesOn(n, call.method) /\ moved[n] <= Len(kids[n]))
     /\ node[n] # Nil
     /\ nodeRunning' = [nodeRunning EXCEPT ![n] = FALSE]
     /\ active' = Finish(node[n])
     /\ node' = [node EXCEPT ![n] = Nil]
     /\ actualTask' = moved
     /\ call' = Call(call.method, control[n])
     /\ UNCHANGED <<root, stack, started, control, globals, outcome, ran, report, reports,
                    stalled>>

\* No child of the branch is under way: the report went to it by mistake.
BranchHasNoNode ==
  LET n == call.n
  IN /\ call.method \in {"success", "fail"} /\ class[n] \in Branches
     /\ node[n] = Nil
     /\ nodeRunning' = [nodeRunning EXCEPT ![n] = FALSE]
     /\ LuaError
     /\ UNCHANGED <<root, started, actualTask, node, control, globals, active, outcome, ran,
                    report, reports>>

\* Mutant of TreeRunning: what Node has for every node.
TreeOnlyReports ==
  /\ call.method = "running" /\ class[call.n] = "tree"
  /\ Tell(call.n, "running")
  /\ UNCHANGED <<root, stack, started, actualTask, nodeRunning, node, control, globals, active,
                 outcome, ran, stalled>>

\* A tree is started anew in the next update, but only when its control is done.
TreeRunning ==
  LET n == call.n
  IN /\ call.method = "running" /\ class[n] = "tree"
     /\ Tell(n, "running")
     /\ stack' = <<Call("unstart", n)>> \o stack
     /\ UNCHANGED <<root, started, actualTask, nodeRunning, node, control, globals, active,
                    outcome, ran, stalled>>

TreeEnds ==
  LET n == call.n
  IN /\ call.method \in {"success", "fail"} /\ class[n] = "tree"
     /\ active' = Finish(Kid(n))
     /\ started' = [started EXCEPT ![n] = FALSE]
     /\ Tell(n, call.method)
     /\ UNCHANGED <<root, stack, actualTask, nodeRunning, node, control, globals, outcome, ran,
                    stalled>>

-----------------------------------------------------------------------------
(* Returns                                                                 *)

\* What call_run and BehaviourTree:running still do after the call they made.
Return ==
  /\ call = NoCall /\ stack # <<>>
  /\ stack' = Tail(stack)
  /\ \/ /\ Head(stack).method = "clear"
        /\ globals' = Nil
        /\ UNCHANGED started
     \/ /\ Head(stack).method = "unstart"
        /\ started' = [started EXCEPT ![Head(stack).n] = FALSE]
        /\ UNCHANGED globals
  /\ UNCHANGED <<root, call, actualTask, nodeRunning, node, control, active, outcome, ran,
                 report, reports, stalled>>

Step ==
  \/ RunStartedTree \/ RunTree \/ CallRun \/ RunDecorator
  \/ RunNoChild \/ RunBranch \/ ResumeBranch \/ ResumeNothing
  \/ RunTask \/ RunSilentTask \/ RunFaultyTask
  \/ TaskReports \/ DecoratorReports
  \/ BranchRunning \/ BranchGoesOn \/ BranchEnds \/ BranchHasNoNode
  \/ TreeRunning \/ TreeEnds
  \/ Return

Next == Update \/ Step

Spec == Init /\ [][Next]_vars

\* A call in progress goes on: Lua runs it to its end in the thread of the host.
FairSpec == Spec /\ WF_vars(Step)

-----------------------------------------------------------------------------
(* Properties                                                              *)

Idle == call = NoCall /\ stack = <<>>

\* The first node below n, or n itself, that is neither a tree nor a decorator.
Under[n \in Nodes] == IF class[n] \in Decorators \cup {"tree"} THEN Under[Kid(n)] ELSE n

\* A global function reports for the node whose call_run set it last.  In a tree
\* with no branch, or one that has tasks only, that is the task or its branch; in
\* any other the report may go astray.
OwnReports == root \in Globals => Kids(Under[root]) \subseteq Tasks

\* Values of the variables.
TypeOK ==
  /\ root \in Roots
  /\ call \in [method : {"run", "call_run"} \cup Reports, n : Nodes] \cup {NoCall}
  /\ stack \in Seq([method : {"clear", "unstart"}, n : Nodes \cup {Nil}])
  /\ started \in [Of({"tree"}) -> BOOLEAN]
  /\ actualTask \in [Of(Branches) -> Nat]
  /\ nodeRunning \in [Of(Branches) -> BOOLEAN]
  /\ node \in [Of(Branches) -> Nodes \cup {Nil}]
  /\ control \in [Nodes -> Nodes \cup {Nil}]
  /\ globals \in Nodes \cup {Nil}
  /\ active \in [Tasks -> Int]
  /\ outcome \in [Tasks -> Reports \cup {"none"}]
  /\ ran \in [Of(Branches) -> Nodes \cup {Nil}]
  /\ report \in Reports \cup {"none"} /\ reports \in Nat
  /\ stalled \in BOOLEAN

\* The start and finish hooks of a task alternate, whatever its branches and
\* decorators do, and over every number of updates.  Not so a task that a tree
\* has as its root, or in a decorator there: each resumption starts it again.
ChildrenAlternate ==
  OwnReports => \A t \in Tasks \ {Inner[Kid(n)] : n \in Of({"tree"})} : active[t] \in {0, 1}

\* No report reaches a branch that has no child to finish, and none is resumed
\* without one.
NoNilNode ==
  OwnReports /\ call.n \in Of(Branches) =>
    /\ call.method \in {"success", "fail"} => node[call.n] # Nil
    /\ call.method = "run" /\ nodeRunning[call.n] => node[call.n] # Nil

\* No global function is nil when a task calls it.
NoNilFunction ==
  call.method = "run" /\ class[call.n] = "task" /\ root \in Globals => globals # Nil

\* Nothing reports to a branch or a decorator that has nobody to report to in turn.
NoNilControl ==
  call.method \in Reports /\ class[call.n] \in Branches \cup Decorators
    => control[call.n] # Nil

\* No update ends with a Lua error of the library's own: of the calls it makes
\* without a test, none is of a node or a function that is nil.
NoNilCall == NoNilNode /\ NoNilFunction /\ NoNilControl

\* What a branch with the children s makes of their verdicts, when it goes on as
\* long as these are `going`.
Decided(verdict, s, going) ==
  IF \A k \in 1..Len(s) : verdict[s[k]] = going THEN going
  ELSE verdict[s[CHOOSE k \in 1..Len(s) : /\ verdict[s[k]] # going
                                          /\ \A j \in 1..k - 1 : verdict[s[j]] = going]]

\* What a node ought to make of the verdicts of its children, where tasks have told
\* an outcome and Random branches have chosen a child.
Judged(told, chosen, verdict, n) ==
  CASE class[n] = "task" -> told[n]
    [] class[n] = "tree" -> verdict[Kid(n)]
    [] class[n] = "Sequence" -> Decided(verdict, kids[n], "success")
    [] class[n] = "Priority" -> Decided(verdict, kids[n], "fail")
    [] class[n] = "Random" -> IF chosen[n] \in Kids(n) THEN verdict[chosen[n]] ELSE "none"
    [] class[n] \in Decorators -> Decorated(class[n], verdict[Kid(n)])

\* What the nodes ought to make of the last outcomes of their tasks.
Eval[n \in Nodes] == Judged(outcome, ran, Eval, n)

\* A node and all those below it.
Below[n \in Nodes] == {n} \cup UNION {Below[m] : m \in Kids(n)}

\* Different children of a branch in the host's tree have no node in common.  (Of a
\* task below two of them the last outcome may be another than the first has told.)
Apart ==
  \A b \in Of(Branches) \cap Below[root] :
    \A x, y \in Kids(b) : x = y \/ Below[x] \cap Below[y] = {}

\* A tree reports what its nodes make of their tasks' last outcomes, also when
\* the last of them has been resumed, and its siblings are older.
ReportMatches ==
  report # "none" /\ ~stalled /\ OwnReports /\ Apart
    => report = Eval[root]

\* An update has reported once or not at all.
ReportsOnce == Idle => reports = IF report = "none" THEN 0 ELSE 1

\* No function is left over in the globals.
FunctionsTakenBack == Idle /\ ~stalled => globals = Nil

\* Where a task has failed with an error or said nothing, the tree that the host
\* runs stays started for ever.
StaysStarted == Idle /\ stalled => started[root]

\* No tree, nor one within it, is left started.  (A report that goes astray may
\* pass an inner tree by.)
TreesReady == Idle /\ ~stalled /\ OwnReports => \A n \in Of({"tree"}) : ~started[n]

\* Between updates a tree is ready to be run again, unless a task has failed in
\* it or said nothing.
ReadyAgain == ReportsOnce /\ FunctionsTakenBack /\ StaysStarted /\ TreesReady

\* An update ends, however often nodes go on inside the calls of others.
UpdateEnds == (call # NoCall) ~> Idle
=============================================================================
