------------------------- MODULE BehaviorTreeProofs -------------------------
(***************************************************************************)
(* Proofs about BehaviorTree, for every forest in which no node is below   *)
(* itself: branches may share their children, and trees may be nested in   *)
(* each other in any way.                                                  *)
(*                                                                         *)
(* A first inductive invariant, IInv, says that whatever is called or will *)
(* be resumed has somebody to report to and has been started (Targets),    *)
(* that the tree of the host reports to nobody else and remains started as *)
(* long as anything runs in it (Rooted), and what the stack still holds    *)
(* for it (Settled).                                                       *)
(*                                                                         *)
(* A second one, PInv, which needs the first, is about the way that a      *)
(* report takes.  What a node is told to report to changes with each run   *)
(* of a node that is shared, so the ways of all nodes are a graph that     *)
(* keeps changing; but nothing changes above the node that is called, and  *)
(* the branches that are at a child lie all on one way in it (Path).  From *)
(* where the next call lies on that way (Phase) it follows which trees are *)
(* started (Started) and how often which task (Counted).                   *)
(*                                                                         *)
(* A third, EInv, is about what reports say: the children that a branch on *)
(* that way has left have had the verdict that makes it go on (Left), and  *)
(* what a node is told is the verdict of the node below it (Told).         *)
(***************************************************************************)
EXTENDS BehaviorTree, SequenceTheorems, WellFoundedInduction, TLAPS

\* A report of n arrives somewhere: at the control of n, or at the host.
Reporting(n) == class[n] = "tree" \/ control[n] # Nil

\* The branch that n is, or decorates, stands at one of its children or past the
\* last of them.
Begun(n) == Inner[n] \in Of(Branches) => actualTask[Inner[n]] >= 1

Targets ==
  /\ \A n \in Nodes : control[n] # Nil => Reporting(control[n])
  /\ call # NoCall => Reporting(call.n)
  /\ call.method \in {"run", "call_run"} /\ class[call.n] # "tree" => Begun(call.n)
  /\ \A n \in Of(Branches) : node[n] # Nil => Reporting(node[n]) /\ Begun(node[n])
  /\ globals # Nil => Reporting(globals)
  /\ \/ call.method \in {"success", "fail"}
     \/ call.method = "run" /\ class[call.n] # "tree"
     => globals # Nil

OnStack(method) == \E k \in 1..Len(stack) : stack[k].method = method
RootUnstarts == \E k \in 1..Len(stack) : stack[k] = Call("unstart", root)

Rooted ==
  /\ control[root] = Nil
  /\ call # NoCall => ~RootUnstarts
  /\ call # NoCall /\ call # Call("run", root) => started[root]
  /\ stalled => /\ started[root] /\ ~RootUnstarts
                /\ call = NoCall \/ call = Call("run", root)

Settled ==
  /\ ~stalled /\ globals # Nil => OnStack("clear")
  /\ reports = IF report = "none" THEN 0 ELSE 1
  /\ call # NoCall => report = "none"

IInv == TypeOK /\ Targets /\ Rooted /\ Settled

-----------------------------------------------------------------------------
(* Recursion down a forest                                                 *)

Less == {p \in Nat \X Nat : p[1] < p[2]}

LEMMA LeastOf ==
  ASSUME NEW T \in SUBSET Nat, T # {}
  PROVE  \E x \in T : \A y \in T : x <= y
<1>1. IsWellFoundedOn(Less, Nat)
  BY NatLessThanWellFounded DEF OpToRel, Less
<1>2. PICK x \in T : \A y \in T : ~ (<<y, x>> \in Less)
  BY <1>1, WFMin
<1>3. \A y \in T : <<y, x>> \in Nat \X Nat /\ (y < x => <<y, x>> \in Less)
  BY DEF Less
<1>4. \A y \in T : y \in Nat /\ ~(y < x)
  BY <1>2, <1>3
<1> QED
  BY <1>4

\* Kids are nodes lower down.
LEMMA KidsLower ==
  ASSUME NEW n \in Nodes, NEW m \in Kids(n)
  PROVE  m \in Nodes /\ Height[m] \in Nat /\ Height[n] \in Nat /\ Height[m] < Height[n]
<1>1. m \in Nodes
  BY TreesAssumption DEF Kids
<1> QED
  BY <1>1, HeightAssumption

\* What holds for a node when it holds for its kids holds for all nodes.
LEMMA NodeInduction ==
  ASSUME NEW S \in SUBSET Nodes, \A n \in Nodes : Kids(n) \subseteq S => n \in S
  PROVE  S = Nodes
<1> SUFFICES ASSUME Nodes \ S # {}
             PROVE  FALSE
  OBVIOUS
<1> DEFINE T == {Height[n] : n \in Nodes \ S}
<1>1. T \in SUBSET Nat /\ T # {}
  BY HeightAssumption
<1>2. PICK h \in T : \A y \in T : h <= y
  <2> HIDE DEF T
  <2> QED
    BY <1>1, LeastOf
<1>3. PICK n \in Nodes \ S : h = Height[n]
  OBVIOUS
<1>4. ASSUME NEW m \in Kids(n)
      PROVE  m \in S
  <2>1. m \in Nodes /\ Height[m] < Height[n] /\ Height[m] \in Nat /\ Height[n] \in Nat
    BY KidsLower
  <2>2. Height[m] \notin T
    BY <1>2, <1>3, <2>1
  <2> QED
    BY <2>1, <2>2
<1> QED
  BY <1>3, <1>4

\* F makes the value of a node from those of its kids.
Local(V, F) ==
  /\ F \in [[Nodes -> V] \X Nodes -> V]
  /\ \A e, g \in [Nodes -> V], n \in Nodes :
       (\A m \in Kids(n) : e[m] = g[m]) => F[<<e, n>>] = F[<<g, n>>]

\* The values e are right.
Values(V, F, e) == e \in [Nodes -> V] /\ \A n \in Nodes : e[n] = F[<<e, n>>]

\* The values e are right up to the height h.
Solves(V, F, e, h) ==
  e \in [Nodes -> V] /\ \A n \in Nodes : Height[n] < h => e[n] = F[<<e, n>>]

LEMMA SolutionsAgree ==
  ASSUME NEW V, NEW F, Local(V, F), NEW e, NEW g, NEW h \in Nat, NEW k \in Nat,
         Solves(V, F, e, h), Solves(V, F, g, k)
  PROVE  \A n \in Nodes : Height[n] < h /\ Height[n] < k => e[n] = g[n]
<1> DEFINE R == {n \in Nodes : Height[n] < h /\ Height[n] < k => e[n] = g[n]}
<1>1. ASSUME NEW n \in Nodes, Kids(n) \subseteq R
      PROVE  n \in R
  <2> SUFFICES ASSUME Height[n] < h, Height[n] < k
               PROVE  e[n] = g[n]
    OBVIOUS
  <2>1. ASSUME NEW m \in Kids(n)
        PROVE  e[m] = g[m]
    <3>1. Height[m] < h /\ Height[m] < k
      BY KidsLower
    <3> QED
      BY <1>1, <3>1
  <2>2. F[<<e, n>>] = F[<<g, n>>]
    BY <2>1 DEF Local, Solves
  <2>3. e[n] = F[<<e, n>>] /\ g[n] = F[<<g, n>>]
    BY DEF Solves
  <2> QED
    BY <2>2, <2>3
<1>2. R = Nodes
  <2> R \in SUBSET Nodes
    OBVIOUS
  <2> HIDE DEF R
  <2> QED
    BY <1>1, NodeInduction
<1> QED
  BY <1>2

LEMMA SolutionsExist ==
  ASSUME NEW V, V # {}, NEW F, Local(V, F), NEW h \in Nat
  PROVE  \E e : Solves(V, F, e, h)
<1> DEFINE T == {k \in Nat : ~ \E e : Solves(V, F, e, k)}
<1> SUFFICES ASSUME T # {}
             PROVE  FALSE
  OBVIOUS
<1>1. PICK k \in T : \A y \in T : k <= y
  <2> T \in SUBSET Nat
    OBVIOUS
  <2> HIDE DEF T
  <2> QED
    BY LeastOf
<1>2. k # 0
  <2>1. PICK v \in V : TRUE
    OBVIOUS
  <2>2. Solves(V, F, [n \in Nodes |-> v], 0)
    BY HeightAssumption DEF Solves
  <2> QED
    BY <2>2
<1>3. PICK e : Solves(V, F, e, k - 1)
  <2>1. k - 1 \in Nat /\ k - 1 \notin T
    BY <1>1, <1>2
  <2> QED
    BY <2>1
<1> DEFINE d == [n \in Nodes |-> IF Height[n] = k - 1 THEN F[<<e, n>>] ELSE e[n]]
<1>4. d \in [Nodes -> V]
  BY <1>3 DEF Local, Solves
<1>5. ASSUME NEW n \in Nodes, Height[n] < k
      PROVE  d[n] = F[<<d, n>>]
  <2>1. ASSUME NEW m \in Kids(n)
        PROVE  d[m] = e[m]
    <3>1. Height[m] < k - 1 /\ m \in Nodes
      BY <1>5, KidsLower
    <3> QED
      BY <3>1, HeightAssumption
  <2>2. F[<<d, n>>] = F[<<e, n>>]
    <3> HIDE DEF d
    <3> QED
      BY <1>3, <1>4, <2>1 DEF Local, Solves
  <2>3. d[n] = F[<<e, n>>]
    <3>1. CASE Height[n] = k - 1
      BY <3>1
    <3>2. CASE Height[n] # k - 1
      <4>1. Height[n] < k - 1 /\ d[n] = e[n]
        BY <1>5, <3>2, HeightAssumption
      <4> QED
        BY <1>3, <4>1 DEF Solves
    <3> QED
      BY <3>1, <3>2
  <2> QED
    BY <2>2, <2>3
<1>6. Solves(V, F, d, k)
  <2> HIDE DEF d
  <2> QED
    BY <1>4, <1>5 DEF Solves
<1> QED
  BY <1>6

\* So there are values for all nodes at once.
LEMMA ForestRecursion ==
  ASSUME NEW V, V # {}, NEW F, Local(V, F)
  PROVE  \E e : Values(V, F, e)
<1> DEFINE upto(n) == CHOOSE e : Solves(V, F, e, Height[n] + 1)
           d == [n \in Nodes |-> upto(n)[n]]
<1>1. ASSUME NEW n \in Nodes
      PROVE  Height[n] + 1 \in Nat /\ Solves(V, F, upto(n), Height[n] + 1)
  <2>1. Height[n] + 1 \in Nat
    BY HeightAssumption
  <2>2. \E e : Solves(V, F, e, Height[n] + 1)
    BY <2>1, SolutionsExist
  <2> QED
    BY <2>1, <2>2
<1> HIDE DEF upto
<1>2. d \in [Nodes -> V]
  BY <1>1 DEF Solves
<1>3. ASSUME NEW n \in Nodes
      PROVE  d[n] = F[<<d, n>>]
  <2>1. ASSUME NEW m \in Kids(n)
        PROVE  d[m] = upto(n)[m]
    <3>1. m \in Nodes /\ Height[m] < Height[n] /\ Height[m] \in Nat /\ Height[n] \in Nat
      BY KidsLower
    <3>2. upto(m)[m] = upto(n)[m]
      <4>1. Solves(V, F, upto(m), Height[m] + 1) /\ Solves(V, F, upto(n), Height[n] + 1)
        BY <1>1, <3>1
      <4>2. Height[m] < Height[m] + 1 /\ Height[m] < Height[n] + 1
        BY <3>1
      <4> QED
        BY <3>1, <4>1, <4>2, SolutionsAgree
    <3> QED
      BY <3>1, <3>2
  <2>2. F[<<d, n>>] = F[<<upto(n), n>>]
    <3>1. upto(n) \in [Nodes -> V]
      BY <1>1 DEF Solves
    <3> HIDE DEF d
    <3> QED
      BY <1>2, <2>1, <3>1 DEF Local
  <2>3. upto(n)[n] = F[<<upto(n), n>>]
    BY <1>1, HeightAssumption DEF Solves
  <2> QED
    BY <2>2, <2>3
<1> QED
  <2> HIDE DEF d
  <2> QED
    BY <1>2, <1>3 DEF Values


\* To go down from node to only kid, through nodes of some classes, comes to an end.
LEMMA Descent ==
  ASSUME NEW C \in SUBSET (Decorators \cup {"tree"})
  PROVE  \E e : e = [n \in Nodes |-> IF class[n] \in C THEN e[Kid(n)] ELSE n]
<1> DEFINE body(e, n) == IF class[n] \in C THEN e[Kid(n)] ELSE n
           F == [p \in [Nodes -> Nodes] \X Nodes |-> body(p[1], p[2])]
<1>1. ASSUME NEW n \in Nodes, class[n] \in C
      PROVE  Kid(n) \in Kids(n) /\ Kid(n) \in Nodes
  <2>1. Len(kids[n]) = 1 /\ kids[n] \in Seq(Nodes) /\ 1 \in 1..1
    BY <1>1, TreesAssumption DEF Of
  <2> QED
    BY <2>1 DEF Kid, Kids
<1>2. ASSUME NEW e \in [Nodes -> Nodes], NEW n \in Nodes
      PROVE  F[<<e, n>>] = body(e, n) /\ body(e, n) \in Nodes
  <2>1. body(e, n) \in Nodes
    BY <1>1
  <2> HIDE DEF body
  <2> QED
    BY <2>1
<1>3. Local(Nodes, F)
  <2>1. F \in [[Nodes -> Nodes] \X Nodes -> Nodes]
    <3> HIDE DEF body
    <3> QED
      BY <1>2
  <2>2. ASSUME NEW e \in [Nodes -> Nodes], NEW g \in [Nodes -> Nodes], NEW n \in Nodes,
               \A m \in Kids(n) : e[m] = g[m]
        PROVE  F[<<e, n>>] = F[<<g, n>>]
    <3>1. body(e, n) = body(g, n)
      BY <1>1, <2>2
    <3> HIDE DEF F, body
    <3> QED
      BY <1>2, <3>1
  <2> HIDE DEF F, body
  <2> QED
    BY <2>1, <2>2 DEF Local
<1> HIDE DEF F, body
<1>4. ASSUME Nodes # {}
      PROVE  \E e : Values(Nodes, F, e)
  BY ONLY <1>3, <1>4, ForestRecursion
<1>5. ASSUME Nodes = {}
      PROVE  [n \in Nodes |-> n] = [n \in Nodes |-> body([m \in Nodes |-> m], n)]
  BY <1>5
<1>6. ASSUME Nodes # {}
      PROVE  \E e : e = [n \in Nodes |-> body(e, n)]
  <2>1. PICK e : Values(Nodes, F, e)
    BY <1>4, <1>6
  <2>2. e \in [Nodes -> Nodes] /\ \A n \in Nodes : e[n] = body(e, n)
    BY <1>2, <2>1 DEF Values
  <2>3. e = [n \in Nodes |-> body(e, n)]
    BY <2>2
  <2> QED
    BY <2>3
<1>7. \E e : e = [n \in Nodes |-> body(e, n)]
  BY <1>5, <1>6
<1> QED
  BY <1>7 DEF body

\* So Inner and Under are well defined.
LEMMA InnerDefined ==
  \A n \in Nodes : Inner[n] = IF class[n] \in Decorators THEN Inner[Kid(n)] ELSE n
<1>1. \E e : e = [n \in Nodes |-> IF class[n] \in Decorators THEN e[Kid(n)] ELSE n]
  BY Descent
<1>2. Inner = [n \in Nodes |-> IF class[n] \in Decorators THEN Inner[Kid(n)] ELSE n]
  BY <1>1 DEF Inner
<1> QED
  BY <1>2

LEMMA UnderDefined ==
  \A n \in Nodes : Under[n] = IF class[n] \in Decorators \cup {"tree"} THEN Under[Kid(n)] ELSE n
<1>1. \E e : e = [n \in Nodes |-> IF class[n] \in Decorators \cup {"tree"} THEN e[Kid(n)] ELSE n]
  BY Descent
<1>2. Under = [n \in Nodes |-> IF class[n] \in Decorators \cup {"tree"} THEN Under[Kid(n)] ELSE n]
  BY <1>1 DEF Under
<1> QED
  BY <1>2

-----------------------------------------------------------------------------
(* The calls that several actions make                                     *)

\* A tree or a decorator has a node, which no host runs.
LEMMA KidIsNode ==
  ASSUME NEW n \in Of({"tree"} \cup Decorators)
  PROVE  Kid(n) \in Nodes /\ Kid(n) \notin Roots
<1>1. n \in Nodes /\ kids[n] \in Seq(Nodes) /\ Len(kids[n]) = 1
  BY TreesAssumption DEF Of
<1>2. 1 \in 1..Len(kids[n])
  BY <1>1
<1>3. kids[n][1] \in Nodes
  BY <1>1, <1>2, ElementOfSeq
<1>4. Kid(n) \in Kids(n)
  BY <1>2 DEF Kid, Kids
<1> QED
  BY <1>1, <1>3, <1>4, RootsAssumption DEF Kid

\* The same of the children of a branch.
LEMMA ChildIsNode ==
  ASSUME NEW n \in Of(Branches), NEW k \in Nat,
         1 <= k, k <= Len(kids[n])
  PROVE  kids[n][k] \in Nodes /\ kids[n][k] \notin Roots
<1>1. n \in Nodes /\ kids[n] \in Seq(Nodes)
  BY TreesAssumption DEF Of
<1>2. kids[n][k] \in Nodes /\ kids[n][k] \in Kids(n)
  BY <1>1 DEF Kids
<1> QED
  BY <1>1, <1>2, RootsAssumption

\* Starting a node leaves it begun, and no branch less so than it was.
LEMMA StartBegins ==
  ASSUME NEW n \in Nodes, NEW begun \in [Tasks -> Int],
         NEW actual \in [Of(Branches) -> Nat], Start(n, begun, actual)
  PROVE  /\ active' \in [Tasks -> Int] /\ actualTask' \in [Of(Branches) -> Nat]
         /\ \A m \in Of(Branches) : actual[m] >= 1 => actualTask'[m] >= 1
         /\ Begun(n)'
<1> DEFINE i == Inner[n]
<1>1. active' \in [Tasks -> Int]
  <2> DEFINE starts == IF begun[i] < MaxStarts THEN begun[i] + 1 ELSE begun[i]
  <2>1. active' = IF class[i] = "task" THEN [begun EXCEPT ![i] = starts] ELSE begun
    BY DEF Start
  <2>2. i \in Tasks => starts \in Int
    OBVIOUS
  <2> HIDE DEF starts
  <2> QED
    BY <2>1, <2>2
<1>2. CASE class[i] \in {"Sequence", "Priority"}
  <2>1. actualTask' = [actual EXCEPT ![i] = 1]
    BY <1>2 DEF Start
  <2>2. actualTask' \in [Of(Branches) -> Nat]
    BY <2>1
  <2>3. \A m \in Of(Branches) : actual[m] >= 1 => actualTask'[m] >= 1
    BY <2>1
  <2>4. i \in Of(Branches) => actualTask'[i] = 1
    BY <2>1
  <2> QED
    BY <1>1, <2>2, <2>3, <2>4 DEF Begun
<1>3. CASE class[i] = "Random"
  <2>1. PICK k \in {1} \cup 1..Len(kids[i]) : actualTask' = [actual EXCEPT ![i] = k]
    BY <1>3 DEF Start
  <2>2. k \in Nat /\ k >= 1
    BY <2>1
  <2> QED
    BY <1>1, <2>1, <2>2 DEF Begun
<1>4. CASE class[i] \in {"task", "tree"}
  <2>1. actualTask' = actual /\ i \notin Of(Branches)
    BY <1>4 DEF Start, Of, Branches
  <2> QED
    BY <1>1, <2>1 DEF Begun
<1> QED
  BY <1>2, <1>3, <1>4 DEF Start

\* Only nodes are called.
LEMMA CallsNode ==
  ASSUME TypeOK, call.method # "none"
  PROVE  call.n \in Nodes /\ call # NoCall
BY DEF TypeOK, NoCall

\* A report goes to a node that can go on with it, or ends the update.
LEMMA TellGoesUp ==
  ASSUME TypeOK, Targets, NEW n \in Nodes, NEW what \in Reports, Tell(n, what)
  PROVE  \/ /\ control[n] # Nil /\ call' = Call(what, control[n])
            /\ control[n] \in Nodes /\ Reporting(control[n])
            /\ UNCHANGED <<report, reports>>
         \/ /\ control[n] = Nil /\ call' = NoCall
            /\ report' = what /\ reports' = reports + 1
BY DEF TypeOK, Targets, Tell

LEMMA TellTypes ==
  ASSUME TypeOK, Targets, NEW n \in Nodes, NEW what \in Reports, Tell(n, what)
  PROVE  /\ call' \in [method : {"run", "call_run"} \cup Reports, n : Nodes] \cup {NoCall}
         /\ report' \in Reports \cup {"none"} /\ reports' \in Nat
<1>1. CASE /\ call' = Call(what, control[n]) /\ control[n] \in Nodes
           /\ UNCHANGED <<report, reports>>
  BY <1>1 DEF TypeOK, Call
<1>2. CASE call' = NoCall /\ report' = what /\ reports' = reports + 1
  BY <1>2 DEF TypeOK
<1> QED
  BY <1>1, <1>2, TellGoesUp

\* A branch runs a child that is a node, begun, and told where to report.
LEMMA ChildRuns ==
  ASSUME TypeOK,
         NEW n \in Of(Branches), NEW begun \in [Tasks -> Int],
         NEW actual \in [Of(Branches) -> Nat],
         actual[n] >= 1, actual[n] <= Len(kids[n]), RunChild(n, begun, actual)
  PROVE  \E child \in Nodes \ Roots :
           /\ node' = [node EXCEPT ![n] = child]
           /\ ran' = [ran EXCEPT ![n] = child]
           /\ control' = [control EXCEPT ![child] = n]
           /\ call' = Call("run", child)
           /\ active' \in [Tasks -> Int] /\ actualTask' \in [Of(Branches) -> Nat]
           /\ \A m \in Of(Branches) : actual[m] >= 1 => actualTask'[m] >= 1
           /\ Begun(child)'
<1> DEFINE child == kids[n][actual[n]]
<1>1. child \in Nodes \ Roots
  BY ChildIsNode
<1>2. Start(child, begun, actual)
  BY DEF RunChild
<1>3. /\ active' \in [Tasks -> Int] /\ actualTask' \in [Of(Branches) -> Nat]
      /\ \A m \in Of(Branches) : actual[m] >= 1 => actualTask'[m] >= 1
      /\ Begun(child)'
  BY <1>1, <1>2, StartBegins
<1>4. /\ node' = [node EXCEPT ![n] = child]
      /\ ran' = [ran EXCEPT ![n] = child]
      /\ control' = [control EXCEPT ![child] = n]
      /\ call' = Call("run", child)
  BY DEF RunChild
<1> HIDE DEF child
<1> QED
  BY <1>1, <1>3, <1>4

\* Finishing a node leaves the counts of starts typed.
LEMMA FinishTypes ==
  ASSUME TypeOK, NEW n
  PROVE  Finish(n) \in [Tasks -> Int]
<1> DEFINE left == active[Inner[n]] - 1
<1>1. active \in [Tasks -> Int]
  BY DEF TypeOK
<1>2. Inner[n] \in Tasks => left \in Int
  BY <1>1
<1>3. Finish(n) = IF class[Inner[n]] = "task" THEN [active EXCEPT ![Inner[n]] = left]
                  ELSE active
  BY DEF Finish
<1> HIDE DEF left
<1> QED
  BY <1>1, <1>2, <1>3

\* A decorator reports what a node may report, and runs on what runs on.
LEMMA DecoratedReports ==
  ASSUME NEW kind \in Decorators, NEW what \in Reports
  PROVE  /\ Decorated(kind, what) \in Reports
         /\ Decorated(kind, what) # "running" => what # "running"
BY DEF Decorated, Decorators, Reports

\* What hears a report and has to pass it on without a look has a control, so that
\* it reports like any other node.
LEMMA ReportIsPassedOn ==
  ASSUME TypeOK, Targets, call.method \in Reports, class[call.n] \in Branches \cup Decorators
  PROVE  control[call.n] # Nil
<1>1. call # NoCall /\ class[call.n] # "tree"
  BY DEF NoCall, Reports, Branches, Decorators
<1> QED
  BY <1>1 DEF Targets, Reporting

LEMMA ReportsAreTold ==
  ASSUME TypeOK, Targets
  PROVE  /\ DecoratorReports => Tell(call.n, Decorated(class[call.n], call.method))
         /\ BranchRunning => Tell(call.n, "running")
<1>1. ASSUME DecoratorReports
      PROVE  Tell(call.n, Decorated(class[call.n], call.method))
  <2>1. control[call.n] # Nil
    BY <1>1, ReportIsPassedOn DEF DecoratorReports
  <2>2. CASE call.method = "running" /\ Tell(call.n, "running")
    BY <2>2 DEF Decorated
  <2>3. CASE /\ call' = Call(Decorated(class[call.n], call.method), control[call.n])
             /\ UNCHANGED <<report, reports>>
    BY <2>1, <2>3 DEF Tell
  <2> QED
    BY <1>1, <2>2, <2>3 DEF DecoratorReports
<1>2. ASSUME BranchRunning
      PROVE  Tell(call.n, "running")
  <2>1. control[call.n] # Nil
    BY <1>2, ReportIsPassedOn DEF BranchRunning, Reports
  <2> QED
    BY <1>2, <2>1 DEF BranchRunning, Tell
<1> QED
  BY <1>1, <1>2

-----------------------------------------------------------------------------
(* Steps                                                                   *)

LEMMA TypeOKStep ==
  ASSUME TypeOK, Targets, Next
  PROVE  TypeOK'
<1> USE CallsNode
<1>1. CASE Update
  BY <1>1, TreesAssumption DEF Update, TypeOK, Call, Of
<1>2. CASE RunStartedTree
  BY <1>2, TellTypes DEF RunStartedTree, TypeOK, Reports
<1>3. CASE RunTree
  <2>1. call.n \in Of({"tree"}) /\ Kid(call.n) \in Nodes
    BY <1>3, KidIsNode DEF RunTree, Of
  <2>2. active' \in [Tasks -> Int] /\ actualTask' \in [Of(Branches) -> Nat]
    BY <1>3, <2>1, StartBegins DEF RunTree, TypeOK
  <2> QED
    BY <1>3, <2>1, <2>2 DEF RunTree, TypeOK, Call, Of
<1>4. CASE CallRun
  <2>1. Call("clear", Nil) \in [method : {"clear", "unstart"}, n : Nodes \cup {Nil}]
    BY DEF Call
  <2> QED
    BY <1>4, <2>1 DEF CallRun, TypeOK, Call
<1>5. CASE RunDecorator
  <2>1. Kid(call.n) \in Nodes
    BY <1>5, KidIsNode DEF RunDecorator, Of
  <2> QED
    BY <1>5, <2>1 DEF RunDecorator, TypeOK, Call
<1>6. CASE RunNoChild
  BY <1>6 DEF RunNoChild, TypeOK
<1>7. CASE RunBranch
  <2>1. call.n \in Of(Branches) /\ Inner[call.n] = call.n
    BY <1>7, InnerDefined DEF RunBranch, Of, Branches, Decorators
  <2>2. actualTask[call.n] >= 1
    BY <1>7, <2>1 DEF RunBranch, Targets, Begun, Of, Branches
  <2>3. PICK child \in Nodes \ Roots :
          /\ node' = [node EXCEPT ![call.n] = child]
          /\ ran' = [ran EXCEPT ![call.n] = child]
          /\ control' = [control EXCEPT ![child] = call.n]
          /\ call' = Call("run", child)
          /\ active' \in [Tasks -> Int] /\ actualTask' \in [Of(Branches) -> Nat]
    BY <1>7, <2>1, <2>2, ChildRuns DEF RunBranch, TypeOK
  <2> QED
    BY <1>7, <2>1, <2>3 DEF RunBranch, TypeOK, Call, Of
<1>8. CASE ResumeBranch
  <2>1. call.n \in Of(Branches)
    BY <1>8 DEF ResumeBranch, Of
  <2> QED
    BY <1>8, <2>1 DEF ResumeBranch, TypeOK, Call
<1>9. CASE ResumeNothing \/ RunFaultyTask
  <2>1. call' = NoCall /\ stack' = <<>> /\ stalled' = TRUE
    BY <1>9 DEF ResumeNothing, RunFaultyTask, LuaError
  <2> QED
    BY <1>9, <2>1 DEF ResumeNothing, RunFaultyTask, TypeOK
<1>10. CASE RunTask
  <2>1. globals # Nil => globals \in Nodes
    BY DEF TypeOK
  <2>2. globals # Nil
    BY <1>10 DEF RunTask, Targets
  <2> QED
    BY <1>10, <2>1, <2>2 DEF RunTask, TypeOK, Call, Tasks, Of
<1>11. CASE RunSilentTask
  BY <1>11 DEF RunSilentTask, TypeOK
<1>12. CASE TaskReports
  BY <1>12, TellTypes DEF TaskReports, TypeOK, Reports
<1>13. CASE DecoratorReports
  <2>1. Decorated(class[call.n], call.method) \in Reports
    BY <1>13, DecoratedReports DEF DecoratorReports
  <2>2. call.n \in Nodes /\ Tell(call.n, Decorated(class[call.n], call.method))
    BY <1>13, ReportsAreTold DEF Reports, DecoratorReports
  <2>3. /\ call' \in [method : {"run", "call_run"} \cup Reports, n : Nodes] \cup {NoCall}
        /\ report' \in Reports \cup {"none"} /\ reports' \in Nat
    BY <2>1, <2>2, TellTypes
  <2> QED
    BY <1>13, <2>3 DEF DecoratorReports, TypeOK
<1>14. CASE BranchRunning
  <2>1. call.n \in Nodes /\ Tell(call.n, "running") /\ "running" \in Reports
    BY <1>14, ReportsAreTold DEF BranchRunning, Reports
  <2> QED
    BY <1>14, <2>1, TellTypes DEF BranchRunning, TypeOK
<1>15. CASE BranchGoesOn
  <2> DEFINE moved == [actualTask EXCEPT ![call.n] = @ + 1]
  <2>1. call.n \in Of(Branches)
    BY <1>15 DEF BranchGoesOn, Of
  <2>2. moved \in [Of(Branches) -> Nat] /\ moved[call.n] >= 1
    BY <2>1 DEF TypeOK
  <2>3. moved[call.n] <= Len(kids[call.n]) /\ RunChild(call.n, Finish(node[call.n]), moved)
    BY <1>15 DEF BranchGoesOn
  <2> HIDE DEF moved
  <2>4. PICK child \in Nodes \ Roots :
          /\ node' = [node EXCEPT ![call.n] = child]
          /\ ran' = [ran EXCEPT ![call.n] = child]
          /\ control' = [control EXCEPT ![child] = call.n]
          /\ call' = Call("run", child)
          /\ active' \in [Tasks -> Int] /\ actualTask' \in [Of(Branches) -> Nat]
    BY <2>1, <2>2, <2>3, ChildRuns, FinishTypes
  <2> QED
    BY <1>15, <2>1, <2>4 DEF BranchGoesOn, TypeOK, Call, Of
<1>16. CASE BranchEnds
  <2>1. call.n \in Of(Branches)
    BY <1>16 DEF BranchEnds, Of
  <2>2. control[call.n] \in Nodes
    BY <1>16 DEF BranchEnds, TypeOK, Targets, Reporting, Branches
  <2>3. active' \in [Tasks -> Int]
    BY <1>16, FinishTypes DEF BranchEnds
  <2>4. actualTask' \in [Of(Branches) -> Nat]
    BY <1>16, <2>1 DEF BranchEnds, TypeOK
  <2> QED
    BY <1>16, <2>1, <2>2, <2>3, <2>4 DEF BranchEnds, TypeOK, Call, Reports
<1>17. CASE BranchHasNoNode
  <2>1. call' = NoCall /\ stack' = <<>> /\ stalled' = TRUE
    BY <1>17 DEF BranchHasNoNode, LuaError
  <2>2. nodeRunning' \in [Of(Branches) -> BOOLEAN]
    BY <1>17 DEF BranchHasNoNode, TypeOK
  <2> QED
    BY <1>17, <2>1, <2>2 DEF BranchHasNoNode, TypeOK
<1>18. CASE TreeRunning
  <2>1. Call("unstart", call.n) \in [method : {"clear", "unstart"}, n : Nodes \cup {Nil}]
    BY <1>18 DEF TreeRunning, Call
  <2> QED
    BY <1>18, <2>1, TellTypes DEF TreeRunning, TypeOK, Reports
<1>19. CASE TreeEnds
  <2>1. active' \in [Tasks -> Int]
    BY <1>19, FinishTypes DEF TreeEnds
  <2>2. /\ call' \in [method : {"run", "call_run"} \cup Reports, n : Nodes] \cup {NoCall}
        /\ report' \in Reports \cup {"none"} /\ reports' \in Nat
    BY <1>19, TellTypes DEF TreeEnds, Reports
  <2>3. started' \in [Of({"tree"}) -> BOOLEAN]
    BY <1>19 DEF TreeEnds, TypeOK
  <2> QED
    BY <1>19, <2>1, <2>2, <2>3 DEF TreeEnds, TypeOK
<1>20. CASE Return
  <2>1. /\ stack' \in Seq([method : {"clear", "unstart"}, n : Nodes \cup {Nil}])
        /\ UNCHANGED <<root, call, actualTask, nodeRunning, node, control, active, outcome,
                       ran, report, reports, stalled>>
    BY <1>20 DEF Return, TypeOK
  <2>2. started' \in [Of({"tree"}) -> BOOLEAN] /\ globals' \in Nodes \cup {Nil}
    BY <1>20 DEF Return, TypeOK
  <2> QED
    BY <2>1, <2>2 DEF TypeOK
<1> QED
  BY <1>1, <1>2, <1>3, <1>4, <1>5, <1>6, <1>7, <1>8, <1>9, <1>10, <1>11, <1>12, <1>13, <1>14,
     <1>15, <1>16, <1>17, <1>18, <1>19, <1>20 DEF Next, Step

\* A step that controls and begins no less than before keeps Targets, if it does so
\* for what it calls.
LEMMA TargetsKept ==
  ASSUME TypeOK, Targets, control' \in [Nodes -> Nodes \cup {Nil}],
         \A n \in Nodes : control[n] # Nil => control'[n] # Nil,
         \A n \in Nodes : control'[n] # control[n] /\ control'[n] # Nil =>
                           Reporting(control[n])',
         \A n \in Of(Branches) : actualTask[n] >= 1 => actualTask'[n] >= 1,
         \A n \in Of(Branches) : node'[n] \in {node[n], Nil}
                                 \/ (Reporting(node[n])' /\ Begun(node[n])'),
         globals' \in {globals, Nil} \/ Reporting(globals)',
         call' # NoCall => Reporting(call.n)',
         call'.method \in {"run", "call_run"} /\ class[call'.n] # "tree" => Begun(call.n)',
         \/ call'.method \in {"success", "fail"}
         \/ call'.method = "run" /\ class[call'.n] # "tree"
         => globals' # Nil
  PROVE  Targets'
<1>1. \A n \in Nodes : Reporting(n) => Reporting(n)'
  BY DEF Reporting
<1>2. \A n \in Nodes : Begun(n) => Begun(n)'
  BY DEF Begun
<1>3. \A n \in Nodes : control'[n] # Nil => Reporting(control[n])'
  BY <1>1 DEF Targets, TypeOK
<1>4. \A n \in Of(Branches) : node'[n] # Nil => Reporting(node[n])' /\ Begun(node[n])'
  BY <1>1, <1>2 DEF Targets, TypeOK
<1>5. globals' # Nil => Reporting(globals)'
  BY <1>1 DEF Targets, TypeOK
<1> QED
  BY <1>3, <1>4, <1>5 DEF Targets

\* So does a report, unless it is other than running and no node has set the
\* global functions.
LEMMA TargetsTold ==
  ASSUME TypeOK, Targets, NEW n \in Nodes, NEW what \in Reports, Tell(n, what),
         UNCHANGED <<actualTask, node, control, globals>>,
         what # "running" => globals # Nil
  PROVE  Targets'
<1> /\ control' \in [Nodes -> Nodes \cup {Nil}]
    /\ \A m \in Nodes : control[m] # Nil => control'[m] # Nil
    /\ \A m \in Nodes : control'[m] = control[m]
    /\ \A m \in Of(Branches) : actualTask[m] >= 1 => actualTask'[m] >= 1
    /\ \A m \in Of(Branches) : node'[m] \in {node[m], Nil}
    /\ globals' \in {globals, Nil}
  BY DEF TypeOK
<1>1. CASE control[n] # Nil
  <2>1. call' = Call(what, control[n]) /\ Reporting(control[n])
    BY <1>1, TellGoesUp
  <2>2. Reporting(call.n)'
    BY <2>1 DEF Call, Reporting
  <2>3. /\ call'.method \notin {"run", "call_run"}
        /\ call'.method \in {"success", "fail"} => globals' # Nil
    BY <2>1 DEF Call, Reports
  <2> QED
    BY <2>2, <2>3, TargetsKept
<1>2. CASE control[n] = Nil
  <2>1. call' = NoCall
    BY <1>2, TellGoesUp
  <2> QED
    BY <2>1, TargetsKept DEF NoCall
<1> QED
  BY <1>1, <1>2

\* And so does a branch that runs a child.
LEMMA TargetsOfChild ==
  ASSUME TypeOK, Targets,
         NEW n \in Of(Branches), NEW child \in Nodes, Reporting(n), globals # Nil,
         \A m \in Of(Branches) : actualTask[m] >= 1 => actualTask'[m] >= 1,
         node' = [node EXCEPT ![n] = child], control' = [control EXCEPT ![child] = n],
         call' = Call("run", child), UNCHANGED globals, Begun(child)'
  PROVE  Targets'
<1>1. n \in Nodes /\ n # Nil
  BY TreesAssumption DEF Of
<1>2. /\ control' \in [Nodes -> Nodes \cup {Nil}]
      /\ \A m \in Nodes : control[m] # Nil => control'[m] # Nil
      /\ control'[child] = n
  BY <1>1 DEF TypeOK
<1>3. Reporting(child)' /\ Reporting(n)'
  BY <1>1, <1>2 DEF Reporting
<1>4. \A m \in Nodes : control'[m] # control[m] /\ control'[m] # Nil =>
                        Reporting(control[m])'
  BY <1>3 DEF TypeOK, Reporting
<1>5. \A m \in Of(Branches) : node'[m] \in {node[m], Nil}
                              \/ (Reporting(node[m])' /\ Begun(node[m])')
  BY <1>3 DEF TypeOK, Reporting, Begun
<1>6. /\ Reporting(call.n)' /\ Begun(call.n)'
      /\ globals' # Nil
  BY <1>3 DEF Call, Reporting, Begun
<1> QED
  BY <1>2, <1>4, <1>5, <1>6, TargetsKept

LEMMA TargetsStep ==
  ASSUME TypeOK, Targets, Next
  PROVE  Targets'
<1> USE CallsNode
<1>a. /\ control \in [Nodes -> Nodes \cup {Nil}]
      /\ globals \in Nodes \cup {Nil}
  BY DEF TypeOK
<1>1. CASE Update
  <2>1. call' = Call("run", root) /\ class[root] = "tree"
    BY <1>1, TreesAssumption DEF Update, TypeOK, Of
  <2>2. Reporting(call.n)'
    BY <2>1 DEF Call, Reporting
  <2> QED
    BY <1>1, <1>a, <2>1, <2>2, TargetsKept DEF Update, Call
<1>2. CASE RunStartedTree
  BY <1>2, TargetsTold DEF RunStartedTree, Reports
<1>3. CASE RunTree
  <2>1. call.n \in Of({"tree"}) /\ Kid(call.n) \in Nodes /\ call.n \in Nodes /\ call.n # Nil
    BY <1>3, KidIsNode, TreesAssumption DEF RunTree, Of
  <2> PICK child \in Nodes : child = Kid(call.n)
    BY <2>1
  <2>2. /\ \A m \in Of(Branches) : actualTask[m] >= 1 => actualTask'[m] >= 1
        /\ Begun(child)'
    <3>1. Start(child, active, actualTask)
      BY <1>3 DEF RunTree
    <3> QED
      BY <3>1, StartBegins DEF TypeOK
  <2>3. /\ control' = [control EXCEPT ![child] = call.n]
        /\ call' = Call("call_run", child)
        /\ UNCHANGED <<node, globals>> /\ class[call.n] = "tree"
    BY <1>3 DEF RunTree
  <2>4. /\ control' \in [Nodes -> Nodes \cup {Nil}]
        /\ \A m \in Nodes : control[m] # Nil => control'[m] # Nil
        /\ \A m \in Nodes : control'[m] # control[m] /\ control'[m] # Nil =>
                             Reporting(control[m])'
    BY <1>a, <2>1, <2>3 DEF Reporting
  <2>5. Reporting(call.n)' /\ Begun(call.n)'
    BY <1>a, <2>1, <2>2, <2>3 DEF Call, Reporting, Begun
  <2> QED
    BY <2>2, <2>3, <2>4, <2>5, TargetsKept DEF Call
<1>4. CASE CallRun
  <2>1. call' = Call("run", call.n) /\ globals' = call.n /\ call.n \in Nodes
        /\ UNCHANGED <<node, control, actualTask>> /\ call.n # Nil
    BY <1>4, TreesAssumption DEF CallRun
  <2>2. Reporting(call.n)' /\ Reporting(globals)'
    BY <1>4, <2>1 DEF Call, CallRun, Targets, Reporting
  <2>3. class[call'.n] # "tree" => Begun(call.n)'
    BY <1>4, <2>1 DEF Call, CallRun, Targets, Begun
  <2> QED
    BY <1>a, <2>1, <2>2, <2>3, TargetsKept DEF Call
<1>5. CASE RunDecorator
  <2>1. /\ call.n \in Of(Decorators) /\ Kid(call.n) \in Nodes
        /\ call.n \in Nodes /\ call.n # Nil /\ class[call.n] # "tree"
    BY <1>5, KidIsNode, TreesAssumption DEF RunDecorator, Of, Decorators
  <2>2. /\ control' = [control EXCEPT ![Kid(call.n)] = call.n]
        /\ call' = Call("call_run", Kid(call.n))
        /\ UNCHANGED <<node, globals, actualTask>>
    BY <1>5 DEF RunDecorator
  <2>3. Begun(Kid(call.n))
    <3>1. Inner[call.n] = Inner[Kid(call.n)]
      BY <2>1, InnerDefined DEF Of
    <3> QED
      BY <1>5, <2>1, <3>1 DEF RunDecorator, Targets, Begun
  <2>4. Reporting(call.n)
    BY <1>5 DEF RunDecorator, Targets
  <2>5. /\ control' \in [Nodes -> Nodes \cup {Nil}]
        /\ \A m \in Nodes : control[m] # Nil => control'[m] # Nil
        /\ \A m \in Nodes : control'[m] # control[m] /\ control'[m] # Nil =>
                             Reporting(control[m])'
    BY <1>a, <2>1, <2>2, <2>4 DEF Reporting
  <2>6. Reporting(call.n)' /\ Begun(call.n)'
    BY <1>a, <2>1, <2>2, <2>3 DEF Call, Reporting, Begun
  <2> QED
    BY <2>2, <2>5, <2>6, TargetsKept DEF Call
<1>6. CASE RunNoChild
  BY <1>6, <1>a, TargetsKept DEF RunNoChild, NoCall
<1>7. CASE RunBranch
  <2>1. /\ call.n \in Of(Branches) /\ Inner[call.n] = call.n /\ class[call.n] # "tree"
    BY <1>7, InnerDefined DEF RunBranch, Of, Branches, Decorators
  <2>2. actualTask[call.n] >= 1 /\ Reporting(call.n) /\ globals # Nil
    BY <1>7, <2>1 DEF RunBranch, Targets, Begun, Of, Branches
  <2>3. PICK child \in Nodes \ Roots :
          /\ node' = [node EXCEPT ![call.n] = child]
          /\ control' = [control EXCEPT ![child] = call.n]
          /\ call' = Call("run", child)
          /\ \A m \in Of(Branches) : actualTask[m] >= 1 => actualTask'[m] >= 1
          /\ Begun(child)'
    BY <1>7, <2>1, <2>2, ChildRuns DEF RunBranch, TypeOK
  <2>4. UNCHANGED globals
    BY <1>7 DEF RunBranch
  <2> QED
    BY <2>1, <2>2, <2>3, <2>4, TargetsOfChild
<1>8. CASE ResumeBranch
  <2>1. call.n \in Of(Branches) /\ class[call.n] # "tree"
    BY <1>8 DEF ResumeBranch, Of, Branches
  <2>2. call' = Call("run", node[call.n]) /\ UNCHANGED <<actualTask, node, control, globals>>
    BY <1>8 DEF ResumeBranch
  <2>3. globals # Nil /\ Reporting(node[call.n]) /\ Begun(node[call.n])
    BY <1>8, <2>1 DEF ResumeBranch, Targets
  <2>4. Reporting(call.n)' /\ Begun(call.n)'
    BY <2>2, <2>3 DEF Call, Reporting, Begun
  <2> QED
    BY <1>a, <2>2, <2>3, <2>4, TargetsKept
<1>9. CASE ResumeNothing \/ RunFaultyTask \/ RunSilentTask \/ BranchHasNoNode
  <2>1. call' = NoCall /\ UNCHANGED <<actualTask, node, control, globals>>
    BY <1>9 DEF ResumeNothing, RunFaultyTask, RunSilentTask, BranchHasNoNode, LuaError
  <2> QED
    BY <1>a, <2>1, TargetsKept DEF NoCall
<1>10. CASE RunTask
  <2>1. globals # Nil /\ Reporting(globals) /\ Reporting(call.n)
    BY <1>10 DEF RunTask, Targets
  <2>2. PICK what \in Reports : call' = Call(what, IF root \in Globals THEN globals ELSE call.n)
    BY <1>10 DEF RunTask
  <2>3. UNCHANGED <<actualTask, node, control, globals>>
    BY <1>10 DEF RunTask
  <2>4. Reporting(call.n)' /\ call'.method \notin {"run", "call_run"}
    BY <2>1, <2>2, <2>3 DEF Call, Reporting, Reports
  <2> QED
    BY <1>a, <2>1, <2>3, <2>4, TargetsKept
<1>11. CASE TaskReports
  BY <1>11, TargetsTold DEF TaskReports, Reports, Targets
<1>12. CASE DecoratorReports
  <2>1. /\ Decorated(class[call.n], call.method) \in Reports
        /\ Decorated(class[call.n], call.method) # "running" => call.method # "running"
    BY <1>12, DecoratedReports DEF DecoratorReports
  <2>2. /\ call.n \in Nodes /\ Tell(call.n, Decorated(class[call.n], call.method))
        /\ call.method # "running" => globals # Nil
        /\ UNCHANGED <<actualTask, node, control, globals>>
    BY <1>12, ReportsAreTold DEF DecoratorReports, Reports, Targets
  <2> QED
    BY <2>1, <2>2, TargetsTold
<1>13. CASE BranchRunning
  <2>1. call.n \in Nodes /\ Tell(call.n, "running") /\ "running" \in Reports
    BY <1>13, ReportsAreTold DEF BranchRunning, Reports
  <2> QED
    BY <1>13, <2>1, TargetsTold DEF BranchRunning
<1>14. CASE BranchGoesOn
  <2> DEFINE moved == [actualTask EXCEPT ![call.n] = @ + 1]
  <2>1. call.n \in Of(Branches) /\ Reporting(call.n) /\ globals # Nil /\ UNCHANGED globals
    BY <1>14 DEF BranchGoesOn, Of, Targets
  <2>2. /\ moved \in [Of(Branches) -> Nat] /\ moved[call.n] >= 1
        /\ \A m \in Of(Branches) : actualTask[m] >= 1 => moved[m] >= 1
    BY <2>1 DEF TypeOK
  <2>3. moved[call.n] <= Len(kids[call.n]) /\ RunChild(call.n, Finish(node[call.n]), moved)
    BY <1>14 DEF BranchGoesOn
  <2> HIDE DEF moved
  <2>4. PICK child \in Nodes \ Roots :
          /\ node' = [node EXCEPT ![call.n] = child]
          /\ control' = [control EXCEPT ![child] = call.n]
          /\ call' = Call("run", child)
          /\ \A m \in Of(Branches) : moved[m] >= 1 => actualTask'[m] >= 1
          /\ Begun(child)'
    BY <2>1, <2>2, <2>3, ChildRuns, FinishTypes
  <2> QED
    BY <2>1, <2>2, <2>4, TargetsOfChild
<1>15. CASE BranchEnds
  <2>1. call.n \in Of(Branches) /\ Reporting(call.n) /\ globals # Nil
    BY <1>15 DEF BranchEnds, Of, Targets
  <2>2. control[call.n] \in Nodes /\ control[call.n] # Nil /\ Reporting(control[call.n])
    BY <1>a, <1>15, <2>1 DEF Targets, Reporting, Of, Branches
  <2>3. /\ call' = Call(call.method, control[call.n]) /\ node' = [node EXCEPT ![call.n] = Nil]
        /\ UNCHANGED <<control, globals>> /\ call.method \in {"success", "fail"}
    BY <1>15 DEF BranchEnds
  <2>4. \A m \in Of(Branches) : actualTask[m] >= 1 => actualTask'[m] >= 1
    BY <1>15, <2>1 DEF BranchEnds, TypeOK
  <2>5. \A m \in Of(Branches) : node'[m] \in {node[m], Nil}
    BY <2>3 DEF TypeOK
  <2>6. Reporting(call.n)' /\ call'.method \notin {"run", "call_run"}
    BY <2>2, <2>3 DEF Call, Reporting
  <2> QED
    BY <1>a, <2>1, <2>3, <2>4, <2>5, <2>6, TargetsKept
<1>16. CASE TreeRunning
  BY <1>16, TargetsTold DEF TreeRunning, Reports
<1>17. CASE TreeEnds
  BY <1>17, TargetsTold DEF TreeEnds, Reports, Targets
<1>18. CASE Return
  <2>1. /\ call' = NoCall /\ globals' \in {globals, Nil}
        /\ UNCHANGED <<actualTask, node, control>>
    BY <1>18 DEF Return
  <2> QED
    BY <1>a, <2>1, TargetsKept DEF NoCall
<1> QED
  BY <1>1, <1>2, <1>3, <1>4, <1>5, <1>6, <1>7, <1>8, <1>9, <1>10, <1>11, <1>12, <1>13, <1>14,
     <1>15, <1>16, <1>17, <1>18 DEF Next, Step

\* Pushing what somebody else has to do, or popping, unstarts no more.
LEMMA PushedUnstarts ==
  ASSUME TypeOK, NEW method, NEW n, Call(method, n) # Call("unstart", root), UNCHANGED root,
         stack' = <<Call(method, n)>> \o stack, ~RootUnstarts
  PROVE  ~RootUnstarts'
<1>1. stack \in Seq([method : {"clear", "unstart"}, n : Nodes \cup {Nil}])
  BY DEF TypeOK
<1>2. Len(stack') = Len(stack) + 1 /\ stack'[1] = Call(method, n)
  BY <1>1
<1>3. \A k \in 2..Len(stack') : k - 1 \in 1..Len(stack) /\ stack'[k] = stack[k - 1]
  BY <1>1, <1>2
<1>4. \A k \in 1..Len(stack') : k = 1 \/ k \in 2..Len(stack')
  BY <1>1, <1>2
<1>5. Call("unstart", root)' = Call("unstart", root)
  BY DEF Call
<1> QED
  BY <1>2, <1>3, <1>4, <1>5 DEF RootUnstarts

\* What runs in the host's tree leaves it started, and so does what stalls it.
LEMMA RootedOn ==
  ASSUME Rooted, call # NoCall, call # Call("run", root), root' = root,
         started'[root] = started[root], control'[root] = Nil,
         ~RootUnstarts', stalled' => stalled \/ call' = NoCall
  PROVE  Rooted'
BY DEF Rooted

\* Once a report has ended the update, it matters only that a stalled tree stays
\* started.
LEMMA RootedDone ==
  ASSUME Rooted, call' = NoCall, root' = root, control'[root] = Nil,
         stalled' => stalled /\ started'[root] /\ ~RootUnstarts'
  PROVE  Rooted'
BY DEF Rooted

LEMMA RootedStep ==
  ASSUME TypeOK, Targets, Rooted, Next
  PROVE  Rooted'
<1> USE CallsNode
<1>a. /\ root \in Nodes /\ root \in Roots /\ root # Nil /\ class[root] = "tree"
      /\ control \in [Nodes -> Nodes \cup {Nil}] /\ started \in [Of({"tree"}) -> BOOLEAN]
      /\ control[root] = Nil
  BY TreesAssumption DEF TypeOK, Of, Rooted
<1>b. UNCHANGED stack => (RootUnstarts' <=> RootUnstarts) \/ root' # root
  BY DEF RootUnstarts, Call
<1>1. CASE Update
  <2>1. /\ call' = Call("run", root) /\ stack' = <<>>
        /\ UNCHANGED <<root, started, control, stalled>>
    BY <1>1 DEF Update
  <2>2. ~RootUnstarts'
    BY <2>1 DEF RootUnstarts
  <2> QED
    BY <1>a, <2>1, <2>2 DEF Rooted, Call
<1>2. CASE RunStartedTree
  <2>1. /\ call.n \in Nodes /\ call # NoCall /\ Tell(call.n, "running")
        /\ UNCHANGED <<root, stack, started, control, stalled>>
        /\ call.method = "run"
    BY <1>2 DEF RunStartedTree
  <2>2. CASE call.n = root
    <3>1. call' = NoCall
      BY <1>a, <2>1, <2>2, TellGoesUp DEF Reports
    <3> QED
      BY <1>a, <1>b, <2>1, <3>1, RootedDone DEF Rooted
  <2>3. CASE call.n # root
    BY <1>a, <1>b, <2>1, <2>3, RootedOn DEF Rooted, Call
  <2> QED
    BY <2>2, <2>3
<1>3. CASE RunTree
  <2>1. /\ call.n \in Of({"tree"}) /\ Kid(call.n) \notin Roots
        /\ started' = [started EXCEPT ![call.n] = TRUE]
        /\ control' = [control EXCEPT ![Kid(call.n)] = call.n]
        /\ UNCHANGED <<root, stack, stalled>> /\ ~started[call.n] /\ call # NoCall
    BY <1>3, KidIsNode DEF RunTree, Of
  <2>2. control'[root] = Nil
    BY <1>a, <2>1
  <2>3. CASE call.n = root
    <3>1. started'[root] /\ ~stalled
      BY <1>a, <2>1, <2>3 DEF Rooted
    <3> QED
      BY <1>a, <1>b, <2>1, <2>2, <3>1 DEF Rooted
  <2>4. CASE call.n # root
    <3>1. started'[root] = started[root]
      BY <1>a, <2>1, <2>4 DEF Of
    <3> QED
      BY <1>b, <2>1, <2>2, <2>4, <3>1, RootedOn DEF Rooted, Call
  <2> QED
    BY <2>3, <2>4
<1>4. CASE CallRun
  <2>1. /\ call # NoCall /\ call # Call("run", root)
        /\ UNCHANGED <<root, started, control, stalled>>
        /\ stack' = <<Call("clear", Nil)>> \o stack
    BY <1>4 DEF CallRun, Call
  <2>2. Call("clear", Nil) # Call("unstart", root)
    BY DEF Call
  <2>3. ~RootUnstarts'
    BY <2>1, <2>2, PushedUnstarts DEF Rooted
  <2> QED
    BY <1>a, <2>1, <2>3, RootedOn
<1>5. CASE RunDecorator
  <2>1. /\ call.n \in Of(Decorators) /\ Kid(call.n) \notin Roots /\ call.n # root /\ call # NoCall
        /\ control' = [control EXCEPT ![Kid(call.n)] = call.n]
        /\ UNCHANGED <<root, started, stack, stalled>>
    BY <1>a, <1>5, KidIsNode DEF RunDecorator, Of, Decorators
  <2>2. control'[root] = Nil
    BY <1>a, <2>1
  <2> QED
    BY <1>a, <1>b, <2>1, <2>2, RootedOn DEF Rooted, Call
<1>6. CASE RunBranch \/ BranchGoesOn
  <2>1. /\ call.n \in Of(Branches) /\ call.n # root /\ call # NoCall
        /\ UNCHANGED <<root, started, stack, stalled>>
    BY <1>a, <1>6 DEF RunBranch, BranchGoesOn, Of, Branches
  <2>2. PICK child \in Nodes \ Roots : control' = [control EXCEPT ![child] = call.n]
    <3>1. CASE RunBranch
      <4>1. Inner[call.n] = call.n
        BY <2>1, InnerDefined DEF Of, Branches, Decorators
      <4>2. actualTask[call.n] >= 1
        BY <2>1, <3>1, <4>1 DEF RunBranch, Targets, Begun, Of, Branches
      <4> QED
        BY <2>1, <3>1, <4>2, ChildRuns DEF RunBranch, TypeOK
    <3>2. CASE BranchGoesOn
      <4> DEFINE moved == [actualTask EXCEPT ![call.n] = @ + 1]
      <4>1. moved \in [Of(Branches) -> Nat] /\ moved[call.n] >= 1
        BY <2>1 DEF TypeOK
      <4>2. moved[call.n] <= Len(kids[call.n]) /\ RunChild(call.n, Finish(node[call.n]), moved)
        BY <3>2 DEF BranchGoesOn
      <4> HIDE DEF moved
      <4> QED
        BY <2>1, <4>1, <4>2, ChildRuns, FinishTypes
    <3> QED
      BY <1>6, <3>1, <3>2
  <2>3. control'[root] = Nil
    BY <1>a, <2>2
  <2> QED
    BY <1>a, <1>b, <2>1, <2>3, RootedOn DEF Rooted, Call
<1>7. CASE ResumeBranch \/ RunNoChild \/ RunTask \/ RunSilentTask \/ BranchEnds
  <2>1. /\ call.n # root /\ call # NoCall
        /\ UNCHANGED <<root, started, stack, control>>
        /\ stalled' => stalled \/ call' = NoCall
    BY <1>a, <1>7 DEF ResumeBranch, RunNoChild, RunTask, RunSilentTask, BranchEnds, Branches
  <2> QED
    BY <1>a, <1>b, <2>1, RootedOn DEF Rooted, Call
<1>8. CASE ResumeNothing \/ RunFaultyTask \/ BranchHasNoNode
  <2>1. /\ call.n # root /\ call # NoCall /\ call' = NoCall /\ stack' = <<>>
        /\ UNCHANGED <<root, started, control>>
    BY <1>a, <1>8 DEF ResumeNothing, RunFaultyTask, BranchHasNoNode, LuaError, Branches
  <2>2. ~RootUnstarts'
    BY <2>1 DEF RootUnstarts
  <2> QED
    BY <1>a, <2>1, <2>2, RootedOn DEF Call
<1>9. CASE TaskReports \/ DecoratorReports \/ BranchRunning
  <2>1. /\ call.n # root /\ call # NoCall
        /\ UNCHANGED <<root, started, stack, control, stalled>>
    BY <1>a, <1>9 DEF TaskReports, DecoratorReports, BranchRunning, Branches, Decorators, Reports
  <2> QED
    BY <1>a, <1>b, <2>1, RootedOn DEF Rooted, Call
<1>10. CASE TreeRunning
  <2>1. /\ call.n \in Nodes /\ call # NoCall /\ Tell(call.n, "running")
        /\ UNCHANGED <<root, started, control, stalled>>
        /\ call # Call("run", root) /\ stack' = <<Call("unstart", call.n)>> \o stack
    BY <1>10 DEF TreeRunning, Call
  <2>2. CASE call.n = root
    <3>1. call' = NoCall
      BY <1>a, <2>1, <2>2, TellGoesUp DEF Reports
    <3>2. ~stalled
      BY <2>1 DEF Rooted
    <3> QED
      BY <1>a, <2>1, <3>1, <3>2, RootedDone
  <2>3. CASE call.n # root
    <3>1. Call("unstart", call.n) # Call("unstart", root)
      BY <2>3 DEF Call
    <3>2. ~RootUnstarts'
      BY <2>1, <3>1, PushedUnstarts DEF Rooted
    <3> QED
      BY <1>a, <2>1, <3>2, RootedOn
  <2> QED
    BY <2>2, <2>3
<1>11. CASE TreeEnds
  <2>1. /\ call.n \in Nodes /\ call # NoCall /\ call.method \in Reports
        /\ Tell(call.n, call.method)
        /\ UNCHANGED <<root, stack, control, stalled>>
        /\ call # Call("run", root) /\ started' = [started EXCEPT ![call.n] = FALSE]
    BY <1>11 DEF TreeEnds, Call, Reports
  <2>2. CASE call.n = root
    <3>1. call' = NoCall
      BY <1>a, <2>1, <2>2, TellGoesUp
    <3>2. ~stalled
      BY <2>1 DEF Rooted
    <3> QED
      BY <1>a, <2>1, <3>1, <3>2, RootedDone
  <2>3. CASE call.n # root
    <3>1. started'[root] = started[root]
      BY <1>a, <2>1, <2>3 DEF Of
    <3> QED
      BY <1>a, <1>b, <2>1, <3>1, RootedOn DEF Rooted
  <2> QED
    BY <2>2, <2>3
<1>12. CASE Return
  <2>1. /\ call' = NoCall /\ UNCHANGED <<root, control, stalled>> /\ stack # <<>>
        /\ stack' = Tail(stack)
        /\ \/ UNCHANGED started
           \/ /\ Head(stack).method = "unstart"
              /\ started' = [started EXCEPT ![Head(stack).n] = FALSE]
    BY <1>12 DEF Return
  <2>2. stack \in Seq([method : {"clear", "unstart"}, n : Nodes \cup {Nil}])
    BY DEF TypeOK
  <2>3. /\ 1 \in 1..Len(stack) /\ Head(stack) = stack[1]
        /\ \A k \in 1..Len(stack') : k + 1 \in 1..Len(stack) /\ stack'[k] = stack[k + 1]
    BY <2>1, <2>2
  <2>4. ASSUME stalled
        PROVE  ~RootUnstarts' /\ started'[root]
    <3>1. ~RootUnstarts /\ started[root]
      BY <2>4 DEF Rooted
    <3>2. ~RootUnstarts'
      <4>1. \A k \in 1..Len(stack') : stack'[k] # Call("unstart", root)
        BY <2>3, <3>1 DEF RootUnstarts
      <4>2. Call("unstart", root)' = Call("unstart", root)
        BY <2>1 DEF Call
      <4> QED
        BY <4>1, <4>2 DEF RootUnstarts
    <3>3. Head(stack) \in [method : {"clear", "unstart"}, n : Nodes \cup {Nil}]
      <4> DEFINE Frames == [method : {"clear", "unstart"}, n : Nodes \cup {Nil}]
      <4>1. stack \in Seq(Frames) /\ 1 \in 1..Len(stack) /\ Head(stack) = stack[1]
        BY <2>2, <2>3
      <4> HIDE DEF Frames
      <4>2. Head(stack) \in Frames
        BY <4>1, ElementOfSeq
      <4> QED
        BY <4>2 DEF Frames
    <3>4. Head(stack).method = "unstart" => Head(stack).n # root
      BY <2>3, <3>1, <3>3 DEF RootUnstarts, Call
    <3>5. started'[root]
      BY <1>a, <2>1, <3>1, <3>4 DEF Of
    <3> QED
      BY <3>2, <3>5
  <2> QED
    BY <1>a, <2>1, <2>4, RootedDone
<1> QED
  BY <1>1, <1>2, <1>3, <1>4, <1>5, <1>6, <1>7, <1>8, <1>9, <1>10, <1>11, <1>12 DEF Next, Step

\* A report counts once, and a call in progress has not reported to the host.
LEMMA SettledOn ==
  ASSUME TypeOK, Settled, call # NoCall, stalled => stalled',
         ~stalled' /\ globals' # Nil => OnStack("clear")',
         \/ UNCHANGED <<report, reports>>
         \/ call' = NoCall /\ report' \in Reports /\ reports' = reports + 1
  PROVE  Settled'
BY DEF Settled, Reports

\* A report that goes up, or ends the update, leaves the functions as they are.
LEMMA SettledTold ==
  ASSUME TypeOK, Targets, Settled, call # NoCall, NEW n \in Nodes, NEW what \in Reports,
         Tell(n, what), UNCHANGED <<globals, stalled>>, OnStack("clear") => OnStack("clear")'
  PROVE  Settled'
<1>1. \/ UNCHANGED <<report, reports>>
      \/ call' = NoCall /\ report' \in Reports /\ reports' = reports + 1
  BY TellGoesUp
<1> QED
  BY <1>1, SettledOn DEF Settled

\* Who pushes what a caller still has to do keeps what is on the stack.
LEMMA PushedKeeps ==
  ASSUME TypeOK, NEW c, stack' = <<c>> \o stack
  PROVE  /\ OnStack("clear") => OnStack("clear")'
         /\ c.method = "clear" => OnStack("clear")'
<1>1. stack \in Seq([method : {"clear", "unstart"}, n : Nodes \cup {Nil}])
  BY DEF TypeOK
<1>2. Len(stack') = Len(stack) + 1 /\ stack'[1] = c /\ 1 \in 1..Len(stack')
  BY <1>1
<1>3. \A k \in 1..Len(stack) : k + 1 \in 1..Len(stack') /\ stack'[k + 1] = stack[k]
  BY <1>1, <1>2
<1> QED
  BY <1>2, <1>3 DEF OnStack

LEMMA SettledStep ==
  ASSUME TypeOK, Targets, Settled, Next
  PROVE  Settled'
<1> USE CallsNode
<1>a. UNCHANGED stack => (OnStack("clear") => OnStack("clear")')
  BY DEF OnStack
<1>1. CASE Update
  <2>1. /\ call = NoCall /\ stack = <<>> /\ report' = "none" /\ reports' = 0
        /\ UNCHANGED <<globals, stalled>>
    BY <1>1 DEF Update
  <2>2. ~OnStack("clear")
    BY <2>1 DEF OnStack
  <2> QED
    BY <2>1, <2>2 DEF Settled
<1>2. CASE RunStartedTree \/ TaskReports \/ BranchRunning
  <2>1. PICK what \in Reports : Tell(call.n, what)
    BY <1>2, ReportsAreTold DEF RunStartedTree, TaskReports, Reports
  <2>2. /\ call.n \in Nodes /\ call # NoCall /\ UNCHANGED <<stack, globals, stalled>>
    BY <1>2 DEF RunStartedTree, TaskReports, BranchRunning, Reports
  <2> QED
    BY <1>a, <2>1, <2>2, SettledTold
<1>3. CASE DecoratorReports \/ TreeEnds
  <2>1. PICK what \in Reports : Tell(call.n, what)
    BY <1>3, DecoratedReports, ReportsAreTold DEF DecoratorReports, TreeEnds, Reports
  <2>2. /\ call.n \in Nodes /\ call # NoCall /\ UNCHANGED <<stack, globals, stalled>>
    BY <1>3 DEF DecoratorReports, TreeEnds, Reports
  <2> QED
    BY <1>a, <2>1, <2>2, SettledTold
<1>4. CASE TreeRunning
  <2>1. /\ call.n \in Nodes /\ call # NoCall /\ Tell(call.n, "running") /\ "running" \in Reports
        /\ stack' = <<Call("unstart", call.n)>> \o stack /\ UNCHANGED <<globals, stalled>>
    BY <1>4 DEF TreeRunning, Reports
  <2>2. OnStack("clear") => OnStack("clear")'
    BY <2>1, PushedKeeps
  <2> QED
    BY <2>1, <2>2, SettledTold
<1>5. CASE CallRun
  <2>1. /\ call # NoCall /\ stack' = <<Call("clear", Nil)>> \o stack
        /\ UNCHANGED <<stalled, report, reports>>
    BY <1>5 DEF CallRun
  <2>2. OnStack("clear")'
    BY <2>1, PushedKeeps DEF Call
  <2> QED
    BY <2>1, <2>2, SettledOn
<1>6. CASE \/ RunTree \/ RunDecorator \/ RunBranch \/ ResumeBranch \/ RunTask
           \/ BranchGoesOn \/ BranchEnds
  <2>1. /\ call # NoCall /\ UNCHANGED <<stack, globals, stalled, report, reports>>
    BY <1>6 DEF RunTree, RunDecorator, RunBranch, ResumeBranch, RunTask, BranchGoesOn, BranchEnds
  <2> QED
    BY <1>a, <2>1, SettledOn DEF Settled
<1>7. CASE RunNoChild \/ RunSilentTask \/ ResumeNothing \/ RunFaultyTask \/ BranchHasNoNode
  <2>1. /\ call # NoCall /\ stalled' = TRUE /\ UNCHANGED <<report, reports>>
    BY <1>7 DEF RunNoChild, RunSilentTask, ResumeNothing, RunFaultyTask, BranchHasNoNode, LuaError
  <2> QED
    BY <2>1, SettledOn
<1>8. CASE Return
  <2>1. /\ call = NoCall /\ stack # <<>> /\ stack' = Tail(stack)
        /\ UNCHANGED <<call, stalled, report, reports>>
        /\ \/ globals' = Nil
           \/ Head(stack).method = "unstart" /\ UNCHANGED globals
    BY <1>8 DEF Return
  <2>2. stack \in Seq([method : {"clear", "unstart"}, n : Nodes \cup {Nil}])
    BY DEF TypeOK
  <2>3. /\ Head(stack) = stack[1]
        /\ \A k \in 1..Len(stack) : k # 1 =>
             k - 1 \in 1..Len(stack') /\ stack'[k - 1] = stack[k]
    BY <2>1, <2>2
  <2>4. Head(stack).method = "unstart" /\ OnStack("clear") => OnStack("clear")'
    BY <2>3 DEF OnStack
  <2> QED
    BY <2>1, <2>4 DEF Settled
<1> QED
  BY <1>1, <1>2, <1>3, <1>4, <1>5, <1>6, <1>7, <1>8 DEF Next, Step

-----------------------------------------------------------------------------
(* Ways up                                                                 *)

\* The ways that reports can go: every node reports to one that has it as a kid.
Controls ==
  {f \in [Nodes -> Nodes \cup {Nil}] : \A n \in Nodes : f[n] # Nil => n \in Kids(f[n])}

Closed(f, R) == \A y \in R : f[y] # Nil => f[y] \in R

\* The nodes that hear of a report of x, and x itself.
Above(f, x) == {y \in Nodes : \A R \in SUBSET Nodes : x \in R /\ Closed(f, R) => y \in R}

\* What is closed and has x has all that is above x.
LEMMA AboveLeast ==
  ASSUME NEW f, NEW x, NEW R \in SUBSET Nodes, x \in R, Closed(f, R)
  PROVE  Above(f, x) \subseteq R
BY DEF Above

LEMMA AboveClosed ==
  ASSUME NEW f \in [Nodes -> Nodes \cup {Nil}], NEW x \in Nodes
  PROVE  /\ x \in Above(f, x) /\ Above(f, x) \in SUBSET Nodes
         /\ Closed(f, Above(f, x))
<1>1. x \in Above(f, x) /\ Above(f, x) \in SUBSET Nodes
  BY DEF Above
<1>2. ASSUME NEW y \in Above(f, x), f[y] # Nil
      PROVE  f[y] \in Above(f, x)
  <2>1. f[y] \in Nodes
    BY <1>2 DEF Above
  <2>2. ASSUME NEW R \in SUBSET Nodes, x \in R, Closed(f, R)
        PROVE  f[y] \in R
    BY <1>2, <2>2 DEF Above, Closed
  <2> QED
    BY <2>1, <2>2 DEF Above
<1> QED
  BY <1>1, <1>2 DEF Closed

\* Above a node that reports to another are the nodes above that one.
LEMMA AboveNext ==
  ASSUME NEW f \in [Nodes -> Nodes \cup {Nil}], NEW x \in Nodes
  PROVE  Above(f, x) = {x} \cup IF f[x] = Nil THEN {} ELSE Above(f, f[x])
<1> DEFINE R == {x} \cup IF f[x] = Nil THEN {} ELSE Above(f, f[x])
<1>1. CASE f[x] = Nil
  <2>1. R \in SUBSET Nodes /\ x \in R /\ Closed(f, R)
    BY <1>1 DEF Closed
  <2> QED
    BY <1>1, <2>1, AboveLeast, AboveClosed
<1>2. CASE f[x] # Nil
  <2>1. f[x] \in Nodes
    BY <1>2
  <2>2. R \in SUBSET Nodes /\ x \in R /\ Closed(f, R)
    BY <1>2, <2>1, AboveClosed DEF Closed
  <2>3. Above(f, x) \subseteq R
    BY <2>2, AboveLeast
  <2>4. f[x] \in Above(f, x) /\ Closed(f, Above(f, x)) /\ Above(f, x) \in SUBSET Nodes
    BY <1>2, AboveClosed DEF Closed
  <2>5. Above(f, f[x]) \subseteq Above(f, x)
    BY <2>4, AboveLeast
  <2> QED
    BY <1>2, <2>3, <2>5, AboveClosed
<1> QED
  BY <1>1, <1>2

\* What is above a node above x is above x.
LEMMA AboveTransitive ==
  ASSUME NEW f \in [Nodes -> Nodes \cup {Nil}], NEW x \in Nodes, NEW y \in Above(f, x)
  PROVE  y \in Nodes /\ Above(f, y) \subseteq Above(f, x)
BY AboveClosed, AboveLeast

\* The nodes above x are higher.
LEMMA AboveHigher ==
  ASSUME NEW f \in Controls, NEW x \in Nodes, NEW y \in Above(f, x), y # x
  PROVE  Height[y] > Height[x]
<1> DEFINE R == {z \in Nodes : z = x \/ Height[z] > Height[x]}
<1>1. R \in SUBSET Nodes /\ x \in R
  OBVIOUS
<1>2. ASSUME NEW z \in R, f[z] # Nil
      PROVE  f[z] \in R
  <2>1. z \in Nodes /\ f[z] \in Nodes /\ z \in Kids(f[z])
    BY <1>2 DEF Controls
  <2>2. Height[z] < Height[f[z]] /\ Height[z] \in Nat /\ Height[f[z]] \in Nat /\ Height[x] \in Nat
    BY <2>1, HeightAssumption
  <2> QED
    BY <2>1, <2>2
<1> HIDE DEF R
<1>3. y \in R
  BY <1>1, <1>2, AboveLeast DEF Closed
<1> QED
  BY <1>3 DEF R

\* Reports come to a node above x through one of its kids.
LEMMA AboveEntered ==
  ASSUME NEW f \in Controls, NEW x \in Nodes, NEW y \in Above(f, x), y # x
  PROVE  \E z \in Above(f, x) : f[z] = y /\ z \in Kids(y)
<1> f \in [Nodes -> Nodes \cup {Nil}]
  BY DEF Controls
<1> DEFINE R == {x} \cup {v \in Above(f, x) : \E z \in Above(f, x) : f[z] = v}
<1>1. R \in SUBSET Nodes /\ x \in R /\ R \subseteq Above(f, x)
  BY AboveClosed
<1>2. ASSUME NEW z \in R, f[z] # Nil
      PROVE  f[z] \in R
  BY <1>1, <1>2, AboveClosed DEF Closed
<1> HIDE DEF R
<1>3. y \in R
  BY <1>1, <1>2, AboveLeast DEF Closed
<1>4. PICK z \in Above(f, x) : f[z] = y
  BY <1>3 DEF R
<1>5. z \in Nodes /\ y # Nil => z \in Kids(y)
  BY <1>4 DEF Controls, Above
<1>6. y \in Nodes
  BY DEF Above
<1> QED
  BY <1>4, <1>5, <1>6, TreesAssumption DEF Above

\* A kid may be told to report to the node that has it.
LEMMA KidTold ==
  ASSUME NEW f \in Controls, NEW n \in Nodes, NEW k \in Kids(n), k \in Nodes
  PROVE  /\ [f EXCEPT ![k] = n] \in Controls
         /\ [f EXCEPT ![k] = n][k] = n
         /\ \A y \in Nodes : y # k => [f EXCEPT ![k] = n][y] = f[y]
BY DEF Controls

\* Where k is told to report to a node that has it as a kid, nothing changes above
\* that node or any other that is not below k.
LEMMA AboveTold ==
  ASSUME NEW f \in Controls, NEW g \in Controls, NEW n \in Nodes, NEW k \in Kids(n), k \in Nodes,
         g[k] = n, \A y \in Nodes : y # k => g[y] = f[y]
  PROVE  /\ \A x \in Nodes : Height[x] > Height[k] => Above(g, x) = Above(f, x)
         /\ Above(g, k) = {k} \cup Above(f, n)
<1>1. f \in [Nodes -> Nodes \cup {Nil}] /\ g \in [Nodes -> Nodes \cup {Nil}]
  BY DEF Controls
<1>2. \A y \in Nodes : y # k => g[y] = f[y]
  OBVIOUS
<1>3. g[k] = n /\ n # Nil
  BY TreesAssumption
<1>4. ASSUME NEW x \in Nodes, Height[x] > Height[k]
      PROVE  Above(g, x) = Above(f, x)
  <2>1. \A y \in Above(f, x) : y # k /\ y \in Nodes
    <3>1. ASSUME k \in Above(f, x)
          PROVE  FALSE
      <4>1. k # x
        BY <1>4, HeightAssumption
      <4>2. Height[k] > Height[x]
        BY <3>1, <4>1, AboveHigher
      <4> QED
        BY <1>4, <4>2, HeightAssumption
    <3> QED
      BY <3>1 DEF Above
  <2>2. \A y \in Above(g, x) : y # k /\ y \in Nodes
    <3>1. ASSUME k \in Above(g, x)
          PROVE  FALSE
      <4>1. k # x
        BY <1>4, HeightAssumption
      <4>2. Height[k] > Height[x]
        BY <1>1, <3>1, <4>1, AboveHigher
      <4> QED
        BY <1>4, <4>2, HeightAssumption
    <3> QED
      BY <3>1 DEF Above
  <2>3. Above(g, x) \subseteq Above(f, x)
    <3>1. /\ x \in Above(f, x) /\ Closed(f, Above(f, x)) /\ Above(f, x) \in SUBSET Nodes
      BY <1>1, AboveClosed
    <3>2. Closed(g, Above(f, x))
      BY <1>2, <2>1, <3>1 DEF Closed
    <3> QED
      BY <3>1, <3>2, AboveLeast
  <2>4. Above(f, x) \subseteq Above(g, x)
    <3>1. /\ x \in Above(g, x) /\ Closed(g, Above(g, x)) /\ Above(g, x) \in SUBSET Nodes
      BY <1>1, AboveClosed
    <3>2. Closed(f, Above(g, x))
      BY <1>2, <2>2, <3>1 DEF Closed
    <3> QED
      BY <3>1, <3>2, AboveLeast
  <2> QED
    BY <2>3, <2>4
<1>5. Above(g, k) = {k} \cup Above(g, n)
  BY ONLY <1>1, <1>3, k \in Nodes, AboveNext
<1>6. Height[n] > Height[k]
  BY HeightAssumption
<1> QED
  BY <1>4, <1>5, <1>6

\* Of two nodes at the end of the way up of w, both are the same.
LEMMA AboveTop ==
  ASSUME NEW f \in [Nodes -> Nodes \cup {Nil}], NEW w \in Nodes,
         NEW r \in Above(f, w), f[r] = Nil, NEW n \in Above(f, w), f[n] = Nil
  PROVE  n = r
<1> DEFINE R == {z \in Above(f, w) : n \in Above(f, z) /\ r \in Above(f, z)}
<1>1. R \in SUBSET Nodes /\ w \in R
  BY AboveClosed
<1>2. ASSUME NEW z \in R, f[z] # Nil
      PROVE  f[z] \in R
  <2>1. z \in Nodes /\ f[z] \in Above(f, w)
    BY <1>2, <1>1, AboveClosed DEF Closed
  <2>2. Above(f, z) = {z} \cup Above(f, f[z]) /\ z # n /\ z # r
    BY <1>2, <2>1, AboveNext
  <2> QED
    BY <1>2, <2>1, <2>2
<1>3. Above(f, w) \subseteq R
  <2>1. Closed(f, R)
    BY ONLY <1>2 DEF Closed
  <2> HIDE DEF R
  <2> QED
    BY ONLY <1>1, <2>1, AboveLeast
<1>4. n \in R /\ n \in Nodes
  BY <1>1, <1>3
<1>5. r \in Above(f, n)
  BY <1>4
<1>6. Above(f, n) = {n}
  BY <1>4, AboveNext
<1> QED
  BY <1>5, <1>6

\* The way from w up to r: every branch on it is at the node below it, and no
\* other branch is at one.
Way(r, f, at, w) ==
  /\ w \in Nodes /\ r \in Above(f, w)
  /\ \A x \in Above(f, w) : f[x] \in Of(Branches) => at[f[x]] = x
  /\ \A b \in Of(Branches) : at[b] # Nil => at[b] \in Above(f, w) /\ f[at[b]] = b

\* A node above another is not below it, nor is what it reports to.
LEMMA AboveApart ==
  ASSUME NEW f \in Controls, NEW n \in Nodes, NEW y \in Above(f, n)
  PROVE  y \in Nodes /\ f[y] # n /\ Height[y] >= Height[n] /\ (y # n => Height[y] > Height[n])
<1>1. y \in Nodes /\ Height[y] \in Nat /\ Height[n] \in Nat
  BY HeightAssumption DEF Above
<1>2. y # n => Height[y] > Height[n]
  BY AboveHigher
<1>3. Height[y] >= Height[n]
  BY <1>1, <1>2
<1>4. f[y] = n => Height[y] < Height[n]
  BY <1>1, HeightAssumption, TreesAssumption DEF Controls
<1> QED
  BY <1>1, <1>2, <1>3, <1>4

\* A kid that is told to report to a node is below what is above that node.
LEMMA AboveKid ==
  ASSUME NEW f \in Controls, NEW n \in Nodes,
         NEW k \in Kids(n), k \in Nodes, NEW g, g = [f EXCEPT ![k] = n]
  PROVE  Above(g, k) = {k} \cup Above(f, n) /\ \A y \in Above(f, n) : y \in Nodes /\ y # k
<1>b. f \in Controls /\ n \in Nodes /\ k \in Kids(n) /\ k \in Nodes
  OBVIOUS
<1>c. /\ [f EXCEPT ![k] = n] \in Controls /\ [f EXCEPT ![k] = n][k] = n
      /\ \A y \in Nodes : y # k => [f EXCEPT ![k] = n][y] = f[y]
  BY ONLY <1>b, KidTold
<1>a. g \in Controls /\ g[k] = n /\ \A y \in Nodes : y # k => g[y] = f[y]
  BY ONLY <1>c, g = [f EXCEPT ![k] = n]
<1>1. Above(g, k) = {k} \cup Above(f, n)
  BY ONLY <1>a, <1>b, AboveTold
<1>2. Height[k] \in Nat /\ Height[n] \in Nat /\ Height[k] < Height[n]
  BY HeightAssumption
<1>3. \A y \in Above(f, n) : y \in Nodes /\ Height[y] >= Height[n]
  BY AboveApart
<1>4. k \notin Above(f, n)
  <2> SUFFICES ASSUME k \in Above(f, n)
               PROVE  Height[k] >= Height[n]
    BY <1>2
  <2> QED
    BY <1>3
<1> QED
  BY <1>1, <1>3, <1>4

\* The way goes on down to a kid that is told to report to its first node ...
LEMMA WayDown ==
  ASSUME NEW r \in Nodes, NEW f \in Controls, NEW at,
         NEW n \in Nodes \ Of(Branches), NEW k \in Kids(n), k \in Nodes, Way(r, f, at, n)
  PROVE  Way(r, [f EXCEPT ![k] = n], at, k)
<1> DEFINE g == [f EXCEPT ![k] = n]
<1>t. f \in Controls /\ n \in Nodes /\ k \in Kids(n) /\ k \in Nodes
  OBVIOUS
<1>2. g \in Controls /\ g[k] = n /\ \A y \in Nodes : y # k => g[y] = f[y]
  BY ONLY <1>t, KidTold
<1>1. g \in Controls /\ Above(g, k) = {k} \cup Above(f, n)
  <2> HIDE DEF g
  <2> QED
    BY ONLY <1>t, <1>2, AboveTold
<1>a. Height[k] \in Nat /\ Height[n] \in Nat /\ Height[k] < Height[n]
  BY HeightAssumption
<1>3. \A y \in Above(f, n) : y \in Nodes /\ y # k
  <2>1. ASSUME k \in Above(f, n)
        PROVE  FALSE
    <3>1. Height[k] >= Height[n]
      BY <2>1, AboveApart
    <3> QED
      BY <1>a, <3>1
  <2> QED
    BY <2>1, AboveApart
<1> HIDE DEF g
<1>4. \A x \in Above(g, k) : g[x] \in Of(Branches) => at[g[x]] = x
  BY <1>1, <1>2, <1>3 DEF Way
<1>5. \A b \in Of(Branches) : at[b] # Nil => at[b] \in Above(g, k) /\ g[at[b]] = b
  BY <1>1, <1>2, <1>3 DEF Way
<1>6. Way(r, g, at, k)
  BY <1>1, <1>4, <1>5 DEF Way
<1> QED
  BY <1>6 DEF g

\* ... and a branch, which was at none, is at that kid then.
LEMMA WayDownBranch ==
  ASSUME NEW r \in Nodes, NEW f \in Controls,
         NEW at \in [Of(Branches) -> Nodes \cup {Nil}],
         NEW n \in Of(Branches), NEW k \in Kids(n), k \in Nodes, Way(r, f, at, n)
  PROVE  Way(r, [f EXCEPT ![k] = n], [at EXCEPT ![n] = k], k)
<1> n \in Nodes
  BY DEF Of
<1> DEFINE g == [f EXCEPT ![k] = n]
           to == [at EXCEPT ![n] = k]
<1>t. f \in Controls /\ n \in Nodes /\ k \in Kids(n) /\ k \in Nodes
  OBVIOUS
<1>2. g \in Controls /\ g[k] = n /\ \A y \in Nodes : y # k => g[y] = f[y]
  BY ONLY <1>t, KidTold
<1>1. g \in Controls /\ Above(g, k) = {k} \cup Above(f, n)
  <2> HIDE DEF g
  <2> QED
    BY ONLY <1>t, <1>2, AboveTold
<1>3. to[n] = k /\ \A b \in Of(Branches) : b # n => to[b] = at[b]
  OBVIOUS
<1>a. Height[k] \in Nat /\ Height[n] \in Nat /\ Height[k] < Height[n]
  BY HeightAssumption
<1>4. \A y \in Above(f, n) : y \in Nodes /\ y # k /\ f[y] # n
  <2>1. ASSUME k \in Above(f, n)
        PROVE  FALSE
    <3>1. Height[k] >= Height[n]
      BY <2>1, AboveApart
    <3> QED
      BY <1>a, <3>1
  <2> QED
    BY <2>1, AboveApart
<1> HIDE DEF g, to
<1>5. ASSUME NEW x \in Above(g, k), g[x] \in Of(Branches)
      PROVE  to[g[x]] = x
  <2>1. CASE x = k
    BY <1>2, <1>3, <2>1
  <2>2. CASE x \in Above(f, n)
    <3>1. g[x] = f[x] /\ f[x] # n
      BY <1>2, <1>4, <2>2
    <3>2. at[f[x]] = x
      BY <1>5, <2>2, <3>1 DEF Way
    <3> QED
      BY <1>3, <1>5, <3>1, <3>2
  <2> QED
    BY <1>1, <1>5, <2>1, <2>2
<1>6. \A b \in Of(Branches) : to[b] # Nil => to[b] \in Above(g, k) /\ g[to[b]] = b
  BY <1>1, <1>2, <1>3, <1>4 DEF Way
<1>7. Way(r, g, to, k)
  BY <1>1, <1>5, <1>6 DEF Way
<1> QED
  BY <1>7 DEF g, to

\* Where a node has been left, the way starts at what it reports to ...
LEMMA WayUp ==
  ASSUME NEW r \in Nodes, NEW f \in Controls, f[r] = Nil,
         NEW at, NEW w, Way(r, f, at, w), f[w] # Nil, f[w] \notin Of(Branches)
  PROVE  Way(r, f, at, f[w])
<1>1. w \in Nodes /\ f \in [Nodes -> Nodes \cup {Nil}]
  BY DEF Way, Controls
<1>2. Above(f, w) = {w} \cup Above(f, f[w]) /\ f[w] \in Nodes
  BY <1>1, AboveNext
<1>3. r # w
  OBVIOUS
<1>4. \A b \in Of(Branches) : at[b] # Nil => at[b] # w
  BY DEF Way
<1> QED
  BY <1>2, <1>3, <1>4 DEF Way

\* ... and a branch is no longer at that node.
LEMMA WayUpBranch ==
  ASSUME NEW r \in Nodes, NEW f \in Controls, f[r] = Nil,
         NEW at \in [Of(Branches) -> Nodes \cup {Nil}], NEW w, Way(r, f, at, w),
         NEW n \in Of(Branches), f[w] = n
  PROVE  Way(r, f, [at EXCEPT ![n] = Nil], n)
<1> DEFINE to == [at EXCEPT ![n] = Nil]
<1>1. w \in Nodes /\ f \in [Nodes -> Nodes \cup {Nil}] /\ n \in Nodes /\ n # Nil
  BY TreesAssumption DEF Way, Controls, Of
<1>2. Above(f, w) = {w} \cup Above(f, n)
  BY <1>1, AboveNext
<1>3. r # w
  BY <1>1
<1>4. \A y \in Above(f, n) : y \in Nodes /\ f[y] # n
  BY <1>1, AboveApart
<1>5. to[n] = Nil /\ \A b \in Of(Branches) : b # n => to[b] = at[b]
  OBVIOUS
<1> HIDE DEF to
<1>6. \A x \in Above(f, n) : f[x] \in Of(Branches) => to[f[x]] = x
  BY <1>2, <1>4, <1>5 DEF Way
<1>7. \A b \in Of(Branches) : to[b] # Nil => to[b] \in Above(f, n) /\ f[to[b]] = b
  BY <1>2, <1>5 DEF Way
<1>8. Way(r, f, to, n)
  BY <1>1, <1>2, <1>3, <1>6, <1>7 DEF Way
<1> QED
  BY <1>8 DEF to

\* So a branch that is left for its next child is at that one.
LEMMA WayOver ==
  ASSUME NEW r \in Nodes, NEW f \in Controls, f[r] = Nil,
         NEW at \in [Of(Branches) -> Nodes \cup {Nil}], NEW w, Way(r, f, at, w),
         NEW n \in Of(Branches), f[w] = n, NEW k \in Kids(n), k \in Nodes
  PROVE  Way(r, [f EXCEPT ![k] = n], [at EXCEPT ![n] = k], k)
<1> DEFINE left == [at EXCEPT ![n] = Nil]
<1>1. Way(r, f, left, n)
  BY WayUpBranch
<1>2. left \in [Of(Branches) -> Nodes \cup {Nil}]
  OBVIOUS
<1>3. [left EXCEPT ![n] = k] = [at EXCEPT ![n] = k]
  OBVIOUS
<1> HIDE DEF left
<1>4. Way(r, [f EXCEPT ![k] = n], [left EXCEPT ![n] = k], k)
  BY <1>1, <1>2, WayDownBranch
<1> QED
  BY <1>3, <1>4

\* The only kid of a tree or a decorator.
LEMMA OnlyKid ==
  ASSUME NEW n \in Of({"tree"} \cup Decorators)
  PROVE  n \in Nodes \ Of(Branches) /\ Kid(n) \in Nodes \ Roots /\ Kids(n) = {Kid(n)}
<1>1. n \in Nodes /\ Len(kids[n]) = 1 /\ 1..1 = {1}
  BY TreesAssumption DEF Of
<1>2. Kids(n) = {Kid(n)}
  BY <1>1 DEF Kids, Kid
<1>3. n \notin Of(Branches)
  <2>1. class[n] \in {"tree"} \cup Decorators
    BY DEF Of
  <2>2. class[n] \notin Branches
    <3>1. \A kind \in Branches : kind \notin {"tree"} \cup Decorators
      BY DEF Decorators, Branches
    <3> QED
      BY ONLY <2>1, <3>1
  <2> QED
    BY <2>2 DEF Of
<1> QED
  BY <1>1, <1>2, <1>3, KidIsNode

\* A branch without a child on its way goes down to its next one.
LEMMA BranchGoesDown ==
  ASSUME TypeOK, Targets, RunBranch
  PROVE  \E n \in Of(Branches) : \E child \in Kids(n) :
           /\ call = Call("run", n) /\ ~nodeRunning[n] /\ child \in Nodes
           /\ node' = [node EXCEPT ![n] = child]
           /\ control' = [control EXCEPT ![child] = n]
           /\ call' = Call("run", child)
           /\ Start(child, active, actualTask)
           /\ UNCHANGED <<root, stack, started, nodeRunning, globals, stalled>>
<1> PICK n \in Nodes : n = call.n
  BY CallsNode DEF RunBranch
<1>1. n \in Of(Branches) /\ Inner[n] = n
  BY InnerDefined DEF RunBranch, Of, Branches, Decorators
<1>2. actualTask[n] >= 1 /\ actualTask[n] <= Len(kids[n]) /\ actualTask[n] \in Nat
  BY <1>1 DEF RunBranch, Targets, Begun, Of, Branches, TypeOK
<1> PICK child \in Nodes : child = kids[n][actualTask[n]]
  BY <1>1, <1>2, ChildIsNode
<1>3. child \in Kids(n)
  BY <1>2 DEF Kids
<1>4. call = Call("run", n)
  BY DEF RunBranch, TypeOK, Call, NoCall
<1>5. RunChild(n, active, actualTask)
  BY DEF RunBranch
<1>6. /\ node' = [node EXCEPT ![n] = child]
      /\ control' = [control EXCEPT ![child] = n]
      /\ call' = Call("run", child)
      /\ Start(child, active, actualTask)
  BY <1>5 DEF RunChild
<1>7. /\ UNCHANGED <<root, stack, started, nodeRunning, globals, stalled>>
      /\ ~nodeRunning[n]
  BY DEF RunBranch
<1> QED
  BY <1>1, <1>3, <1>4, <1>6, <1>7

\* A branch whose child has ended goes over to its next one.
LEMMA BranchGoesOver ==
  ASSUME TypeOK, BranchGoesOn
  PROVE  \E n \in Of(Branches) : \E child \in Kids(n) :
           /\ call \in {Call("success", n), Call("fail", n)} /\ node[n] # Nil /\ child \in Nodes
           /\ node' = [node EXCEPT ![n] = child]
           /\ control' = [control EXCEPT ![child] = n]
           /\ nodeRunning' = [nodeRunning EXCEPT ![n] = FALSE]
           /\ call' = Call("run", child)
           /\ Start(child, Finish(node[n]), [actualTask EXCEPT ![n] = @ + 1])
           /\ UNCHANGED <<root, stack, started, globals, stalled>>
<1> PICK n \in Nodes : n = call.n
  BY CallsNode DEF BranchGoesOn
<1>1. n \in Of(Branches)
  BY DEF BranchGoesOn, Of
<1> DEFINE moved == [actualTask EXCEPT ![n] = @ + 1]
<1>2. moved[n] \in Nat /\ moved[n] >= 1 /\ moved[n] <= Len(kids[n])
  <2>1. moved[n] = actualTask[n] + 1 /\ actualTask[n] \in Nat
    BY <1>1 DEF TypeOK
  <2>2. moved[n] <= Len(kids[n])
    BY DEF BranchGoesOn
  <2> QED
    BY <2>1, <2>2
<1>5. RunChild(n, Finish(node[n]), moved)
  BY DEF BranchGoesOn
<1>7. /\ UNCHANGED <<root, stack, started, globals, stalled>>
      /\ nodeRunning' = [nodeRunning EXCEPT ![n] = FALSE]
      /\ node[n] # Nil
  BY DEF BranchGoesOn
<1>8. Start(kids[n][moved[n]], Finish(node[n]), moved)
  BY <1>5 DEF RunChild
<1>9. Start(kids[n][moved[n]], Finish(node[n]), [actualTask EXCEPT ![n] = @ + 1])
  BY <1>8
<1> HIDE DEF moved
<1> PICK child \in Nodes : child = kids[n][moved[n]]
  BY <1>1, <1>2, ChildIsNode
<1>3. child \in Kids(n)
  BY <1>2 DEF Kids
<1>4. call \in {Call("success", n), Call("fail", n)}
  BY DEF BranchGoesOn, TypeOK, Call, NoCall
<1>6. /\ node' = [node EXCEPT ![n] = child]
      /\ control' = [control EXCEPT ![child] = n]
      /\ call' = Call("run", child)
  BY <1>5 DEF RunChild
<1> QED
  BY <1>1, <1>3, <1>4, <1>6, <1>7, <1>9

\* A tree or a decorator goes down to its kid.
LEMMA NodeGoesDown ==
  ASSUME TypeOK, RunTree \/ RunDecorator
  PROVE  \E n \in Of({"tree"} \cup Decorators) :
           /\ call = Call("run", n) /\ Kid(n) \in Nodes
           /\ control' = [control EXCEPT ![Kid(n)] = n]
           /\ call' = Call("call_run", Kid(n))
           /\ UNCHANGED <<root, stack, node, nodeRunning, globals, stalled>>
<1> PICK n \in Nodes : n = call.n
  BY CallsNode DEF RunTree, RunDecorator
<1>1. n \in Of({"tree"} \cup Decorators)
  BY DEF RunTree, RunDecorator, Of
<1>2. call = Call("run", n)
  BY DEF RunTree, RunDecorator, TypeOK, Call, NoCall
<1> PICK k \in Nodes : k = Kid(n)
  BY <1>1, OnlyKid
<1>3. /\ control' = [control EXCEPT ![k] = n]
      /\ call' = Call("call_run", k)
      /\ UNCHANGED <<root, stack, node, nodeRunning, globals, stalled>>
  BY DEF RunTree, RunDecorator
<1> QED
  BY <1>1, <1>2, <1>3

LEMMA ControlsStep ==
  ASSUME TypeOK, Targets,
         control \in Controls, Next
  PROVE  control' \in Controls
<1>1. CASE RunTree \/ RunDecorator
  <2>1. PICK n \in Of({"tree"} \cup Decorators) : control' = [control EXCEPT ![Kid(n)] = n]
    BY <1>1, NodeGoesDown
  <2> PICK k \in Kids(n) : k = Kid(n) /\ k \in Nodes /\ n \in Nodes
    BY OnlyKid
  <2> QED
    BY <2>1, KidTold
<1>2. CASE RunBranch \/ BranchGoesOn
  <2> PICK n \in Of(Branches) :
        \E child \in Kids(n) : child \in Nodes /\ control' = [control EXCEPT ![child] = n]
    BY <1>2, BranchGoesDown, BranchGoesOver
  <2>1. PICK child \in Kids(n) : child \in Nodes /\ control' = [control EXCEPT ![child] = n]
    OBVIOUS
  <2> QED
    BY <2>1, KidTold DEF Of
<1>3. ASSUME ~(RunTree \/ RunDecorator \/ RunBranch \/ BranchGoesOn)
      PROVE  UNCHANGED control
  BY <1>3 DEF Next, Step, Update, RunStartedTree, CallRun, RunNoChild, ResumeBranch, ResumeNothing,
              RunTask, RunSilentTask, RunFaultyTask, TaskReports, DecoratorReports, BranchRunning,
              BranchEnds, BranchHasNoNode, TreeRunning, TreeEnds, Return
<1> QED
  BY <1>1, <1>2, <1>3

\* A task hears of no report but its own.
LEMMA TaskIsFirst ==
  ASSUME NEW f \in Controls, NEW w \in Nodes, NEW t \in Tasks, t \in Above(f, w)
  PROVE  t = w
<1>1. t \in Nodes /\ Kids(t) = {}
  <2>1. t \in Nodes /\ kids[t] = <<>>
    BY TreesAssumption DEF Tasks, Of
  <2>2. Len(kids[t]) = 0
    BY <2>1
  <2> QED
    BY <2>1, <2>2 DEF Kids
<1> QED
  BY <1>1, AboveEntered

\* Where a report has come past a tree or a decorator, it was its kid's.
LEMMA CameByKid ==
  ASSUME NEW f \in Controls, NEW w \in Nodes,
         NEW n \in Of({"tree"} \cup Decorators), n \in Above(f, w), n # w
  PROVE  Kid(n) \in Above(f, w) /\ f[Kid(n)] = n /\ [f EXCEPT ![Kid(n)] = n] = f
<1>1. PICK z \in Above(f, w) : f[z] = n /\ z \in Kids(n)
  BY AboveEntered
<1>2. z = Kid(n) /\ z \in Nodes
  BY <1>1, OnlyKid
<1>3. f \in [Nodes -> Nodes \cup {Nil}]
  BY DEF Controls
<1> QED
  BY <1>1, <1>2, <1>3

-----------------------------------------------------------------------------
(* The way that is under way                                               *)

\* Nothing has gone wrong that the properties except.
Strict == OwnReports /\ ~stalled

\* The task w runs on: so do the branches above it, but perhaps those in S.
Resting(f, running, w, S) ==
  w \in Tasks /\ \A b \in Above(f, w) \cap Of(Branches) : b \in S \/ running[b]

\* How the call to be made next lies to the way from w: a node that is run is the
\* end of the way, or above a task that is being resumed; one that is told of an
\* end is just above the node that ended.
Phase(w) ==
  /\ call = NoCall => Resting(control, nodeRunning, w, {})
  /\ call # NoCall => call.n \in Above(control, w)
  /\ call.method \in {"run", "call_run"} =>
       \/ w = call.n
       \/ Resting(control, nodeRunning, w, Above(control, call.n) \ {call.n})
  /\ call.method \in {"success", "fail"} => (w = call.n /\ w \in Tasks) \/ control[w] = call.n
  /\ call.method = "running" => Resting(control, nodeRunning, w, Above(control, call.n))

NothingOn == call = NoCall /\ \A b \in Of(Branches) : node[b] = Nil
SomethingOn == \E w \in Nodes : Way(root, control, node, w) /\ Phase(w)

\* The branches that are at a child lie on one way up to the tree of the host.
Path == Strict => NothingOn \/ SomethingOn

\* A branch that is to run on is at a child.
Kept == Strict => \A b \in Of(Branches) : nodeRunning[b] => node[b] # Nil

Unstarts(n) == \E k \in 1..Len(stack) : stack[k] = Call("unstart", n)

\* A tree is started as long as something runs in it, and then until its caller
\* has come back.
Started ==
  Strict =>
    /\ call # NoCall /\ call.method # "running" => \A n \in Of({"tree"}) : ~Unstarts(n)
    /\ \A n \in Of({"tree"}) : started[n] =>
         \/ Unstarts(n)
         \/ /\ call # NoCall /\ n \in Above(control, call.n)
            /\ call.method \in {"run", "call_run"} => n # call.n

\* The global functions are those of the task that is run, or of its branch.
OwnControl == \A x \in Nodes : control[x] # Nil => Under[control[x]] = Under[root]
OwnCall ==
  \/ call \in {NoCall, Call("run", root)}
  \/ /\ Under[call.n] = Under[root]
     /\ \/ call.method = "run"
        \/ call.n = Under[root] /\ call.method \in {"success", "fail"}
        => globals = call.n
  \/ /\ Under[root] \in Of(Branches) /\ globals = Under[root]
     /\ call.method = "run" /\ call.n \in Kids(Under[root])
     /\ control[call.n] = Under[root]
Own == root \in Globals /\ OwnReports => OwnControl /\ OwnCall

\* A branch is at the task t, or at a decorator of it.
UnderWay(t) == \E b \in Of(Branches) : node[b] # Nil /\ Inner[node[b]] = t

\* A task of a branch is started once while its branch is at it.
Counted ==
  OwnReports => \A t \in Tasks \ {Inner[Kid(n)] : n \in Of({"tree"})} :
    IF stalled THEN active[t] \in {0, 1}
    ELSE active[t] = IF UnderWay(t) THEN 1 ELSE 0

PInv == control \in Controls /\ Path /\ Kept /\ Started /\ Own /\ Counted

LEMMA RestsOn ==
  ASSUME NEW f, NEW w, NEW running, NEW S, Resting(f, running, w, S), NEW still, NEW T,
         \A b \in Above(f, w) \cap Of(Branches) :
           b \in S \/ running[b] => b \in T \/ still[b]
  PROVE  Resting(f, still, w, T)
BY DEF Resting

\* A resumption goes down by one node.
LEMMA RestsBelow ==
  ASSUME NEW f \in Controls, NEW running, NEW w \in Nodes,
         NEW z \in Above(f, w), NEW n \in Nodes, f[z] = n,
         w = n \/ Resting(f, running, w, Above(f, n) \ {n})
  PROVE  w = z \/ Resting(f, running, w, Above(f, z) \ {z})
<1>1. z \in Nodes /\ f \in [Nodes -> Nodes \cup {Nil}] /\ n # Nil
  BY TreesAssumption DEF Above, Controls
<1>2. Above(f, z) = {z} \cup Above(f, n)
  BY <1>1, AboveNext
<1>a. \A y \in Above(f, n) : f[y] # n
  BY AboveApart
<1>3. \A y \in Above(f, n) : y # z
  BY <1>a
<1>4. w # n
  BY <1>1, AboveApart
<1>5. Resting(f, running, w, Above(f, z) \ {z})
  BY <1>2, <1>3, <1>4, RestsOn
<1> QED
  BY <1>5

\* The report of what runs on goes up, or back to the host.
LEMMA ToldRunning ==
  ASSUME TypeOK, Targets, control \in Controls, control[root] = Nil,
         NEW w \in Nodes, Way(root, control, node, w),
         NEW n \in Above(control, w), Resting(control, nodeRunning, w, Above(control, n)),
         Tell(n, "running"), UNCHANGED <<root, control, node>>,
         \A b \in Of(Branches) : (nodeRunning[b] => nodeRunning'[b]) /\ (b = n => nodeRunning'[b])
  PROVE  SomethingOn'
<1>1. n \in Nodes /\ control \in [Nodes -> Nodes \cup {Nil}] /\ "running" \in Reports
  BY DEF Above, Controls, Reports
<1>2. Way(root, control, node, w)'
  BY DEF Way
<1>3. CASE control[n] # Nil
  <2> PICK c \in Nodes : c = control[n]
    BY <1>1, <1>3
  <2>1. call' = Call("running", c)
    BY <1>1, <1>3, TellGoesUp
  <2>2. Above(control, n) = {n} \cup Above(control, c) /\ c \in Above(control, w)
    BY <1>1, <1>3, AboveNext, AboveClosed DEF Closed
  <2>3. Resting(control, nodeRunning', w, Above(control, c))
    BY <2>2, RestsOn
  <2>4. Phase(w)'
    BY <2>1, <2>2, <2>3 DEF Phase, Call, NoCall
  <2> QED
    BY <1>2, <2>4 DEF SomethingOn
<1>4. CASE control[n] = Nil
  <2>1. call' = NoCall
    BY <1>1, <1>4, TellGoesUp
  <2>a. Above(control, n) = {n} \cup {}
    BY <1>1, <1>4, AboveNext, Zenon
  <2>2. Above(control, n) = {n}
    BY <2>a
  <2>3. Resting(control, nodeRunning', w, {})
    BY <2>2, RestsOn
  <2>4. Phase(w)'
    BY <2>1, <2>3 DEF Phase, NoCall
  <2> QED
    BY <1>2, <2>4 DEF SomethingOn
<1> QED
  BY <1>3, <1>4

\* So does the report of what has ended, and then nothing is under way.
LEMMA ToldEnd ==
  ASSUME TypeOK, Targets, control \in Controls, control[root] = Nil,
         NEW w \in Nodes, Way(root, control, node, w),
         NEW n \in Nodes \ Of(Branches), control[w] = n, NEW what \in {"success", "fail"},
         Tell(n, what), UNCHANGED <<root, control, node>>
  PROVE  NothingOn' \/ SomethingOn'
<1>1. control \in [Nodes -> Nodes \cup {Nil}] /\ what \in Reports /\ n # Nil /\ root \in Nodes
  BY TreesAssumption DEF Controls, Reports, TypeOK, Of
<1>2. Way(root, control, node, n)
  BY <1>1, WayUp
<1>3. CASE control[n] # Nil
  <2> PICK c \in Nodes : c = control[n]
    BY <1>1, <1>3
  <2>1. call' = Call(what, c)
    BY <1>1, <1>3, TellGoesUp
  <2>2. c \in Above(control, n)
    BY <1>1, <1>3, AboveClosed DEF Closed
  <2>3. Phase(n)'
    BY <2>1, <2>2 DEF Phase, Call, NoCall
  <2>4. Way(root, control, node, n)'
    BY <1>2 DEF Way
  <2> QED
    BY <2>3, <2>4 DEF SomethingOn
<1>4. CASE control[n] = Nil
  <2>1. call' = NoCall
    BY <1>1, <1>4, TellGoesUp
  <2>2. Above(control, n) = {n}
    BY <1>1, <1>4, AboveNext
  <2>3. \A b \in Of(Branches) : node[b] = Nil
    BY <1>1, <1>2, <1>4, <2>2, TreesAssumption DEF Way, Of
  <2> QED
    BY <2>1, <2>3 DEF NothingOn
<1> QED
  BY <1>3, <1>4

\* What never changes in a step, or only one way.
LEMMA Constant ==
  ASSUME TypeOK, Next
  PROVE  /\ UNCHANGED root /\ (stalled => stalled')
         /\ OwnReports' = OwnReports /\ (Strict' => Strict)
<1>1. UNCHANGED root /\ (stalled => stalled')
  BY DEF TypeOK, Next, Step, Update, RunStartedTree, RunTree, CallRun, RunDecorator, RunNoChild,
         RunBranch, ResumeBranch, ResumeNothing, RunTask, RunSilentTask, RunFaultyTask, LuaError,
         TaskReports, DecoratorReports, BranchRunning, BranchGoesOn, BranchEnds, BranchHasNoNode,
         TreeRunning, TreeEnds, Return
<1> QED
  BY <1>1 DEF OwnReports, Strict

\* What a task calls is its own method, or that of the branch it reports to.
LEMMA OwnTask ==
  ASSUME TypeOK, Targets, Own, OwnReports, RunTask
  PROVE  \E n \in Tasks : \E what \in Reports :
           /\ call = Call("run", n) /\ control[n] # Nil
           /\ \/ call' = Call(what, n)
              \/ /\ root \in Globals /\ control[n] = Under[root] /\ Under[root] \in Of(Branches)
                 /\ call' = Call(what, Under[root])
<1> PICK n \in Nodes : n = call.n
  BY CallsNode DEF RunTask
<1>1. n \in Tasks /\ call = Call("run", n)
  BY DEF RunTask, Tasks, Of, TypeOK, Call, NoCall
<1>2. n # root /\ control[n] # Nil
  BY <1>1, TreesAssumption DEF TypeOK, Tasks, Of, Targets, Reporting, Call, NoCall
<1>3. PICK what \in Reports : call' = Call(what, IF root \in Globals THEN globals ELSE n)
  BY DEF RunTask
<1>4. CASE root \notin Globals
  BY <1>1, <1>2, <1>3, <1>4
<1>5. CASE root \in Globals
  <2>1. \/ globals = n
        \/ globals = Under[root] /\ Under[root] \in Of(Branches) /\ control[n] = Under[root]
    BY <1>1, <1>2, <1>5 DEF Own, OwnCall, Call, NoCall
  <2> QED
    BY <1>1, <1>2, <1>3, <1>5, <2>1
<1> QED
  BY <1>4, <1>5

\* The tree of the host is started anew in each update.
LEMMA NoStartedTree ==
  ASSUME TypeOK, Started, Strict, RunStartedTree
  PROVE  FALSE
<1>1. call.method = "run" /\ started[call.n] /\ call.n \in Of({"tree"}) /\ call # NoCall
  BY CallsNode DEF RunStartedTree, Of
<1> QED
  BY <1>1 DEF Started

\* The report of a node is told it while the way is as Phase says.
LEMMA PathStep ==
  ASSUME TypeOK, Targets, Rooted,
         control \in Controls, Path, Kept, Started, Own, Next
  PROVE  Path'
<1> SUFFICES ASSUME Strict'
             PROVE  NothingOn' \/ SomethingOn'
  BY DEF Path
<1>a. Strict /\ UNCHANGED root /\ control[root] = Nil /\ root \in Nodes
  BY Constant, TreesAssumption DEF Rooted, TypeOK, Of
<1>b. control \in [Nodes -> Nodes \cup {Nil}] /\ node \in [Of(Branches) -> Nodes \cup {Nil}]
  BY DEF TypeOK
<1>f. control' \in [Nodes -> Nodes \cup {Nil}]
  BY ControlsStep DEF Controls
<1>1. CASE Update
  <2>1. call = NoCall /\ call' = Call("run", root) /\ UNCHANGED <<node, nodeRunning, control>>
    BY <1>1 DEF Update
  <2>2. Above(control, root) = {root}
    <3>1. Above(control, root) = {root} \cup {}
      BY <1>a, <1>b, AboveNext, Zenon
    <3> QED
      BY <3>1
  <2>3. CASE NothingOn
    <3>1. Way(root, control, node, root)
      BY <1>a, <2>2, <2>3, TreesAssumption DEF Way, NothingOn, Of
    <3>2. Way(root, control, node, root)'
      BY <1>a, <2>1, <3>1 DEF Way
    <3>3. Phase(root)'
      BY <1>a, <2>1, <2>2 DEF Phase, Call, NoCall
    <3> QED
      BY <1>a, <3>2, <3>3 DEF SomethingOn
  <2>4. CASE SomethingOn
    <3> PICK w \in Nodes : Way(root, control, node, w) /\ Phase(w)
      BY <2>4 DEF SomethingOn
    <3>1. Resting(control, nodeRunning, w, Above(control, root) \ {root})
      BY <2>1, RestsOn DEF Phase
    <3>2. Phase(w)'
      BY <1>a, <2>1, <3>1 DEF Phase, Way, Call, NoCall
    <3>3. Way(root, control, node, w)'
      BY <1>a, <2>1 DEF Way
    <3> QED
      BY <3>2, <3>3 DEF SomethingOn
  <2> QED
    BY <1>a, <2>3, <2>4 DEF Path
<1>2. CASE Return
  <2>1. /\ call = NoCall /\ UNCHANGED <<call, node, nodeRunning, control>>
    BY <1>2 DEF Return
  <2>2. NothingOn => NothingOn'
    BY <2>1 DEF NothingOn
  <2>3. ASSUME NEW w \in Nodes, Way(root, control, node, w), Phase(w)
        PROVE  Way(root, control, node, w)' /\ Phase(w)'
    BY <1>a, <2>1, <2>3 DEF Way, Phase
  <2>4. SomethingOn => SomethingOn'
    BY <2>3 DEF SomethingOn
  <2> QED
    BY <1>a, <2>2, <2>4 DEF Path
<1>c. ASSUME ~Update, ~Return
      PROVE  call # NoCall /\ call.n \in Nodes
  BY <1>c, CallsNode DEF Next, Step, RunStartedTree, RunTree, CallRun, RunDecorator, RunNoChild,
         RunBranch, ResumeBranch, ResumeNothing, RunTask, RunSilentTask, RunFaultyTask,
         TaskReports, DecoratorReports, BranchRunning, BranchGoesOn, BranchEnds, BranchHasNoNode,
         TreeRunning, TreeEnds, Reports
<1> SUFFICES ASSUME ~Update, ~Return
             PROVE  NothingOn' \/ SomethingOn'
  BY <1>1, <1>2
<1> PICK n \in Nodes : n = call.n
  BY <1>c
<1> PICK w \in Nodes : Way(root, control, node, w) /\ Phase(w)
  BY <1>a, <1>c DEF Path, NothingOn, SomethingOn
<1>d. n \in Above(control, w)
  BY <1>c DEF Phase
<1>3. CASE RunStartedTree
  BY <1>3, <1>a, NoStartedTree
<1>4. CASE RunTree \/ RunDecorator
  <2>a. PICK m \in Of({"tree"} \cup Decorators) :
          /\ call = Call("run", m) /\ Kid(m) \in Nodes
          /\ control' = [control EXCEPT ![Kid(m)] = m]
          /\ call' = Call("call_run", Kid(m))
          /\ UNCHANGED <<root, stack, node, nodeRunning, globals, stalled>>
    BY <1>4, NodeGoesDown, Zenon
  <2>b. m = n
    BY <2>a DEF Call
  <2> PICK k \in Kids(n) : k = Kid(n) /\ k \in Nodes /\ n \in Nodes \ Of(Branches)
    BY <2>b, OnlyKid
  <2>1. /\ n \in Of({"tree"} \cup Decorators)
        /\ call = Call("run", n) /\ control' = [control EXCEPT ![k] = n]
        /\ call' = Call("call_run", k)
        /\ UNCHANGED <<root, node, nodeRunning>>
    BY <2>a, <2>b
  <2>2. CASE w = n
    <3>1. Way(root, control', node, k)
      BY <1>a, <2>1, <2>2, WayDown
    <3>2. k \in Above(control', k)
      BY <1>f, AboveClosed
    <3>3. Phase(k)'
      BY <2>1, <3>2 DEF Phase, Call, NoCall
    <3>4. Way(root, control, node, k)'
      BY <2>1, <3>1 DEF Way
    <3> QED
      BY <3>3, <3>4 DEF SomethingOn
  <2>3. CASE w # n
    <3>1. k \in Above(control, w) /\ control[k] = n /\ control' = control
      <4>1. /\ Kid(n) \in Above(control, w) /\ control[Kid(n)] = n
            /\ [control EXCEPT ![Kid(n)] = n] = control
        BY <1>d, <2>1, <2>3, CameByKid
      <4> QED
        BY <2>1, <4>1
    <3>2. w = k \/ Resting(control, nodeRunning, w, Above(control, k) \ {k})
      <4>1. w = n \/ Resting(control, nodeRunning, w, Above(control, n) \ {n})
        BY <2>1 DEF Phase, Call
      <4> QED
        BY <3>1, <4>1, RestsBelow
    <3>3. Phase(w)'
      BY <2>1, <3>1, <3>2 DEF Phase, Call, NoCall
    <3>4. Way(root, control, node, w)'
      BY <2>1, <3>1 DEF Way
    <3> QED
      BY <3>3, <3>4 DEF SomethingOn
  <2> QED
    BY <2>2, <2>3
<1>5. CASE CallRun
  <2>1. /\ call.method = "call_run" /\ call' = Call("run", n)
        /\ UNCHANGED <<root, node, nodeRunning, control>>
    BY <1>5 DEF CallRun
  <2>2. Phase(w)'
    BY <1>d, <2>1 DEF Phase, Call, NoCall
  <2>3. Way(root, control, node, w)'
    BY <2>1 DEF Way
  <2> QED
    BY <2>2, <2>3 DEF SomethingOn
<1>6. CASE RunBranch
  <2>a. PICK m \in Of(Branches) : \E child \in Kids(m) :
          /\ call = Call("run", m) /\ ~nodeRunning[m] /\ child \in Nodes
          /\ node' = [node EXCEPT ![m] = child]
          /\ control' = [control EXCEPT ![child] = m]
          /\ call' = Call("run", child)
    BY <1>6, BranchGoesDown, Zenon
  <2>b. m = n
    BY <2>a DEF Call
  <2>1. PICK child \in Kids(n) :
          /\ n \in Of(Branches) /\ call = Call("run", n) /\ ~nodeRunning[n] /\ child \in Nodes
          /\ node' = [node EXCEPT ![n] = child]
          /\ control' = [control EXCEPT ![child] = n]
          /\ call' = Call("run", child)
    BY <2>a, <2>b
  <2>2. w = n
    BY <1>d, <2>1 DEF Phase, Call, Resting
  <2>3. Way(root, control', node', child)
    BY <1>a, <1>b, <2>1, <2>2, WayDownBranch
  <2>c. child \in Above(control', child)
    BY <1>f, <2>1, AboveClosed
  <2>4. Phase(child)'
    BY <2>1, <2>c DEF Phase, Call, NoCall
  <2> QED
    BY <1>a, <2>1, <2>3, <2>4 DEF SomethingOn, Way
<1>7. CASE ResumeBranch
  <2>1. /\ n \in Of(Branches) /\ call.method = "run" /\ node[n] # Nil
        /\ call' = Call("run", node[n])
        /\ UNCHANGED <<root, node, nodeRunning, control>>
    BY <1>7 DEF ResumeBranch, Of
  <2> PICK z \in Nodes : z = node[n]
    BY <1>b, <2>1
  <2>2. z \in Above(control, w) /\ control[z] = n
    BY <2>1 DEF Way
  <2>3. w = z \/ Resting(control, nodeRunning, w, Above(control, z) \ {z})
    <3>1. w = n \/ Resting(control, nodeRunning, w, Above(control, n) \ {n})
      BY <2>1 DEF Phase
    <3> QED
      BY <2>2, <3>1, RestsBelow
  <2>4. Phase(w)'
    BY <2>1, <2>2, <2>3 DEF Phase, Call, NoCall
  <2>5. Way(root, control, node, w)'
    BY <2>1 DEF Way
  <2> QED
    BY <2>4, <2>5 DEF SomethingOn
<1>8. CASE RunNoChild \/ ResumeNothing \/ RunSilentTask \/ RunFaultyTask \/ BranchHasNoNode
  BY <1>8 DEF RunNoChild, ResumeNothing, RunSilentTask, RunFaultyTask, BranchHasNoNode, LuaError,
              Strict
<1>9. CASE RunTask
  <2>a. PICK m \in Tasks : \E what \in Reports :
          /\ call = Call("run", m) /\ control[m] # Nil
          /\ \/ call' = Call(what, m)
             \/ /\ root \in Globals /\ control[m] = Under[root]
                /\ Under[root] \in Of(Branches) /\ call' = Call(what, Under[root])
    <3>1. OwnReports
      BY <1>a DEF Strict
    <3> QED
      BY <1>9, <3>1, OwnTask, Zenon
  <2>b. m = n
    BY <2>a DEF Call
  <2>1. PICK what \in Reports :
          /\ n \in Tasks /\ control[n] # Nil
          /\ \/ call' = Call(what, n)
             \/ control[n] \in Of(Branches) /\ call' = Call(what, control[n])
    BY <2>a, <2>b
  <2>2. w = n
    BY <1>d, <2>1, TaskIsFirst
  <2>3. UNCHANGED <<root, node, nodeRunning, control>>
    BY <1>9 DEF RunTask
  <2>4. Way(root, control, node, w)'
    BY <2>3 DEF Way
  <2>5. Above(control, n) = {n} \cup Above(control, control[n])
        /\ control[n] \in Above(control, n)
    BY <1>b, <2>1, AboveNext, AboveClosed DEF Closed
  <2>6. /\ Resting(control, nodeRunning, w, Above(control, n))
        /\ Resting(control, nodeRunning, w, Above(control, control[n]))
    BY <2>1, <2>2, <2>5 DEF Resting, Tasks, Of, Branches
  <2>7. Phase(w)'
    <3>1. CASE call' = Call(what, n)
      BY <1>d, <2>1, <2>2, <2>3, <2>6, <3>1 DEF Phase, Call, NoCall, Reports
    <3>2. CASE call' = Call(what, control[n])
      BY <1>d, <2>1, <2>2, <2>3, <2>5, <2>6, <3>2 DEF Phase, Call, NoCall, Reports
    <3> QED
      BY <2>1, <3>1, <3>2
  <2> QED
    BY <2>4, <2>7 DEF SomethingOn
<1>10. CASE (TaskReports \/ DecoratorReports \/ BranchRunning \/ TreeRunning)
            /\ call.method = "running"
  <2>1. Tell(n, "running") /\ UNCHANGED <<root, control, node>>
    BY <1>10, ReportsAreTold
       DEF TaskReports, DecoratorReports, Decorated, BranchRunning, TreeRunning
  <2>2. \A b \in Of(Branches) :
          (nodeRunning[b] => nodeRunning'[b]) /\ (b = n => nodeRunning'[b])
    BY <1>10 DEF TaskReports, DecoratorReports, BranchRunning, TreeRunning, Of, Branches, Decorators,
                 TypeOK
  <2>3. Resting(control, nodeRunning, w, Above(control, n))
    BY <1>10 DEF Phase
  <2> QED
    BY <1>a, <1>d, <2>1, <2>2, <2>3, ToldRunning
<1>11. CASE (TaskReports \/ DecoratorReports \/ TreeEnds) /\ call.method # "running"
  <2>1. PICK what \in {"success", "fail"} : Tell(n, what)
    <3>1. CASE TaskReports \/ TreeEnds
      BY <1>11, <3>1 DEF TaskReports, TreeEnds, Reports
    <3>2. CASE DecoratorReports
      <4>1. Tell(n, Decorated(class[n], call.method)) /\ class[n] \in Decorators
        BY <3>2, ReportsAreTold DEF DecoratorReports
      <4>2. Decorated(class[n], call.method) \in {"success", "fail"}
        BY <1>11, <4>1 DEF Decorated, Decorators
      <4> QED
        BY <4>1, <4>2
    <3> QED
      BY <1>11, <3>1, <3>2
  <2>2. UNCHANGED <<root, control, node>> /\ call.method \in {"success", "fail"}
        /\ n \notin Of(Branches)
    BY <1>11 DEF TaskReports, DecoratorReports, TreeEnds, Reports, Of, Branches, Decorators
  <2>3. CASE control[w] = n
    BY <1>a, <2>1, <2>2, <2>3, ToldEnd
  <2>4. CASE w = n /\ w \in Tasks
    <3> PICK c \in Nodes : c = control[n]
      BY <1>b, <1>c, <2>4 DEF Targets, Reporting, Tasks, Of
    <3>1. c # Nil /\ what \in Reports
      BY TreesAssumption DEF Reports
    <3>2. call' = Call(what, c) /\ c \in Above(control, w)
      BY <1>b, <2>1, <2>4, <3>1, TellGoesUp, AboveClosed DEF Closed
    <3>3. Phase(w)'
      BY <2>1, <2>2, <2>4, <3>2 DEF Phase, Call, NoCall
    <3>4. Way(root, control, node, w)'
      BY <2>2 DEF Way
    <3> QED
      BY <3>3, <3>4 DEF SomethingOn
  <2> QED
    BY <2>2, <2>3, <2>4 DEF Phase
<1>12. CASE BranchGoesOn
  <2>a. PICK m \in Of(Branches) : \E child \in Kids(m) :
          /\ call \in {Call("success", m), Call("fail", m)} /\ child \in Nodes
          /\ node' = [node EXCEPT ![m] = child]
          /\ control' = [control EXCEPT ![child] = m]
          /\ call' = Call("run", child)
    BY <1>12, BranchGoesOver, Zenon
  <2>b. m = n /\ call.method \in {"success", "fail"}
    BY <2>a DEF Call
  <2>1. PICK child \in Kids(n) :
          /\ n \in Of(Branches) /\ call.method \in {"success", "fail"} /\ child \in Nodes
          /\ node' = [node EXCEPT ![n] = child]
          /\ control' = [control EXCEPT ![child] = n]
          /\ call' = Call("run", child)
    BY <2>a, <2>b
  <2>2. control[w] = n
    BY <2>1 DEF Phase, Tasks, Of, Branches
  <2>3. Way(root, control', node', child)
    BY <1>a, <1>b, <2>1, <2>2, WayOver
  <2>c. child \in Above(control', child)
    BY <1>f, <2>1, AboveClosed
  <2>4. Phase(child)'
    BY <2>1, <2>c DEF Phase, Call, NoCall
  <2> QED
    BY <1>a, <2>1, <2>3, <2>4 DEF SomethingOn, Way
<1>13. CASE BranchEnds
  <2>1. PICK what \in {"success", "fail"} :
          /\ n \in Of(Branches) /\ call.method \in {"success", "fail"}
          /\ node' = [node EXCEPT ![n] = Nil]
          /\ call' = Call(what, control[n]) /\ UNCHANGED control
    BY <1>13 DEF BranchEnds, Of
  <2>2. control[w] = n
    BY <2>1 DEF Phase, Tasks, Of, Branches
  <2>3. Way(root, control, node', n)
    BY <1>a, <1>b, <2>1, <2>2, WayUpBranch
  <2> PICK c \in Nodes : c = control[n]
    BY <1>b, <1>c, <2>1 DEF Targets, Reporting, Of, Branches
  <2>4. c \in Above(control, n) /\ c # Nil
    BY <1>b, AboveClosed, TreesAssumption DEF Closed
  <2>5. Phase(n)'
    BY <2>1, <2>4 DEF Phase, Call, NoCall
  <2> QED
    BY <1>a, <2>1, <2>3, <2>5 DEF SomethingOn, Way
<1>e. ASSUME TaskReports \/ DecoratorReports \/ BranchRunning \/ TreeRunning \/ TreeEnds
      PROVE  /\ (BranchRunning \/ TreeRunning) => call.method = "running"
             /\ TreeEnds => call.method # "running"
  BY <1>e DEF BranchRunning, TreeRunning, TreeEnds
<1> QED
  BY <1>3, <1>4, <1>5, <1>6, <1>7, <1>8, <1>9, <1>10, <1>11, <1>12, <1>13, <1>e DEF Next, Step

\* A branch that hears a report is at a child.
LEMMA ReportsToBranch ==
  ASSUME control \in Controls, Path, Strict,
         call # NoCall, call.method \in Reports, NEW n \in Of(Branches), call.n = n
  PROVE  \E w \in Nodes : Way(root, control, node, w) /\ n \in Above(control, w) /\ n # w
                          /\ node[n] # Nil /\ (call.method # "running" => control[w] = n)
<1> PICK w \in Nodes : Way(root, control, node, w) /\ Phase(w)
  BY DEF Path, NothingOn, SomethingOn
<1>1. n \in Above(control, w) /\ n \in Nodes
  BY DEF Phase, Of
<1>2. n \notin Tasks
  BY DEF Tasks, Of, Branches
<1>3. CASE call.method = "running"
  <2>1. w # n
    BY <1>2, <1>3 DEF Phase, Resting
  <2>2. PICK z \in Above(control, w) : control[z] = n
    BY <1>1, <2>1, AboveEntered
  <2>a. z \in Nodes
    BY DEF Above
  <2>3. node[n] = z /\ z \in Nodes
    BY <2>2, <2>a DEF Way
  <2> QED
    BY <1>1, <1>3, <2>1, <2>3, TreesAssumption
<1>4. CASE call.method \in {"success", "fail"}
  <2>1. control[w] = n
    BY <1>2, <1>4 DEF Phase
  <2>2. w \in Above(control, w)
    BY AboveClosed DEF Controls
  <2>3. node[n] = w
    BY <2>1, <2>2 DEF Way
  <2>4. n # w
    BY <1>1, <2>1, <2>2, AboveApart
  <2> QED
    BY <1>1, <1>4, <2>1, <2>3, <2>4, TreesAssumption
<1> QED
  BY <1>3, <1>4 DEF Reports

LEMMA KeptStep ==
  ASSUME TypeOK, Targets,
         control \in Controls, Path, Kept, Next
  PROVE  Kept'
<1> SUFFICES ASSUME Strict', NEW b \in Of(Branches), nodeRunning'[b]
             PROVE  node'[b] # Nil
  BY DEF Kept
<1>a. Strict
  BY Constant
<1>b. /\ node \in [Of(Branches) -> Nodes \cup {Nil}] /\ nodeRunning \in [Of(Branches) -> BOOLEAN]
      /\ Nil \notin Nodes /\ (nodeRunning[b] => node[b] # Nil)
  BY <1>a, TreesAssumption DEF TypeOK, Kept
<1>1. CASE RunBranch
  <2>1. PICK n \in Of(Branches) : \E child \in Kids(n) : child \in Nodes
          /\ node' = [node EXCEPT ![n] = child] /\ UNCHANGED nodeRunning
    BY <1>1, BranchGoesDown
  <2> QED
    BY <1>b, <2>1
<1>2. CASE BranchGoesOn
  <2>1. PICK n \in Of(Branches) : \E child \in Kids(n) : child \in Nodes
          /\ node' = [node EXCEPT ![n] = child]
          /\ nodeRunning' = [nodeRunning EXCEPT ![n] = FALSE]
    BY <1>2, BranchGoesOver
  <2> QED
    BY <1>b, <2>1
<1>3. CASE BranchRunning
  <2> PICK n \in Of(Branches) : n = call.n
    BY <1>3, CallsNode DEF BranchRunning, Of
  <2>1. /\ nodeRunning' = [nodeRunning EXCEPT ![n] = TRUE] /\ UNCHANGED node
        /\ call # NoCall /\ call.method \in Reports
    BY <1>3, CallsNode DEF BranchRunning, Reports
  <2>2. node[n] # Nil
    BY <1>a, <2>1, ReportsToBranch
  <2> QED
    BY <1>b, <2>1, <2>2
<1>4. CASE BranchEnds
  <2> PICK n \in Of(Branches) : n = call.n
    BY <1>4, CallsNode DEF BranchEnds, Reports, Of
  <2>1. /\ nodeRunning' = [nodeRunning EXCEPT ![n] = FALSE] /\ node' = [node EXCEPT ![n] = Nil]
    BY <1>4 DEF BranchEnds
  <2> QED
    BY <1>b, <2>1
<1>5. CASE BranchHasNoNode
  BY <1>5 DEF BranchHasNoNode, LuaError, Strict
<1>6. ASSUME ~(RunBranch \/ BranchGoesOn \/ BranchRunning \/ BranchEnds \/ BranchHasNoNode)
      PROVE  UNCHANGED <<node, nodeRunning>>
  BY <1>6 DEF Next, Step, Update, RunStartedTree, RunTree, CallRun, RunDecorator, RunNoChild,
              ResumeBranch, ResumeNothing, RunTask, RunSilentTask, RunFaultyTask, TaskReports,
              DecoratorReports, TreeRunning, TreeEnds, Return
<1> QED
  BY <1>b, <1>1, <1>2, <1>3, <1>4, <1>5, <1>6

\* A call that goes down leaves the trees above it started.
LEMMA StartedDown ==
  ASSUME TypeOK, control \in Controls, Started, Strict,
         NEW n \in Nodes, NEW k \in Kids(n), k \in Nodes,
         call \in {Call("run", n), Call("success", n), Call("fail", n)},
         control' = [control EXCEPT ![k] = n],
         NEW how \in {"run", "call_run"}, call' = Call(how, k), UNCHANGED stack,
         \A m \in Of({"tree"}) : started'[m] => started[m] \/ m = n
  PROVE  Started'
<1>a. \A y \in Above(control, n) : y \in Nodes /\ y # k
  BY AboveKid
<1>b. control \in Controls /\ n \in Nodes /\ k \in Kids(n) /\ k \in Nodes
  OBVIOUS
<1>c. Above([control EXCEPT ![k] = n], k) = {k} \cup Above(control, n)
  BY ONLY <1>b, AboveKid
<1>1. Above(control', k) = {k} \cup Above(control, n) /\ \A y \in Above(control, n) : y # k
  BY <1>a, <1>c
<1>2. n \in Above(control, n)
  BY AboveClosed DEF Controls
<1>3. call.n = n /\ call # NoCall /\ call.method # "running"
  BY DEF Call, NoCall
<1>4. \A m \in Of({"tree"}) : ~Unstarts(m)
  BY <1>3 DEF Started
<1>5. \A m \in Of({"tree"}) : ~Unstarts(m)'
  BY <1>4 DEF Unstarts
<1>6. ASSUME NEW m \in Of({"tree"}), started'[m]
      PROVE  m \in Above(control', k) /\ m # k
  <2>1. m \in Above(control, n)
    BY <1>2, <1>3, <1>4, <1>6 DEF Started
  <2> QED
    BY <1>1, <2>1
<1>7. call'.n = k /\ call' # NoCall
  BY DEF Call, NoCall
<1>8. \A m \in Of({"tree"}) : started'[m] => m \in Above(control', call'.n) /\ m # call'.n
  BY <1>6, <1>7
<1> QED
  BY <1>5, <1>7, <1>8 DEF Started

\* So does a report that goes up, but for the tree that it has gone through.
LEMMA StartedUp ==
  ASSUME TypeOK, control \in Controls, Started, Strict,
         NEW n \in Nodes, call.n = n, call # NoCall, UNCHANGED control,
         NEW what \in Reports, what # "running" => call.method # "running",
         \A m \in Of({"tree"}) : /\ Unstarts(m) => Unstarts(m)'
                                 /\ what # "running" /\ Unstarts(m)' => Unstarts(m)
                                 /\ started'[m] => started[m] /\ (m = n => Unstarts(m)'),
         \/ control[n] = Nil /\ call' = NoCall
         \/ control[n] # Nil /\ call' = Call(what, control[n])
  PROVE  Started'
<1>1. control \in [Nodes -> Nodes \cup {Nil}]
  BY DEF Controls
<1>2. Above(control, n) = {n} \cup IF control[n] = Nil THEN {} ELSE Above(control, control[n])
  BY <1>1, AboveNext
<1>3. CASE control[n] = Nil /\ call' = NoCall
  <2>1. \A m \in Of({"tree"}) : started'[m] => Unstarts(m)'
    BY <1>2, <1>3 DEF Started
  <2> QED
    BY <1>3, <2>1 DEF Started
<1>4. CASE control[n] # Nil /\ call' = Call(what, control[n])
  <2>1. call'.n = control[n] /\ call'.method = what /\ call' # NoCall
    BY <1>4 DEF Call, NoCall, Reports
  <2>2. \A m \in Of({"tree"}) : started'[m] =>
          Unstarts(m)' \/ m \in Above(control', call'.n)
    BY <1>2, <1>4, <2>1 DEF Started
  <2>3. call'.method # "running" => \A m \in Of({"tree"}) : ~Unstarts(m)'
    BY <2>1 DEF Started
  <2> QED
    BY <2>1, <2>2, <2>3 DEF Started, Reports
<1> QED
  BY <1>3, <1>4

\* What a caller still has to do is the first thing then.
LEMMA PushedAny ==
  ASSUME TypeOK, NEW c, stack' = <<c>> \o stack
  PROVE  \A m \in Nodes : Unstarts(m)' <=> Unstarts(m) \/ c = Call("unstart", m)
<1>1. stack \in Seq([method : {"clear", "unstart"}, n : Nodes \cup {Nil}])
  BY DEF TypeOK
<1>2. Len(stack') = Len(stack) + 1 /\ stack'[1] = c /\ 1 \in 1..Len(stack')
  BY <1>1
<1>3. \A k \in 1..Len(stack) : k + 1 \in 1..Len(stack') /\ stack'[k + 1] = stack[k]
  BY <1>1, <1>2
<1>4. \A k \in 1..Len(stack') : k = 1 \/ (k - 1 \in 1..Len(stack) /\ stack'[k] = stack[k - 1])
  BY <1>1, <1>2
<1> QED
  BY <1>2, <1>3, <1>4 DEF Unstarts

\* A report goes up to the node that controls the one it is of, or ends the update.
LEMMA GoesUp ==
  ASSUME TypeOK, Targets,
         TaskReports \/ DecoratorReports \/ BranchRunning \/ BranchEnds \/ TreeRunning \/ TreeEnds
  PROVE  \E n \in Nodes : \E what \in Reports :
           /\ n = call.n /\ call # NoCall /\ call.method \in Reports
           /\ UNCHANGED <<control, globals>>
           /\ what # "running" => call.method # "running"
           /\ \/ control[n] = Nil /\ call' = NoCall
              \/ control[n] # Nil /\ call' = Call(what, control[n])
<1> PICK n \in Nodes : n = call.n
  BY CallsNode DEF TaskReports, DecoratorReports, BranchRunning, BranchEnds, TreeRunning,
                         TreeEnds, Reports
<1>1. call # NoCall /\ call.method \in Reports /\ UNCHANGED <<control, globals>>
  BY CallsNode DEF TaskReports, DecoratorReports, BranchRunning, BranchEnds, TreeRunning,
                         TreeEnds, Reports
<1>2. CASE BranchEnds
  <2>1. call.method \in Reports /\ call.method # "running" /\ call' = Call(call.method, control[n])
    BY <1>2 DEF BranchEnds, Reports
  <2>2. control[n] # Nil
    BY <1>1, <1>2 DEF BranchEnds, Targets, Reporting, Branches
  <2> QED
    BY <1>1, <2>1, <2>2
<1>3. CASE ~BranchEnds
  <2>1. \E what \in Reports : Tell(n, what) /\ (what # "running" => call.method # "running")
    BY <1>3, DecoratedReports, ReportsAreTold
       DEF TaskReports, DecoratorReports, BranchRunning, TreeRunning, TreeEnds, Reports
  <2>2. PICK what \in Reports : Tell(n, what) /\ (what # "running" => call.method # "running")
    BY <2>1
  <2>3. \/ control[n] = Nil /\ call' = NoCall
        \/ control[n] # Nil /\ call' = Call(what, control[n])
    BY <2>2, TellGoesUp
  <2> QED
    BY <1>1, <2>2, <2>3
<1> QED
  BY <1>2, <1>3

LEMMA StartedStep ==
  ASSUME TypeOK, Targets, Rooted,
         control \in Controls, Path, Kept, Started, Own, Next
  PROVE  Started'
<1> SUFFICES ASSUME Strict'
             PROVE  Started'
  BY DEF Started
<1>a. Strict /\ OwnReports
  BY Constant DEF Strict
<1>b. control \in [Nodes -> Nodes \cup {Nil}] /\ started \in [Of({"tree"}) -> BOOLEAN]
  BY DEF TypeOK
<1>c. UNCHANGED stack => \A m \in Nodes : Unstarts(m)' <=> Unstarts(m)
  BY DEF Unstarts
<1>d. Of({"tree"}) \subseteq Nodes
  BY DEF Of
<1>1. CASE Update
  <2>1. /\ call = NoCall /\ stack = <<>> /\ call'.method = "run" /\ UNCHANGED <<stack, started>>
    BY <1>1 DEF Update, Call
  <2>2. \A m \in Nodes : ~Unstarts(m)
    BY <2>1 DEF Unstarts
  <2>3. \A m \in Of({"tree"}) : ~started'[m] /\ ~Unstarts(m)'
    BY <1>a, <1>c, <1>d, <2>1, <2>2 DEF Started
  <2> QED
    BY <2>3 DEF Started
<1>2. CASE Return
  <2>1. /\ call = NoCall /\ UNCHANGED call /\ stack # <<>> /\ stack' = Tail(stack)
        /\ stack \in Seq([method : {"clear", "unstart"}, n : Nodes \cup {Nil}])
    BY <1>2 DEF Return, TypeOK
  <2> DEFINE head == Head(stack)
  <2>2. /\ stack[1] = head
        /\ \A k \in 1..Len(stack) : k # 1 =>
             k - 1 \in 1..Len(stack') /\ stack'[k - 1] = stack[k]
    BY <2>1
  <2>3. \/ head.method = "clear" /\ UNCHANGED started
        \/ head.method = "unstart" /\ started' = [started EXCEPT ![head.n] = FALSE]
    BY <1>2 DEF Return
  <2> HIDE DEF head
  <2>4. ASSUME NEW m \in Of({"tree"}), started'[m]
        PROVE  Unstarts(m)'
    <3>1. started[m] /\ head # Call("unstart", m)
      BY <1>b, <2>3, <2>4 DEF Call
    <3>2. Unstarts(m)
      BY <1>a, <2>1, <3>1 DEF Started
    <3>3. PICK k \in 1..Len(stack) : stack[k] = Call("unstart", m)
      BY <3>2 DEF Unstarts
    <3>4. k - 1 \in 1..Len(stack') /\ stack'[k - 1] = Call("unstart", m)
      BY <2>2, <3>1, <3>3
    <3> QED
      BY <3>4 DEF Unstarts
  <2> QED
    BY <2>1, <2>4 DEF Started
<1>3. CASE RunStartedTree
  BY <1>3, <1>a, NoStartedTree
<1>4. CASE RunTree \/ RunDecorator
  <2>1. PICK n \in Of({"tree"} \cup Decorators) :
          /\ call = Call("run", n) /\ Kid(n) \in Nodes
          /\ control' = [control EXCEPT ![Kid(n)] = n]
          /\ call' = Call("call_run", Kid(n))
          /\ UNCHANGED <<root, stack, node, nodeRunning, globals, stalled>>
    BY <1>4, NodeGoesDown, Zenon
  <2> PICK k \in Kids(n) : k = Kid(n) /\ k \in Nodes /\ n \in Nodes
    BY OnlyKid
  <2>2. /\ control' = [control EXCEPT ![k] = n] /\ call' = Call("call_run", k)
        /\ UNCHANGED stack /\ call.n = n
    BY <2>1 DEF Call
  <2>3. \A m \in Of({"tree"}) : started'[m] => started[m] \/ m = n
    BY <1>4, <1>b, <2>2 DEF RunTree, RunDecorator
  <2> QED
    BY <1>a, <2>1, <2>2, <2>3, StartedDown
<1>5. CASE RunBranch
  <2>1. PICK n \in Of(Branches) : \E k \in Kids(n) :
          /\ call = Call("run", n) /\ k \in Nodes /\ control' = [control EXCEPT ![k] = n]
          /\ call' = Call("run", k) /\ UNCHANGED <<stack, started>>
    BY <1>5, BranchGoesDown
  <2> QED
    BY <1>a, <2>1, StartedDown DEF Of
<1>6. CASE BranchGoesOn
  <2>1. PICK n \in Of(Branches) : \E k \in Kids(n) :
          /\ call \in {Call("success", n), Call("fail", n)}
          /\ k \in Nodes /\ control' = [control EXCEPT ![k] = n]
          /\ call' = Call("run", k) /\ UNCHANGED <<stack, started>>
    BY <1>6, BranchGoesOver
  <2> QED
    BY <1>a, <2>1, StartedDown DEF Of
<1>7. CASE ResumeBranch
  <2> PICK n \in Of(Branches) : n = call.n
    BY <1>7, CallsNode DEF ResumeBranch, Of
  <2>1. call = Call("run", n) /\ node[n] # Nil /\ call' = Call("run", node[n])
        /\ UNCHANGED <<stack, started, control>>
    BY <1>7 DEF ResumeBranch, TypeOK, Call, NoCall
  <2>2. PICK w \in Nodes : Way(root, control, node, w)
    BY <1>a, <2>1 DEF Path, NothingOn, SomethingOn, Call, NoCall
  <2> PICK k \in Nodes : k = node[n]
    BY <2>1 DEF TypeOK
  <2>3. control[k] = n /\ n \in Nodes /\ n # Nil
    BY <2>1, <2>2, TreesAssumption DEF Way, Of
  <2>4. k \in Kids(n) /\ control' = [control EXCEPT ![k] = n]
    BY <1>b, <2>1, <2>3 DEF Controls
  <2>5. call' = Call("run", k)
    BY <2>1
  <2>6. \A m \in Of({"tree"}) : started'[m] => started[m]
    BY <2>1
  <2> QED
    BY <1>a, <2>1, <2>3, <2>4, <2>5, <2>6, StartedDown
<1>8. CASE CallRun
  <2> PICK n \in Nodes : n = call.n
    BY <1>8, CallsNode DEF CallRun
  <2>1. /\ call.method = "call_run" /\ call # NoCall /\ call' = Call("run", n)
        /\ stack' = <<Call("clear", Nil)>> \o stack /\ UNCHANGED <<started, control>>
    BY <1>8, CallsNode DEF CallRun
  <2>2. \A m \in Nodes : Unstarts(m)' <=> Unstarts(m)
    <3>1. \A m \in Nodes : Unstarts(m)' <=> Unstarts(m) \/ Call("clear", Nil) = Call("unstart", m)
      BY <2>1, PushedAny
    <3> QED
      BY <3>1 DEF Call
  <2> QED
    BY <1>a, <1>d, <2>1, <2>2 DEF Started, Call, NoCall
<1>9. CASE RunNoChild \/ ResumeNothing \/ RunSilentTask \/ RunFaultyTask \/ BranchHasNoNode
  BY <1>9 DEF RunNoChild, ResumeNothing, RunSilentTask, RunFaultyTask, BranchHasNoNode, LuaError,
              Strict
<1>10. CASE RunTask
  <2>1. PICK n \in Tasks : \E what \in Reports :
          /\ call = Call("run", n) /\ control[n] # Nil
          /\ call' = Call(what, n) \/ call' = Call(what, control[n])
    BY <1>10, <1>a, OwnTask
  <2>2. PICK what \in Reports : call' = Call(what, n) \/ call' = Call(what, control[n])
    BY <2>1
  <2>3. UNCHANGED <<stack, started, control>> /\ n \in Nodes /\ n \notin Of({"tree"})
    BY <1>10 DEF RunTask, Tasks, Of
  <2>4. call.n = n /\ call # NoCall /\ call.method # "running"
    BY <2>1 DEF Call, NoCall
  <2>5. CASE call' = Call(what, n)
    <3>1. call'.n = n /\ call' # NoCall /\ call'.method \notin {"run", "call_run"}
      BY <2>5 DEF Call, NoCall, Reports
    <3> QED
      BY <1>a, <1>c, <1>d, <2>3, <2>4, <3>1 DEF Started
  <2>6. CASE call' = Call(what, control[n])
    <3>1. \A m \in Of({"tree"}) :
            (Unstarts(m)' <=> Unstarts(m)) /\ (started'[m] => started[m]) /\ m # n
      BY <1>c, <1>d, <2>3
    <3> QED
      BY <1>a, <2>1, <2>3, <2>4, <2>6, <3>1, StartedUp
  <2> QED
    BY <2>2, <2>5, <2>6
<1>11. CASE TaskReports \/ DecoratorReports \/ BranchRunning \/ BranchEnds \/ TreeRunning \/ TreeEnds
  <2> PICK n \in Nodes : \E what \in Reports :
          /\ n = call.n /\ call # NoCall /\ UNCHANGED control
          /\ what # "running" => call.method # "running"
          /\ \/ control[n] = Nil /\ call' = NoCall
             \/ control[n] # Nil /\ call' = Call(what, control[n])
    BY <1>11, GoesUp
  <2>1. PICK what \in Reports :
          /\ n = call.n /\ call # NoCall /\ UNCHANGED control
          /\ what # "running" => call.method # "running"
          /\ \/ control[n] = Nil /\ call' = NoCall
             \/ control[n] # Nil /\ call' = Call(what, control[n])
    OBVIOUS
  <2>2. \A m \in Of({"tree"}) : /\ Unstarts(m) => Unstarts(m)'
                                /\ what # "running" /\ Unstarts(m)' => Unstarts(m)
                                /\ started'[m] => started[m] /\ (m = n => Unstarts(m)')
    <3>1. CASE TaskReports \/ DecoratorReports \/ BranchRunning \/ BranchEnds
      <4>1. UNCHANGED <<stack, started>> /\ n \notin Of({"tree"})
        BY <2>1, <3>1 DEF TaskReports, DecoratorReports, BranchRunning, BranchEnds, Of, Branches,
                          Decorators
      <4> QED
        BY <1>c, <1>d, <4>1
    <3>2. CASE TreeEnds
      <4>1. UNCHANGED stack /\ started' = [started EXCEPT ![n] = FALSE]
        BY <2>1, <3>2 DEF TreeEnds
      <4> QED
        BY <1>b, <1>c, <1>d, <4>1
    <3>3. CASE TreeRunning
      <4>1. stack' = <<Call("unstart", n)>> \o stack /\ UNCHANGED started
        BY <2>1, <3>3 DEF TreeRunning
      <4>2. \A m \in Nodes : Unstarts(m)' <=> Unstarts(m) \/ m = n
        <5>1. \A m \in Nodes :
                Unstarts(m)' <=> Unstarts(m) \/ Call("unstart", n) = Call("unstart", m)
          BY <4>1, PushedAny
        <5> QED
          BY <5>1 DEF Call
      <4>3. what = "running"
        BY <2>1, <3>3 DEF TreeRunning, Call, NoCall, Tell
      <4> QED
        BY <1>d, <4>1, <4>2, <4>3
    <3> QED
      BY <1>11, <3>1, <3>2, <3>3
  <2> QED
    BY <1>a, <2>1, <2>2, StartedUp
<1> QED
  BY <1>1, <1>2, <1>3, <1>4, <1>5, <1>6, <1>7, <1>8, <1>9, <1>10, <1>11 DEF Next, Step

\* A tree or a decorator stands over what its kid stands over, any other node over
\* itself.
LEMMA UnderNode ==
  ASSUME NEW n \in Nodes
  PROVE  /\ n \in Of({"tree"} \cup Decorators) => Under[Kid(n)] = Under[n]
         /\ n \in Tasks \cup Of(Branches) => Under[n] = n
<1>1. Under[n] = IF class[n] \in Decorators \cup {"tree"} THEN Under[Kid(n)] ELSE n
  BY UnderDefined
<1> QED
  BY <1>1 DEF Of, Tasks, Branches, Decorators

\* No report but that of a task comes to the branch whose tasks use the global
\* functions.
LEMMA OwnUp ==
  ASSUME control \in Controls, OwnControl, root \in Globals, OwnReports,
         NEW n \in Nodes, control[n] # Nil, Under[n] = Under[root]
  PROVE  Under[control[n]] = Under[root] /\ control[n] # Under[root]
<1>1. Under[control[n]] = Under[root]
  BY DEF OwnControl
<1>2. ASSUME control[n] = Under[root]
      PROVE  FALSE
  <2>1. n \in Kids(Under[root])
    BY <1>2 DEF Controls
  <2>2. n \in Tasks
    BY <2>1 DEF OwnReports
  <2>3. Under[n] = n
    BY <2>2, UnderNode
  <2>4. n \in Kids(n) /\ Len(kids[n]) = 0
    BY <2>1, <2>2, <2>3, TreesAssumption
  <2> QED
    BY <2>4 DEF Kids
<1> QED
  BY <1>1, <1>2

LEMMA OwnStep ==
  ASSUME TypeOK, Targets, Rooted,
         control \in Controls, Path, Own, Next
  PROVE  Own'
<1> SUFFICES ASSUME root \in Globals, OwnReports
             PROVE  OwnControl' /\ OwnCall'
  BY Constant DEF Own
<1>a. OwnControl /\ OwnCall /\ UNCHANGED root /\ root \in Of({"tree"})
  BY Constant, TreesAssumption DEF Own, TypeOK
<1>b. control \in [Nodes -> Nodes \cup {Nil}]
  BY DEF Controls
<1> PICK u : u = Under[root]
  OBVIOUS
<1>c. Kids(u) \subseteq Tasks /\ Under[root]' = u
  BY <1>a DEF OwnReports
<1>d. Of({"tree"}) \cap (Of(Branches) \cup Tasks \cup Of(Decorators)) = {}
      /\ Of(Decorators) \cap (Of(Branches) \cup Tasks) = {} /\ Of(Branches) \cap Tasks = {}
      /\ Of({"tree"} \cup Decorators) = Of({"tree"}) \cup Of(Decorators)
  BY DEF Of, Branches, Decorators, Tasks
<1>1. CASE Update \/ Return \/ RunNoChild \/ ResumeNothing \/ RunSilentTask \/ RunFaultyTask
           \/ BranchHasNoNode
  <2>1. UNCHANGED control /\ call' \in {NoCall, Call("run", root)}
    BY <1>1 DEF Update, Return, RunNoChild, ResumeNothing, RunSilentTask, RunFaultyTask, LuaError,
                BranchHasNoNode
  <2>2. OwnCall'
    BY <1>a, <2>1 DEF OwnCall
  <2> QED
    BY <1>a, <2>1, <2>2 DEF OwnControl
<1>2. CASE RunStartedTree
  <2> PICK n \in Nodes : n = call.n
    BY <1>2, CallsNode DEF RunStartedTree
  <2>1. /\ n \in Of({"tree"}) /\ Tell(n, "running") /\ "running" \in Reports
        /\ UNCHANGED <<control, globals>>
    BY <1>2 DEF RunStartedTree, Of, Reports
  <2>2. call' = NoCall \/ (call' = Call("running", control[n]) /\ control[n] # Nil)
    BY <2>1, TellGoesUp
  <2>3. control[n] # Nil => Under[control[n]] = u
    BY <1>a DEF OwnControl
  <2>4. OwnCall'
    BY <1>c, <2>2, <2>3 DEF OwnCall, Call
  <2> QED
    BY <1>a, <2>1, <2>4 DEF OwnControl
<1>3. CASE RunTree \/ RunDecorator
  <2>1. PICK n \in Of({"tree"} \cup Decorators) :
          /\ call = Call("run", n) /\ Kid(n) \in Nodes
          /\ control' = [control EXCEPT ![Kid(n)] = n]
          /\ call' = Call("call_run", Kid(n))
          /\ UNCHANGED <<root, stack, node, nodeRunning, globals, stalled>>
    BY <1>3, NodeGoesDown, Zenon
  <2> PICK k \in Nodes : k = Kid(n)
    BY <2>1
  <2>2. n \in Nodes /\ n \notin Tasks
    BY <1>d DEF Of
  <2>3. Under[n] = u
    BY <1>a, <1>c, <2>1, <2>2 DEF OwnCall, Call, NoCall
  <2>4. Under[k] = u
    BY <2>2, <2>3, UnderNode
  <2>5. control' = [control EXCEPT ![k] = n] /\ call' = Call("call_run", k)
    BY <2>1
  <2>6. OwnControl'
    BY <1>a, <1>b, <1>c, <2>3, <2>5 DEF OwnControl
  <2>7. OwnCall'
    BY <1>c, <2>4, <2>5 DEF OwnCall, Call
  <2> QED
    BY <2>6, <2>7
<1>4. CASE CallRun
  <2> PICK n \in Nodes : n = call.n
    BY <1>4, CallsNode DEF CallRun
  <2>1. call.method = "call_run" /\ call' = Call("run", n) /\ globals' = n /\ UNCHANGED control
    BY <1>4 DEF CallRun
  <2>2. Under[n] = u
    BY <1>a, <2>1 DEF OwnCall, Call, NoCall
  <2>3. OwnCall'
    BY <1>c, <2>1, <2>2 DEF OwnCall, Call
  <2> QED
    BY <1>a, <2>1, <2>3 DEF OwnControl
<1>5. CASE RunBranch \/ BranchGoesOn
  <2>1. PICK n \in Of(Branches) : \E child \in Kids(n) :
          /\ call \in {Call("run", n), Call("success", n), Call("fail", n)} /\ child \in Nodes
          /\ control' = [control EXCEPT ![child] = n]
          /\ call' = Call("run", child) /\ UNCHANGED globals
    BY <1>5, BranchGoesDown, BranchGoesOver
  <2>2. PICK child \in Kids(n) :
          /\ call \in {Call("run", n), Call("success", n), Call("fail", n)} /\ child \in Nodes
          /\ control' = [control EXCEPT ![child] = n]
          /\ call' = Call("run", child) /\ UNCHANGED globals
    BY <2>1
  <2>3. n \in Nodes /\ Under[n] = n /\ n # root /\ n \notin Tasks
    BY <1>a, <1>d, UnderNode DEF Of
  <2>4. n = u /\ globals = u
    BY <1>a, <1>c, <2>2, <2>3 DEF OwnCall, Call, NoCall
  <2>5. OwnControl'
    BY <1>a, <1>b, <1>c, <2>2, <2>3, <2>4 DEF OwnControl
  <2>6. control'[child] = u
    BY <1>b, <2>2, <2>4
  <2>7. OwnCall'
    BY <1>c, <2>2, <2>4, <2>6 DEF OwnCall, Call
  <2> QED
    BY <2>5, <2>7
<1>6. CASE ResumeBranch
  <2> PICK n \in Of(Branches) : n = call.n
    BY <1>6, CallsNode DEF ResumeBranch, Of
  <2>1. call = Call("run", n) /\ node[n] # Nil /\ call' = Call("run", node[n])
        /\ UNCHANGED <<globals, control>>
    BY <1>6 DEF ResumeBranch, TypeOK, Call, NoCall
  <2>2. n \in Nodes /\ Under[n] = n /\ n # root /\ n \notin Tasks /\ n # Nil
    BY <1>a, <1>d, UnderNode, TreesAssumption DEF Of
  <2>3. call # NoCall /\ call # Call("run", root)
    BY <2>1, <2>2 DEF Call, NoCall
  <2>4. ~stalled
    BY <2>3 DEF Rooted
  <2>5. PICK w \in Nodes : Way(root, control, node, w)
    BY <2>3, <2>4 DEF Path, Strict, NothingOn, SomethingOn
  <2> PICK k \in Nodes : k = node[n]
    BY <2>1 DEF TypeOK
  <2>6. control[k] = n
    BY <2>1, <2>5 DEF Way
  <2>7. k \in Kids(n)
    BY <2>2, <2>6 DEF Controls
  <2>8. n = u /\ globals = u
    BY <1>a, <1>c, <2>1, <2>2 DEF OwnCall, Call, NoCall
  <2>9. OwnCall'
    BY <1>c, <2>1, <2>6, <2>7, <2>8 DEF OwnCall, Call
  <2> QED
    BY <1>a, <2>1, <2>9 DEF OwnControl
<1>7. CASE RunTask
  <2> PICK n \in Tasks : n = call.n /\ n \in Nodes
    BY <1>7, CallsNode DEF RunTask, Tasks, Of
  <2>1. PICK what \in Reports : call' = Call(what, globals)
    BY <1>7 DEF RunTask
  <2>2. call.method = "run" /\ UNCHANGED <<globals, control>> /\ n # root /\ call # NoCall
    BY <1>7, <1>a, <1>d DEF RunTask, NoCall
  <2>3. Under[globals] = u
    <3>1. CASE Under[n] = u /\ globals = n
      BY <3>1
    <3>2. CASE u \in Of(Branches) /\ globals = u
      BY <3>2, UnderNode DEF Of
    <3> QED
      BY <1>a, <2>2, <3>1, <3>2 DEF OwnCall, Call
  <2>4. OwnCall'
    BY <1>c, <2>1, <2>2, <2>3 DEF OwnCall, Call, Reports
  <2> QED
    BY <1>a, <2>2, <2>4 DEF OwnControl
<1>8. CASE TaskReports \/ DecoratorReports \/ BranchRunning \/ BranchEnds \/ TreeRunning \/ TreeEnds
  <2>1. PICK n \in Nodes : \E what \in Reports :
          /\ n = call.n /\ call # NoCall /\ call.method \in Reports
          /\ UNCHANGED <<control, globals>>
          /\ what # "running" => call.method # "running"
          /\ \/ control[n] = Nil /\ call' = NoCall
             \/ control[n] # Nil /\ call' = Call(what, control[n])
    BY <1>8, GoesUp
  <2>2. Under[n] = u
    BY <1>a, <2>1 DEF OwnCall, Call, Reports
  <2>3. control[n] # Nil => Under[control[n]] = u /\ control[n] # u
    BY <1>a, <2>2, OwnUp
  <2>4. OwnCall'
    BY <1>c, <2>1, <2>3 DEF OwnCall, Call, Reports
  <2> QED
    BY <1>a, <2>1, <2>4 DEF OwnControl
<1> QED
  BY <1>1, <1>2, <1>3, <1>4, <1>5, <1>6, <1>7, <1>8 DEF Next, Step

\* What has more than a task below its decorators has so all the way up.
LEMMA InnerAbove ==
  ASSUME NEW f \in Controls, NEW x \in Nodes, Inner[x] \notin Tasks,
         NEW y \in Above(f, x)
  PROVE  Inner[y] \notin Tasks
<1> DEFINE R == {z \in Nodes : Inner[z] \notin Tasks}
<1>1. R \in SUBSET Nodes /\ x \in R
  OBVIOUS
<1>2. ASSUME NEW z \in R, f[z] # Nil
      PROVE  f[z] \in R
  <2> PICK p \in Nodes : p = f[z]
    BY <1>2 DEF Controls
  <2>1. z \in Kids(p) /\ z \in Nodes
    BY <1>2 DEF Controls
  <2>2. CASE p \in Of(Decorators)
    <3>1. z = Kid(p)
      BY <2>1, <2>2, OnlyKid, RootsAssumption DEF Of
    <3>2. Inner[p] = Inner[z]
      BY <2>2, <3>1, InnerDefined DEF Of
    <3> QED
      BY <3>2
  <2>3. CASE p \notin Of(Decorators)
    <3>1. Inner[p] = p
      BY <2>3, InnerDefined DEF Of
    <3>2. p \notin Tasks
      <4> SUFFICES ASSUME p \in Tasks
                   PROVE  FALSE
        OBVIOUS
      <4>1. Len(kids[p]) = 0
        BY TreesAssumption
      <4> QED
        BY <2>1, <4>1 DEF Kids
    <3> QED
      BY <3>1, <3>2
  <2> QED
    BY <2>2, <2>3
<1> HIDE DEF R
<1>3. y \in R
  BY <1>1, <1>2, AboveLeast DEF Closed
<1> QED
  BY <1>3 DEF R

\* A branch at the end of the way, or just above it, is the only one that can be
\* at a task.
LEMMA OnlyAt ==
  ASSUME TypeOK, control \in Controls,
         NEW w \in Nodes, Way(root, control, node, w),
         NEW n \in Of(Branches), w = n \/ control[w] = n
  PROVE  /\ \A b \in Of(Branches) : b # n /\ node[b] # Nil => Inner[node[b]] \notin Tasks
         /\ w = n => node[n] = Nil
         /\ control[w] = n => node[n] = w
<1>1. n \in Nodes /\ n # Nil /\ Inner[n] \notin Tasks
  <2>1. n \in Nodes /\ class[n] \notin Decorators /\ n \notin Tasks
    BY DEF Of, Branches, Decorators, Tasks
  <2> QED
    BY <2>1, InnerDefined, TreesAssumption
<1>2. control \in [Nodes -> Nodes \cup {Nil}]
  BY DEF Controls
<1>3. Above(control, w) \subseteq {w} \cup Above(control, n)
  <2>1. ASSUME control[w] = n
        PROVE  Above(control, w) = {w} \cup Above(control, control[w])
    BY <1>1, <1>2, <2>1, AboveNext
  <2>2. control[w] = n => Above(control, w) = {w} \cup Above(control, n)
    BY <2>1
  <2> QED
    BY <2>2
<1>4. w \in Above(control, w)
  BY <1>2, AboveClosed
<1>5. control[w] = n => node[n] = w
  BY <1>4 DEF Way
<1>6. w = n => node[n] = Nil
  <2> SUFFICES ASSUME w = n, node[n] # Nil
               PROVE  FALSE
    OBVIOUS
  <2>1. node[n] \in Above(control, n) /\ control[node[n]] = n
    BY DEF Way
  <2> QED
    BY <1>1, <2>1, AboveApart
<1>7. ASSUME NEW b \in Of(Branches), b # n, node[b] # Nil
      PROVE  Inner[node[b]] \notin Tasks
  <2>1. node[b] \in Above(control, w) /\ control[node[b]] = b
    BY <1>7 DEF Way
  <2>2. node[b] \in Above(control, n)
    BY <1>3, <1>7, <2>1
  <2> QED
    BY <1>1, <2>2, InnerAbove
<1> QED
  BY <1>5, <1>6, <1>7

\* Starting a node starts its task, finishing it finishes it.
LEMMA StartCounts ==
  ASSUME NEW n \in Nodes, NEW begun \in [Tasks -> Int],
         NEW actual \in [Of(Branches) -> Nat], Start(n, begun, actual)
  PROVE  \A t \in Tasks : active'[t] = IF t = Inner[n] /\ begun[t] < MaxStarts
                                        THEN begun[t] + 1 ELSE begun[t]
<1> TAKE t \in Tasks
<1> DEFINE i == Inner[n]
           more == IF begun[i] < MaxStarts THEN begun[i] + 1 ELSE begun[i]
<1>1. active' = IF class[i] = "task" THEN [begun EXCEPT ![i] = more] ELSE begun
  BY DEF Start
<1>2. class[t] = "task"
  BY DEF Tasks, Of
<1>3. active'[t] = IF t = i THEN more ELSE begun[t]
  <2> HIDE DEF more, i
  <2> QED
    BY <1>1, <1>2
<1> QED
  BY <1>3

LEMMA FinishCounts ==
  ASSUME TypeOK, NEW n, NEW t \in Tasks
  PROVE  Finish(n)[t] = IF t = Inner[n] THEN active[t] - 1 ELSE active[t]
<1> DEFINE i == Inner[n]
           less == active[i] - 1
<1>1. Finish(n) = IF class[i] = "task" THEN [active EXCEPT ![i] = less] ELSE active
  BY DEF Finish
<1>2. class[t] = "task" /\ active \in [Tasks -> Int]
  BY DEF Tasks, Of, TypeOK
<1>3. Finish(n)[t] = IF t = i THEN less ELSE active[t]
  <2> HIDE DEF less, i
  <2> QED
    BY <1>1, <1>2
<1> QED
  BY <1>3

LEMMA CountedStep ==
  ASSUME TypeOK, Targets,
         Rooted, control \in Controls, Path, Counted, Next
  PROVE  Counted'
<1> SUFFICES ASSUME OwnReports, NEW t \in Tasks \ {Inner[Kid(n)] : n \in Of({"tree"})}
             PROVE  IF stalled' THEN active'[t] \in {0, 1}
                    ELSE active'[t] = IF UnderWay(t)' THEN 1 ELSE 0
  BY Constant DEF Counted
<1>a. /\ active \in [Tasks -> Int] /\ active[t] \in Int /\ (stalled => stalled')
      /\ actualTask \in [Of(Branches) -> Nat]
      /\ IF stalled THEN active[t] \in {0, 1}
         ELSE active[t] = IF UnderWay(t) THEN 1 ELSE 0
  BY Constant DEF Counted, TypeOK
<1>b. node \in [Of(Branches) -> Nodes \cup {Nil}] /\ Nil \notin Nodes /\ 0 < MaxStarts
  BY TreesAssumption, StartsAssumption DEF TypeOK
<1>c. ASSUME active'[t] = active[t], UNCHANGED node
      PROVE  IF stalled' THEN active'[t] \in {0, 1}
             ELSE active'[t] = IF UnderWay(t)' THEN 1 ELSE 0
  <2>1. UnderWay(t)' = UnderWay(t)
    BY <1>c DEF UnderWay
  <2> QED
    BY <1>a, <1>c, <2>1
<1>1. CASE RunTree
  <2> PICK n \in Of({"tree"}) : n = call.n
    BY <1>1, CallsNode DEF RunTree, Of
  <2>1. Start(Kid(n), active, actualTask) /\ UNCHANGED node
    BY <1>1 DEF RunTree
  <2>a. t # Inner[Kid(n)] /\ t \in Tasks
    OBVIOUS
  <2>b. active'[t] = IF t = Inner[Kid(n)] /\ active[t] < MaxStarts THEN active[t] + 1
                     ELSE active[t]
    <3> PICK k \in Nodes : k = Kid(n)
      BY OnlyKid DEF Of
    <3>1. Start(k, active, actualTask)
      BY <2>1
    <3>2. \A task \in Tasks : active'[task] = IF task = Inner[k] /\ active[task] < MaxStarts
                                              THEN active[task] + 1 ELSE active[task]
      BY ONLY <1>a, <3>1, k \in Nodes, StartCounts
    <3> QED
      BY <2>a, <3>2
  <2>2. active'[t] = active[t]
    BY <2>a, <2>b
  <2> QED
    BY <1>c, <2>1, <2>2
<1>2. CASE TreeEnds
  <2> PICK n \in Of({"tree"}) : n = call.n
    BY <1>2, CallsNode DEF TreeEnds, Of, Reports
  <2>1. active' = Finish(Kid(n)) /\ UNCHANGED node
    BY <1>2 DEF TreeEnds
  <2>2. active'[t] = active[t]
    BY <2>1, FinishCounts
  <2> QED
    BY <1>c, <2>1, <2>2
<1>d. ASSUME NEW n \in Of(Branches), NEW meth \in {"run", "success", "fail"}, call = Call(meth, n)
      PROVE  Strict /\ call # NoCall
  <2>1. call # NoCall /\ call # Call("run", root)
    BY <1>d, TreesAssumption DEF Call, NoCall, TypeOK, Of, Branches
  <2> QED
    BY <2>1 DEF Rooted, Strict
<1>3. CASE RunBranch
  <2>1. PICK n \in Of(Branches) : \E child \in Kids(n) :
          /\ call = Call("run", n) /\ ~nodeRunning[n] /\ child \in Nodes
          /\ node' = [node EXCEPT ![n] = child]
          /\ Start(child, active, actualTask) /\ UNCHANGED stalled
    BY <1>3, BranchGoesDown
  <2>2. PICK child \in Kids(n) :
          /\ call = Call("run", n) /\ ~nodeRunning[n] /\ child \in Nodes
          /\ node' = [node EXCEPT ![n] = child]
          /\ Start(child, active, actualTask) /\ UNCHANGED stalled
    BY <2>1
  <2>3. Strict /\ call # NoCall
    BY <1>d, <2>2
  <2>4. PICK w \in Nodes : Way(root, control, node, w) /\ Phase(w)
    BY <2>3 DEF Path, NothingOn, SomethingOn
  <2>5. w = n
    BY <2>2, <2>3, <2>4 DEF Phase, Call, Resting
  <2>6. \A b \in Of(Branches) : node[b] # Nil => Inner[node[b]] \notin Tasks
    BY <2>4, <2>5, OnlyAt
  <2>7. active[t] = 0
    BY <1>a, <2>3, <2>6 DEF UnderWay, Strict
  <2>8. UnderWay(t)' <=> t = Inner[child]
    <3>1. \A b \in Of(Branches) : node'[b] = IF b = n THEN child ELSE node[b]
      BY <1>b, <2>2
    <3> QED
      BY <1>b, <2>2, <2>6, <3>1 DEF UnderWay
  <2>9. active'[t] = IF t = Inner[child] THEN 1 ELSE 0
    <3>1. active'[t] = IF t = Inner[child] /\ active[t] < MaxStarts THEN active[t] + 1
                       ELSE active[t]
      <4>1. \A task \in Tasks :
              active'[task] = IF task = Inner[child] /\ active[task] < MaxStarts
                              THEN active[task] + 1 ELSE active[task]
        BY ONLY <1>a, <2>2, StartCounts
      <4> QED
        BY <4>1
    <3> QED
      BY <1>b, <2>7, <3>1
  <2> QED
    BY <2>2, <2>3, <2>8, <2>9 DEF Strict
<1>4. CASE BranchGoesOn
  <2>1. PICK n \in Of(Branches) : \E child \in Kids(n) :
          /\ call \in {Call("success", n), Call("fail", n)} /\ child \in Nodes
          /\ node' = [node EXCEPT ![n] = child]
          /\ Start(child, Finish(node[n]), [actualTask EXCEPT ![n] = @ + 1]) /\ UNCHANGED stalled
    BY <1>4, BranchGoesOver
  <2>2. PICK child \in Kids(n) :
          /\ call \in {Call("success", n), Call("fail", n)} /\ child \in Nodes
          /\ node' = [node EXCEPT ![n] = child]
          /\ Start(child, Finish(node[n]), [actualTask EXCEPT ![n] = @ + 1]) /\ UNCHANGED stalled
    BY <2>1
  <2>3. Strict /\ call # NoCall /\ call.method \in Reports /\ call.method # "running" /\ call.n = n
    BY <1>d, <2>2 DEF Call, Reports
  <2>4. PICK w \in Nodes : Way(root, control, node, w) /\ control[w] = n
    BY <2>3, ReportsToBranch
  <2>5. /\ \A b \in Of(Branches) : b # n /\ node[b] # Nil => Inner[node[b]] \notin Tasks
        /\ node[n] = w
    BY <2>4, OnlyAt
  <2>6. UnderWay(t) <=> t = Inner[w]
    BY <1>b, <2>5 DEF UnderWay
  <2>7. Finish(w)[t] = 0
    BY <1>a, <2>3, <2>6, FinishCounts DEF Strict
  <2>8. UnderWay(t)' <=> t = Inner[child]
    <3>1. \A b \in Of(Branches) : node'[b] = IF b = n THEN child ELSE node[b]
      BY <1>b, <2>2
    <3> QED
      BY <1>b, <2>2, <2>5, <3>1 DEF UnderWay
  <2>9. active'[t] = IF t = Inner[child] THEN 1 ELSE 0
    <3> PICK begun \in [Tasks -> Int] : begun = Finish(w)
      BY FinishTypes
    <3>a. [actualTask EXCEPT ![n] = @ + 1] \in [Of(Branches) -> Nat]
      BY <1>a
    <3> PICK moved \in [Of(Branches) -> Nat] : moved = [actualTask EXCEPT ![n] = @ + 1]
      BY <3>a
    <3>1. begun[t] = 0 /\ Start(child, begun, moved) /\ child \in Nodes
      BY <2>2, <2>5, <2>7
    <3>2. \A task \in Tasks :
            active'[task] = IF task = Inner[child] /\ begun[task] < MaxStarts
                            THEN begun[task] + 1 ELSE begun[task]
      BY ONLY <3>1, StartCounts, begun \in [Tasks -> Int], moved \in [Of(Branches) -> Nat]
    <3>3. active'[t] = IF t = Inner[child] /\ begun[t] < MaxStarts THEN begun[t] + 1
                       ELSE begun[t]
      BY <3>2
    <3> QED
      BY <1>b, <3>1, <3>3
  <2> QED
    BY <2>2, <2>3, <2>8, <2>9 DEF Strict
<1>5. CASE BranchEnds
  <2> PICK n \in Of(Branches) : n = call.n
    BY <1>5, CallsNode DEF BranchEnds, Of, Reports
  <2>1. /\ call \in {Call("success", n), Call("fail", n)}
        /\ node' = [node EXCEPT ![n] = Nil] /\ active' = Finish(node[n]) /\ UNCHANGED stalled
    BY <1>5 DEF BranchEnds, TypeOK, Call, NoCall
  <2>2. Strict /\ call # NoCall /\ call.method \in Reports /\ call.method # "running" /\ call.n = n
    BY <1>d, <2>1 DEF Call, Reports
  <2>3. PICK w \in Nodes : Way(root, control, node, w) /\ control[w] = n
    BY <2>2, ReportsToBranch
  <2>4. /\ \A b \in Of(Branches) : b # n /\ node[b] # Nil => Inner[node[b]] \notin Tasks
        /\ node[n] = w
    BY <2>3, OnlyAt
  <2>5. UnderWay(t) <=> t = Inner[w]
    BY <1>b, <2>4 DEF UnderWay
  <2>6. active'[t] = 0
    BY <1>a, <2>1, <2>2, <2>4, <2>5, FinishCounts DEF Strict
  <2>7. ~UnderWay(t)'
    <3>1. \A b \in Of(Branches) : node'[b] = IF b = n THEN Nil ELSE node[b]
      BY <1>b, <2>1
    <3> QED
      BY <2>4, <3>1 DEF UnderWay
  <2> QED
    BY <2>6, <2>7
<1>6. ASSUME ~(RunTree \/ TreeEnds \/ RunBranch \/ BranchGoesOn \/ BranchEnds)
      PROVE  UNCHANGED <<active, node>>
  BY <1>6 DEF Next, Step, Update, RunStartedTree, CallRun, RunDecorator, RunNoChild, ResumeBranch,
              ResumeNothing, RunTask, RunSilentTask, RunFaultyTask, TaskReports, DecoratorReports,
              BranchRunning, BranchHasNoNode, TreeRunning, Return
<1> QED
  BY <1>1, <1>2, <1>3, <1>4, <1>5, <1>6, <1>c

-----------------------------------------------------------------------------
(* Theorems                                                                *)

LEMMA InitIInv ==
  ASSUME Init
  PROVE  IInv
<1>1. TypeOK
  <2>1. /\ root \in Roots /\ call = NoCall /\ stack = <<>> /\ globals = Nil
        /\ report = "none" /\ reports = 0 /\ stalled = FALSE
    BY DEF Init
  <2>2. /\ started \in [Of({"tree"}) -> BOOLEAN] /\ nodeRunning \in [Of(Branches) -> BOOLEAN]
    BY DEF Init
  <2>3. /\ actualTask \in [Of(Branches) -> Nat] /\ active \in [Tasks -> Int]
    BY DEF Init
  <2>4. /\ node \in [Of(Branches) -> Nodes \cup {Nil}] /\ control \in [Nodes -> Nodes \cup {Nil}]
        /\ ran \in [Of(Branches) -> Nodes \cup {Nil}]
        /\ outcome \in [Tasks -> Reports \cup {"none"}]
    BY DEF Init
  <2> QED
    BY <2>1, <2>2, <2>3, <2>4, EmptySeq DEF TypeOK
<1>2. Targets
  BY TreesAssumption DEF Init, Targets, NoCall, Tasks, Of
<1>3. Rooted
  BY TreesAssumption DEF Init, Rooted, Of
<1>4. Settled
  BY DEF Init, Settled
<1> QED
  BY <1>1, <1>2, <1>3, <1>4 DEF IInv

LEMMA NextIInv ==
  ASSUME IInv, [Next]_vars
  PROVE  IInv'
<1>1. CASE Next
  BY <1>1, TypeOKStep, TargetsStep, RootedStep, SettledStep
     DEF IInv
<1>2. CASE UNCHANGED vars
  BY <1>2 DEF vars, IInv, TypeOK, Targets, Reporting, Begun, Rooted, RootUnstarts, Call, Settled,
              OnStack
<1> QED
  BY <1>1, <1>2

\* The invariant holds in every forest.
THEOREM Invariance == Spec => []IInv
<1>1. Init => IInv
  BY InitIInv
<1>2. IInv /\ [Next]_vars => IInv'
  BY NextIInv
<1> QED
  BY <1>1, <1>2, PTL DEF Spec

\* No method is called of nil: a branch or a decorator is never asked to report
\* before it has been told to whom, and the child that comes next exists.
THEOREM Typing == Spec => []TypeOK
<1>1. IInv => TypeOK
  BY DEF IInv
<1> QED
  BY <1>1, Invariance, PTL

LEMMA InitPInv ==
  ASSUME Init
  PROVE  PInv
<1>1. /\ call = NoCall /\ stack = <<>> /\ stalled = FALSE
      /\ control = [n \in Nodes |-> Nil] /\ node = [n \in Of(Branches) |-> Nil]
      /\ nodeRunning = [n \in Of(Branches) |-> FALSE]
      /\ started = [n \in Of({"tree"}) |-> FALSE] /\ active = [t \in Tasks |-> 0]
  BY DEF Init
<1>2. control \in Controls /\ OwnControl
  BY <1>1 DEF Controls, OwnControl
<1>3. Path /\ Kept
  BY <1>1 DEF Path, NothingOn, Kept
<1>4. Started
  BY <1>1 DEF Started
<1>5. Own
  BY <1>1, <1>2 DEF Own, OwnCall
<1>6. \A t \in Tasks : active[t] = 0 /\ ~UnderWay(t)
  BY <1>1 DEF UnderWay
<1>7. Counted
  BY <1>1, <1>6 DEF Counted
<1> QED
  BY <1>2, <1>3, <1>4, <1>5, <1>7 DEF PInv

LEMMA NextPInv ==
  ASSUME IInv, PInv, [Next]_vars
  PROVE  PInv'
<1> USE DEF IInv, PInv
<1>1. CASE Next
  <2>1. (control \in Controls)' /\ Path' /\ Kept'
    BY <1>1, ControlsStep, PathStep, KeptStep
  <2>2. Started' /\ Own' /\ Counted'
    BY <1>1, StartedStep, OwnStep, CountedStep
  <2> QED
    BY <2>1, <2>2
<1>2. CASE UNCHANGED vars
  <2>1. UNCHANGED <<root, call, stack, started, nodeRunning, node, control, globals, active,
                    stalled>>
    BY <1>2 DEF vars
  <2>2. Strict' = Strict /\ OwnReports' = OwnReports
    BY <2>1 DEF Strict, OwnReports
  <2>3. Path'
    BY <2>1, <2>2 DEF Path, NothingOn, SomethingOn, Way, Phase
  <2>4. Kept' /\ Started'
    BY <2>1, <2>2 DEF Kept, Started, Unstarts
  <2>5. Own'
    BY <2>1, <2>2 DEF Own, OwnControl, OwnCall
  <2>6. Counted'
    BY <2>1, <2>2 DEF Counted, UnderWay
  <2> QED
    BY <2>1, <2>3, <2>4, <2>5, <2>6
<1> QED
  BY <1>1, <1>2

\* Where reports come from their own tasks, the branches that are at a child lie on
\* one way up to the tree of the host, whatever nodes the branches share.
THEOREM PathInvariance == Spec => [](IInv /\ PInv)
<1>1. Init => PInv
  BY InitPInv
<1>2. IInv /\ PInv /\ [Next]_vars => PInv'
  BY NextPInv
<1>3. IInv /\ [Next]_vars => IInv'
  BY NextIInv
<1>4. Init => IInv
  BY InitIInv
<1> QED
  BY <1>1, <1>2, <1>3, <1>4, PTL DEF Spec

\* A branch is told of an end only while a child of it is under way, and resumes
\* none but that one: finish and run are never called of nil.  Nor is a report, for
\* whatever hears one has been told to whom it reports.
THEOREM NothingCallsNil == Spec => []NoNilCall
<1>1. ASSUME IInv, PInv
      PROVE  NoNilNode
  <2> SUFFICES ASSUME OwnReports, NEW n \in Of(Branches), call.n = n
               PROVE  /\ call.method \in {"success", "fail"} => node[n] # Nil
                      /\ call.method = "run" /\ nodeRunning[n] => node[n] # Nil
    BY DEF NoNilNode
  <2>1. ASSUME call.method \in {"run", "success", "fail"}
        PROVE  Strict /\ call # NoCall
    <3>1. call # NoCall /\ call # Call("run", root)
      BY <1>1, <2>1, TreesAssumption
         DEF IInv, TypeOK, Call, NoCall, Of, Branches
    <3> QED
      BY <1>1, <3>1 DEF IInv, Rooted, Strict
  <2>2. call.method \in {"success", "fail"} => node[n] # Nil
    BY <1>1, <2>1, ReportsToBranch DEF PInv, Reports
  <2>3. call.method = "run" /\ nodeRunning[n] => node[n] # Nil
    BY <1>1, <2>1 DEF PInv, Kept
  <2> QED
    BY <2>2, <2>3
<1>2. IInv => NoNilFunction
  BY DEF IInv, Targets, NoNilFunction
<1>3. IInv => NoNilControl
  BY ReportIsPassedOn DEF IInv, NoNilControl
<1>4. IInv /\ PInv => NoNilCall
  BY <1>1, <1>2, <1>3 DEF NoNilCall
<1> QED
  BY <1>4, PathInvariance, PTL

\* The start and finish hooks of a task alternate, over any number of updates and
\* resumptions, wherever its node is shared.
THEOREM HooksAlternate == Spec => []ChildrenAlternate
<1>1. ASSUME PInv
      PROVE  ChildrenAlternate
  <2> SUFFICES ASSUME OwnReports, NEW t \in Tasks \ {Inner[Kid(n)] : n \in Of({"tree"})}
               PROVE  active[t] \in {0, 1}
    BY DEF ChildrenAlternate
  <2>1. IF stalled THEN active[t] \in {0, 1}
        ELSE active[t] = IF UnderWay(t) THEN 1 ELSE 0
    BY <1>1 DEF PInv, Counted
  <2> QED
    BY <2>1
<1> QED
  BY <1>1, PathInvariance, PTL

\* An update leaves every tree as the next one needs it: the host has been told at
\* most once, no function is left to other scripts, no tree is left started, unless
\* a task has failed or been silent, and then the tree of the host is so for ever.
THEOREM TreesAreReadyAgain == Spec => []ReadyAgain
<1>1. ASSUME IInv, stack = <<>>
      PROVE  ~OnStack("clear") /\ \A n \in Nodes : ~Unstarts(n)
  BY <1>1 DEF OnStack, Unstarts
<1>2. IInv => ReportsOnce /\ FunctionsTakenBack /\ StaysStarted
  BY <1>1 DEF IInv, Settled, Rooted, ReportsOnce, FunctionsTakenBack, StaysStarted, Idle
<1>3. ASSUME IInv, PInv, Idle, ~stalled, OwnReports, NEW n \in Of({"tree"})
      PROVE  ~started[n]
  <2>1. call = NoCall /\ Strict /\ n \in Nodes /\ ~Unstarts(n)
    BY <1>1, <1>3 DEF Idle, Strict, Of
  <2> QED
    BY <1>3, <2>1 DEF PInv, Started
<1>4. IInv /\ PInv => ReadyAgain
  BY <1>2, <1>3 DEF ReadyAgain, TreesReady
<1> QED
  BY <1>4, PathInvariance, PTL

-----------------------------------------------------------------------------
(* What the nodes make of their tasks' outcomes                            *)

Verdicts == Reports \cup {"none"}

\* Among the places up to n, those in T have a first one.
LEMMA FirstIn ==
  ASSUME NEW n \in Nat, NEW T \in SUBSET (1..n), T # {}
  PROVE  \E i \in T : \A j \in 1..i - 1 : j \in 1..n /\ j \notin T
<1>1. T \in SUBSET Nat
  OBVIOUS
<1>2. PICK i \in T : \A y \in T : i <= y
  BY <1>1, LeastOf
<1> QED
  BY <1>2

\* The first child of another verdict decides.
LEMMA FirstDecides ==
  ASSUME NEW v, NEW s, NEW going, Len(s) \in Nat, NEW k \in 1..Len(s), v[s[k]] # going,
         \A j \in 1..k - 1 : v[s[j]] = going
  PROVE  Decided(v, s, going) = v[s[k]]
<1> DEFINE first(i) == v[s[i]] # going /\ \A j \in 1..i - 1 : v[s[j]] = going
<1>1. ASSUME NEW i \in 1..Len(s), first(i)
      PROVE  i = k
  <2>1. ~(i < k) /\ ~(k < i)
    BY <1>1
  <2> QED
    BY <2>1
<1>2. (CHOOSE i \in 1..Len(s) : first(i)) = k
  <2>1. first(k)
    OBVIOUS
  <2> HIDE DEF first
  <2> QED
    BY <1>1, <2>1
<1> QED
  BY <1>2 DEF Decided

LEMMA DecidedLocal ==
  ASSUME NEW v, NEW w, NEW s, NEW going, Len(s) \in Nat,
         \A k \in 1..Len(s) : v[s[k]] = w[s[k]]
  PROVE  /\ Decided(v, s, going) = Decided(w, s, going)
         /\ Decided(v, s, going) = going \/ \E k \in 1..Len(s) : Decided(v, s, going) = v[s[k]]
<1>1. CASE \A k \in 1..Len(s) : v[s[k]] = going
  BY <1>1 DEF Decided
<1>2. CASE ~ \A k \in 1..Len(s) : v[s[k]] = going
  <2> PICK i \in 1..Len(s) : v[s[i]] # going
    BY <1>2
  <2> PICK l \in Nat : l = Len(s)
    OBVIOUS
  <2> DEFINE T == {k \in 1..l : v[s[k]] # going}
  <2>a. \E k \in T : \A j \in 1..k - 1 : j \in 1..l /\ j \notin T
    <3>1. T \in SUBSET (1..l) /\ T # {}
      OBVIOUS
    <3> HIDE DEF T
    <3> QED
      BY <3>1, FirstIn
  <2>1. PICK k \in 1..Len(s) : v[s[k]] # going /\ \A j \in 1..k - 1 : v[s[j]] = going
    BY <2>a
  <2>2. Decided(v, s, going) = v[s[k]]
    BY <2>1, FirstDecides
  <2>3. w[s[k]] # going /\ \A j \in 1..k - 1 : w[s[j]] = going
    BY <2>1
  <2>4. Decided(w, s, going) = w[s[k]]
    BY <2>3, FirstDecides
  <2> QED
    BY <2>2, <2>4
<1> QED
  BY <1>1, <1>2

\* The children of a node by their place.
LEMMA KidsByPlace ==
  ASSUME NEW n \in Nodes
  PROVE  /\ Len(kids[n]) \in Nat
         /\ \A k \in 1..Len(kids[n]) : kids[n][k] \in Kids(n) /\ kids[n][k] \in Nodes
         /\ class[n] \in Decorators \cup {"tree"} => Kid(n) \in Kids(n) /\ Kid(n) \in Nodes
<1>1. kids[n] \in Seq(Nodes)
  BY TreesAssumption
<1>2. class[n] \in Decorators \cup {"tree"} => Len(kids[n]) = 1 /\ 1 \in 1..1
  BY TreesAssumption DEF Of
<1> QED
  BY <1>1, <1>2 DEF Kids, Kid

\* A verdict is made of those of the children and nothing else.
LEMMA JudgedLocal ==
  ASSUME NEW told, NEW chosen, NEW v, NEW w, NEW n \in Nodes, \A m \in Kids(n) : v[m] = w[m]
  PROVE  Judged(told, chosen, v, n) = Judged(told, chosen, w, n)
<1>1. ASSUME NEW going
      PROVE  Decided(v, kids[n], going) = Decided(w, kids[n], going)
  BY KidsByPlace, DecidedLocal
<1>2. class[n] \in Decorators \cup {"tree"} => v[Kid(n)] = w[Kid(n)]
  BY KidsByPlace
<1>3. class[n] \in {"tree", "task"} \cup Branches \cup Decorators
  BY TreesAssumption
<1> QED
  BY <1>1, <1>2, <1>3 DEF Judged, Branches, Decorators

\* So Below is well defined.
LEMMA BelowDefined ==
  /\ Below \in [Nodes -> SUBSET Nodes]
  /\ \A n \in Nodes : Below[n] = {n} \cup UNION {Below[m] : m \in Kids(n)}
<1> DEFINE body(e, n) == {n} \cup UNION {e[m] : m \in Kids(n)}
           V == SUBSET Nodes
           F == [p \in [Nodes -> V] \X Nodes |-> body(p[1], p[2])]
<1>1. ASSUME NEW e \in [Nodes -> V], NEW n \in Nodes
      PROVE  body(e, n) \in V
  <2>1. Kids(n) \subseteq Nodes
    BY KidsByPlace DEF Kids
  <2> QED
    BY <2>1
<1>2. ASSUME NEW e \in [Nodes -> V], NEW g \in [Nodes -> V], NEW n \in Nodes,
             \A m \in Kids(n) : e[m] = g[m]
      PROVE  body(e, n) = body(g, n)
  <2>1. {e[m] : m \in Kids(n)} = {g[m] : m \in Kids(n)}
    BY <1>2
  <2> QED
    BY <2>1
<1>3. V # {}
  OBVIOUS
<1> HIDE DEF body, V
<1>4. F \in [[Nodes -> V] \X Nodes -> V] /\ \A e \in [Nodes -> V], n \in Nodes : F[<<e, n>>] = body(e, n)
  BY <1>1
<1> HIDE DEF F
<1>5. Local(V, F)
  BY <1>2, <1>4 DEF Local
<1>6. PICK e : Values(V, F, e)
  BY ONLY <1>3, <1>5, ForestRecursion
<1>7. e = [n \in Nodes |-> body(e, n)] /\ e \in [Nodes -> V]
  BY <1>4, <1>6 DEF Values
<1>8. Below = [n \in Nodes |-> body(Below, n)]
  <2>1. \E g : g = [n \in Nodes |-> {n} \cup UNION {g[m] : m \in Kids(n)}]
    BY <1>7 DEF body
  <2> QED
    BY <2>1 DEF Below, body
<1>9. ASSUME NEW n \in Nodes
      PROVE  Below[n] = {n} \cup UNION {Below[m] : m \in Kids(n)}
  BY <1>8 DEF body
<1> DEFINE S == {n \in Nodes : Below[n] \subseteq Nodes}
<1>10. ASSUME NEW n \in Nodes, Kids(n) \subseteq S
       PROVE  n \in S
  BY <1>9, <1>10
<1>11. S = Nodes
  <2> S \in SUBSET Nodes
    OBVIOUS
  <2> HIDE DEF S
  <2> QED
    BY <1>10, NodeInduction
<1>12. Below = [n \in Nodes |-> Below[n]]
  BY <1>8
<1> QED
  BY <1>9, <1>11, <1>12

\* Nodes below n have all their kids there, and are lower than n.
LEMMA BelowLower ==
  ASSUME NEW n \in Nodes, NEW y \in Below[n]
  PROVE  /\ y \in Nodes /\ Kids(y) \subseteq Below[n]
         /\ y = n \/ Height[y] < Height[n]
<1> DEFINE fine(m) == \A z \in Below[m] : /\ z \in Nodes /\ Kids(z) \subseteq Below[m]
                                          /\ z = m \/ Height[z] < Height[m]
           S == {m \in Nodes : fine(m)}
<1>1. ASSUME NEW m \in Nodes, Kids(m) \subseteq S
      PROVE  m \in S
  <2>1. Below[m] = {m} \cup UNION {Below[k] : k \in Kids(m)}
    BY BelowDefined
  <2>2. ASSUME NEW k \in Kids(m)
        PROVE  k \in Below[k] /\ Below[k] \subseteq Below[m]
    BY <2>1, KidsLower, BelowDefined
  <2>3. ASSUME NEW k \in Kids(m), NEW z \in Below[k]
        PROVE  /\ z \in Nodes /\ Kids(z) \subseteq Below[m] /\ Height[z] < Height[m]
    <3>1. z \in Nodes /\ Kids(z) \subseteq Below[k] /\ (z = k \/ Height[z] < Height[k])
      <4>1. fine(k)
        BY <1>1, <2>3
      <4> QED
        BY <2>3, <4>1
    <3>2. Height[k] \in Nat /\ Height[m] \in Nat /\ Height[k] < Height[m] /\ Height[z] \in Nat
      BY <3>1, KidsLower, HeightAssumption
    <3> QED
      BY <2>2, <3>1, <3>2
  <2>4. Kids(m) \subseteq Below[m]
    BY <2>2
  <2>5. fine(m)
    BY <2>1, <2>3, <2>4
  <2> HIDE DEF fine
  <2> QED
    BY <2>5
<1>2. S = Nodes
  <2> S \in SUBSET Nodes
    OBVIOUS
  <2> HIDE DEF S
  <2> QED
    BY <1>1, NodeInduction
<1>3. fine(n)
  <2> HIDE DEF fine
  <2> QED
    BY <1>2
<1> QED
  BY <1>3

\* Below a node are those that report to it, directly or not.
LEMMA BelowAbove ==
  ASSUME NEW f \in Controls, NEW x \in Nodes, NEW y \in Above(f, x)
  PROVE  x \in Below[y]
<1> DEFINE R == {z \in Nodes : x \in Below[z]}
<1>1. R \in SUBSET Nodes /\ x \in R
  BY BelowDefined
<1>2. ASSUME NEW z \in R, f[z] # Nil
      PROVE  f[z] \in R
  <2>1. z \in Nodes /\ f[z] \in Nodes /\ z \in Kids(f[z])
    BY <1>2 DEF Controls
  <2>2. Below[z] \subseteq Below[f[z]]
    BY <2>1, BelowDefined
  <2> QED
    BY <2>1, <2>2
<1> HIDE DEF R
<1>3. y \in R
  BY <1>1, <1>2, AboveLeast DEF Closed
<1> QED
  BY <1>3 DEF R

\* So what is on the way to a tree is below it.
LEMMA BelowTop ==
  ASSUME NEW f \in Controls, NEW w \in Nodes, NEW r \in Above(f, w), f[r] = Nil,
         NEW y \in Above(f, w)
  PROVE  y \in Below[r]
<1> DEFINE R == {z \in Above(f, w) : r \in Above(f, z)}
<1> f \in [Nodes -> Nodes \cup {Nil}]
  BY DEF Controls
<1>1. R \in SUBSET Nodes /\ w \in R
  BY AboveClosed
<1>2. ASSUME NEW z \in R, f[z] # Nil
      PROVE  f[z] \in R
  <2>1. z \in Nodes /\ f[z] \in Above(f, w) /\ z # r
    BY <1>2, <1>1, AboveClosed DEF Closed
  <2>2. Above(f, z) = {z} \cup Above(f, f[z])
    BY <1>2, <2>1, AboveNext
  <2> QED
    BY <1>2, <2>1, <2>2
<1>3. Above(f, w) \subseteq R
  <2>1. Closed(f, R)
    BY ONLY <1>2 DEF Closed
  <2> HIDE DEF R
  <2> QED
    BY ONLY <1>1, <2>1, AboveLeast
<1>4. y \in Nodes /\ r \in Above(f, y)
  BY <1>1, <1>3
<1> HIDE DEF R
<1> QED
  BY <1>4, BelowAbove

\* Verdicts in, verdicts out.
LEMMA JudgedVerdict ==
  ASSUME NEW told \in [Tasks -> Verdicts], NEW chosen, NEW v \in [Nodes -> Verdicts],
         NEW n \in Nodes
  PROVE  Judged(told, chosen, v, n) \in Verdicts
<1>1. ASSUME NEW going \in Verdicts
      PROVE  Decided(v, kids[n], going) \in Verdicts
  <2>1. \/ Decided(v, kids[n], going) = going
        \/ \E k \in 1..Len(kids[n]) : Decided(v, kids[n], going) = v[kids[n][k]]
    BY KidsByPlace, DecidedLocal
  <2> QED
    BY <2>1, KidsByPlace
<1>2. class[n] = "task" => told[n] \in Verdicts
  BY DEF Tasks, Of
<1>3. class[n] \in Decorators \cup {"tree"} => v[Kid(n)] \in Verdicts
  BY KidsByPlace
<1>4. chosen[n] \in Kids(n) => v[chosen[n]] \in Verdicts
  BY KidsLower
<1>5. ASSUME NEW kind \in Decorators, NEW what \in Verdicts
      PROVE  Decorated(kind, what) \in Verdicts
  BY DEF Decorated, Decorators, Verdicts, Reports
<1>6. class[n] \in {"tree", "task"} \cup Branches \cup Decorators
  BY TreesAssumption
<1>7. {"success", "fail", "none"} \subseteq Verdicts
  BY DEF Verdicts, Reports
<1>8. CASE class[n] \in Decorators
  BY <1>3, <1>5, <1>8 DEF Judged, Decorators
<1>9. CASE class[n] \in Branches
  <2>1. Decided(v, kids[n], "success") \in Verdicts /\ Decided(v, kids[n], "fail") \in Verdicts
    BY <1>1, <1>7
  <2>2. class[n] \in {"Sequence", "Priority", "Random"}
    BY <1>9 DEF Branches
  <2>3. CASE class[n] = "Sequence"
    BY <2>1, <2>3 DEF Judged, Decorators
  <2>4. CASE class[n] = "Priority"
    BY <2>1, <2>4 DEF Judged, Decorators
  <2>5. CASE class[n] = "Random"
    BY <1>4, <1>7, <2>5 DEF Judged, Decorators
  <2> QED
    BY <2>2, <2>3, <2>4, <2>5
<1>10. CASE class[n] = "task"
  BY <1>2, <1>10 DEF Judged, Decorators
<1>11. CASE class[n] = "tree"
  BY <1>3, <1>11 DEF Judged, Decorators
<1> QED
  BY <1>6, <1>8, <1>9, <1>10, <1>11

\* So whatever tasks have told, there are verdicts that agree with it ...
LEMMA JudgedAll ==
  ASSUME NEW told \in [Tasks -> Verdicts], NEW chosen
  PROVE  \E e : e = [n \in Nodes |-> Judged(told, chosen, e, n)]
<1> DEFINE body(e, n) == Judged(told, chosen, e, n)
           V == Verdicts
           F == [p \in [Nodes -> V] \X Nodes |-> body(p[1], p[2])]
<1>1. ASSUME NEW e \in [Nodes -> V], NEW n \in Nodes
      PROVE  body(e, n) \in V
  BY JudgedVerdict
<1>2. ASSUME NEW e \in [Nodes -> V], NEW g \in [Nodes -> V], NEW n \in Nodes,
             \A m \in Kids(n) : e[m] = g[m]
      PROVE  body(e, n) = body(g, n)
  BY ONLY <1>2, n \in Nodes, JudgedLocal
<1>3. V # {}
  BY DEF Verdicts
<1> HIDE DEF body, V
<1>4. F \in [[Nodes -> V] \X Nodes -> V] /\ \A e \in [Nodes -> V], n \in Nodes : F[<<e, n>>] = body(e, n)
  BY <1>1
<1> HIDE DEF F
<1>5. Local(V, F)
  BY <1>2, <1>4 DEF Local
<1>6. PICK e : Values(V, F, e)
  BY ONLY <1>3, <1>5, ForestRecursion
<1>7. e = [n \in Nodes |-> body(e, n)]
  BY <1>4, <1>6 DEF Values
<1> QED
  BY <1>7 DEF body

\* ... and Eval is well defined, in every state and in the next.
LEMMA EvalDefined ==
  ASSUME TypeOK, TypeOK'
  PROVE  /\ \A n \in Nodes : Eval[n] = Judged(outcome, ran, Eval, n)
         /\ \A n \in Nodes : Eval'[n] = Judged(outcome', ran', Eval', n)
<1>1. outcome \in [Tasks -> Verdicts] /\ outcome' \in [Tasks -> Verdicts]
  BY DEF TypeOK, Verdicts
<1>2. Eval = [n \in Nodes |-> Judged(outcome, ran, Eval, n)]
  <2>1. \E e : e = [n \in Nodes |-> Judged(outcome, ran, e, n)]
    BY <1>1, JudgedAll
  <2> QED
    BY <2>1 DEF Eval
<1>3. Eval' = [n \in Nodes |-> Judged(outcome', ran', Eval', n)]
  <2>1. \E e : e = [n \in Nodes |-> Judged(outcome', ran', e, n)]
    BY <1>1, JudgedAll
  <2> QED
    BY <2>1 DEF Eval
<1> QED
  BY <1>2, <1>3

\* What changes for nodes that are not below n has no part in the verdict of n.
LEMMA EvalFrame ==
  ASSUME TypeOK, TypeOK', NEW n \in Nodes,
         \A t \in Below[n] \cap Tasks : outcome'[t] = outcome[t],
         \A b \in Below[n] \cap Of(Branches) : ran'[b] = ran[b]
  PROVE  Eval'[n] = Eval[n]
<1> DEFINE S == {m \in Nodes : m \in Below[n] => Eval'[m] = Eval[m]}
<1>1. ASSUME NEW m \in Nodes, Kids(m) \subseteq S
      PROVE  m \in S
  <2> SUFFICES ASSUME m \in Below[n]
               PROVE  Eval'[m] = Eval[m]
    OBVIOUS
  <2>1. \A k \in Kids(m) : Eval'[k] = Eval[k]
    BY <1>1, BelowLower
  <2>2. Judged(outcome, ran, Eval', m) = Judged(outcome, ran, Eval, m)
    BY <2>1, JudgedLocal
  <2>3. Judged(outcome', ran', Eval', m) = Judged(outcome, ran, Eval', m)
    <3>1. class[m] = "task" => outcome'[m] = outcome[m]
      BY DEF Tasks, Of
    <3>2. class[m] = "Random" => ran'[m] = ran[m]
      BY DEF Of, Branches
    <3>3. class[m] \in {"tree", "task"} \cup Branches \cup Decorators
      BY TreesAssumption
    <3> QED
      BY ONLY <3>1, <3>2, <3>3 DEF Judged, Branches, Decorators
  <2> QED
    BY <2>2, <2>3, EvalDefined
<1>2. S = Nodes
  <2> S \in SUBSET Nodes
    OBVIOUS
  <2> HIDE DEF S
  <2> QED
    BY <1>1, NodeInduction
<1>3. n \in Below[n]
  BY BelowDefined
<1> QED
  BY <1>2, <1>3

\* The verdict of a child for which a branch that tries them in order goes on.
Going(b) == IF class[b] = "Sequence" THEN "success" ELSE "fail"

\* The branch b is at a child before which all others have had that verdict; should
\* it be started anew in between, it comes to the same children again.
Tried(b) ==
  IF class[b] = "Random" THEN ran[b] = node[b]
  ELSE \E k \in 1..Len(kids[b]) :
         /\ kids[b][k] = node[b] /\ actualTask[b] <= k
         /\ \A j \in 1..k - 1 : kids[b][j] # node[b] => Eval[kids[b][j]] = Going(b)

\* The node whose report n is told.
Source(n) ==
  IF class[n] = "task" THEN n
  ELSE IF class[n] \in Branches THEN node[n] ELSE Kid(n)

Left == Strict /\ Apart => \A b \in Of(Branches) : node[b] # Nil => Tried(b)

\* What a node is told is what the last outcomes of the tasks come to.
Told == Strict /\ Apart /\ call.method \in Reports => Eval[Source(call.n)] = call.method

\* A branch that is run, and is at no child, begins with its first one.
Fresh ==
  Strict /\ Apart /\ call.method \in {"run", "call_run"} =>
    LET i == Inner[call.n]
    IN i \in Of({"Sequence", "Priority"}) /\ node[i] = Nil => actualTask[i] = 1

EInv == Left /\ Told /\ Fresh /\ ReportMatches

\* A node hears of the node that reports to it.
LEMMA HeardFrom ==
  ASSUME NEW f \in Controls, NEW r, NEW at, NEW w, Way(r, f, at, w),
         NEW n \in Above(f, w), NEW c \in Nodes, f[n] = c
  PROVE  n = IF class[c] = "task" THEN c
             ELSE IF class[c] \in Branches THEN at[c] ELSE Kid(c)
<1>1. n \in Nodes /\ n \in Kids(c)
  BY TreesAssumption DEF Above, Controls
<1>2. class[c] # "task"
  <2> SUFFICES ASSUME class[c] = "task"
               PROVE  FALSE
    OBVIOUS
  <2>1. Len(kids[c]) = 0
    BY TreesAssumption DEF Tasks, Of
  <2> QED
    BY <1>1, <2>1 DEF Kids
<1>3. CASE class[c] \in Branches
  <2>1. at[c] = n
    BY <1>3 DEF Way, Of
  <2> QED
    BY <1>2, <1>3, <2>1
<1>4. CASE class[c] \in Decorators \cup {"tree"}
  <2>1. Kids(c) = {Kid(c)} /\ class[c] \notin Branches
    BY <1>4, OnlyKid DEF Of
  <2> QED
    BY <1>1, <1>2, <2>1
<1> QED
  BY <1>2, <1>3, <1>4, TreesAssumption

\* A report that is right goes on to be so, up to the host.
LEMMA ToldOn ==
  ASSUME TypeOK, Targets, control \in Controls, control[root] = Nil, report = "none",
         NEW w \in Nodes, Way(root, control, node, w), NEW n \in Above(control, w),
         NEW what \in Reports, Tell(n, what), Eval[n] = what,
         Eval' = Eval, UNCHANGED <<root, control, node>>
  PROVE  Told' /\ ReportMatches'
<1>1. n \in Nodes /\ control \in [Nodes -> Nodes \cup {Nil}]
  BY DEF Above, Controls
<1>2. CASE control[n] # Nil
  <2> PICK c \in Nodes : c = control[n]
    BY <1>1, <1>2
  <2>1. call' = Call(what, c) /\ report' = "none"
    BY <1>1, <1>2, TellGoesUp
  <2>2. n = Source(c)
    BY HeardFrom DEF Source
  <2>3. n = Source(c)'
    BY <2>2 DEF Source
  <2>4. Told'
    BY <2>1, <2>3 DEF Told, Call
  <2> QED
    BY <2>1, <2>4 DEF ReportMatches
<1>3. CASE control[n] = Nil
  <2>1. call' = NoCall /\ report' = what
    BY <1>1, <1>3, TellGoesUp
  <2>2. n = root
    BY <1>1, <1>3, AboveTop DEF Way
  <2>3. Told'
    BY <2>1 DEF Told, NoCall, Reports
  <2> QED
    BY <2>1, <2>2, <2>3 DEF ReportMatches
<1> QED
  BY <1>2, <1>3

\* Above a task that is being resumed every branch is at a child.
LEMMA ResumedInner ==
  ASSUME NEW f \in Controls, NEW r, NEW at, NEW w \in Tasks, Way(r, f, at, w),
         NEW y \in Above(f, w), Inner[y] \in Of(Branches)
  PROVE  at[Inner[y]] # Nil
<1>1. w \in Nodes /\ class[w] = "task"
  BY DEF Tasks, Of
<1> DEFINE up(m) == m \in Above(f, w) => Inner[m] \in Above(f, w)
           S == {m \in Nodes : up(m)}
<1>2. ASSUME NEW m \in Nodes, Kids(m) \subseteq S
      PROVE  up(m)
  <2>1. CASE m \in Of(Decorators) /\ m \in Above(f, w)
    <3>1. m # w /\ m \in Of({"tree"} \cup Decorators)
      <4>1. class[m] \in Decorators /\ "task" \notin Decorators
        BY <2>1 DEF Of, Decorators
      <4> QED
        BY <1>1, <4>1 DEF Of
    <3>2. Kid(m) \in Above(f, w)
      BY ONLY f \in Controls, <1>1, <2>1, <3>1, CameByKid
    <3>a. Kid(m) \in Kids(m)
      BY <3>1, OnlyKid
    <3>3. up(Kid(m))
      BY <1>2, <3>a
    <3>4. Inner[m] = Inner[Kid(m)]
      BY <2>1, InnerDefined DEF Of
    <3> QED
      BY <3>2, <3>3, <3>4
  <2>2. CASE m \notin Of(Decorators)
    <3>1. Inner[m] = m
      BY <2>2, InnerDefined DEF Of
    <3> QED
      BY <3>1
  <2> QED
    BY <2>1, <2>2
<1> HIDE DEF up
<1>3. S = Nodes
  <2> S \in SUBSET Nodes
    OBVIOUS
  <2>1. \A m \in Nodes : Kids(m) \subseteq S => m \in S
    BY <1>2
  <2> HIDE DEF S
  <2> QED
    BY <2>1, NodeInduction
<1>4. up(y) /\ y \in Nodes
  BY <1>3 DEF Above
<1> PICK i \in Nodes : i = Inner[y]
  BY DEF Of
<1>5. i \in Above(f, w) /\ i # w
  BY <1>1, <1>4 DEF up, Of, Branches
<1>6. PICK z \in Above(f, w) : f[z] = i
  BY <1>1, <1>5, AboveEntered
<1>7. at[i] = z /\ z \in Nodes
  BY <1>6 DEF Way, Above
<1> QED
  BY <1>7, TreesAssumption

\* A start takes the branch back to its first child, and no other anywhere.
LEMMA StartPlaces ==
  ASSUME NEW n \in Nodes, NEW begun, NEW actual \in [Of(Branches) -> Nat],
         Start(n, begun, actual)
  PROVE  /\ Inner[n] \in Of({"Sequence", "Priority"}) => actualTask'[Inner[n]] = 1
         /\ \A b \in Of({"Sequence", "Priority"}) : actualTask'[b] \in {actual[b], 1}
<1> DEFINE i == Inner[n]
<1>1. Of({"Sequence", "Priority"}) \subseteq Of(Branches)
  BY DEF Of, Branches
<1>2. CASE class[i] \in {"Sequence", "Priority"} /\ actualTask' = [actual EXCEPT ![i] = 1]
  BY <1>1, <1>2 DEF Of
<1>3. CASE class[i] = "Random" /\ \E k \in {1} \cup 1..Len(kids[i]) : actualTask' = [actual EXCEPT ![i] = k]
  BY <1>1, <1>3 DEF Of
<1>4. CASE class[i] \in {"task", "tree"} /\ actualTask' = actual
  BY <1>1, <1>4 DEF Of
<1> QED
  BY <1>2, <1>3, <1>4 DEF Start

\* Where different children have no node in common, the branches above a node have
\* it below the child that they are at, and no other.
LEMMA BelowOne ==
  ASSUME Apart, control \in Controls, control[root] = Nil,
         NEW at, NEW x \in Nodes, Way(root, control, at, x),
         NEW b \in Of(Branches), at[b] # Nil, NEW m \in Kids(b), m # at[b]
  PROVE  x \notin Below[m]
<1>1. at[b] \in Above(control, x) /\ control[at[b]] = b /\ at[b] \in Nodes /\ b \in Nodes
  BY DEF Way, Above, Of
<1>2. at[b] \in Kids(b) /\ b # Nil
  BY <1>1, TreesAssumption DEF Controls
<1>3. x \in Below[at[b]]
  BY <1>1, BelowAbove
<1>4. b \in Above(control, x) /\ root \in Above(control, x)
  BY <1>1, <1>2, AboveClosed DEF Closed, Controls, Way
<1>5. b \in Below[root]
  BY <1>4, BelowTop
<1> QED
  BY <1>2, <1>3, <1>5 DEF Apart

\* A branch stays at its child while the verdicts of the others stay.
LEMMA TriedOn ==
  ASSUME NEW b \in Of(Branches), Tried(b), node'[b] = node[b], ran'[b] = ran[b],
         actualTask[b] \in Nat,
         class[b] # "Random" => actualTask'[b] \in {actualTask[b], 1},
         \A m \in Kids(b) : m # node[b] => Eval'[m] = Eval[m]
  PROVE  Tried(b)'
<1>1. CASE class[b] = "Random"
  BY <1>1 DEF Tried
<1>2. CASE class[b] # "Random"
  <2>1. PICK k \in 1..Len(kids[b]) :
          /\ kids[b][k] = node[b] /\ actualTask[b] <= k
          /\ \A j \in 1..k - 1 : kids[b][j] # node[b] => Eval[kids[b][j]] = Going(b)
    BY <1>2 DEF Tried
  <2>2. b \in Nodes /\ Len(kids[b]) \in Nat
    BY KidsByPlace DEF Of
  <2>3. ASSUME NEW j \in 1..k - 1, kids[b][j] # node[b]
        PROVE  Eval'[kids[b][j]] = Going(b)
    <3>1. kids[b][j] \in Kids(b)
      BY <2>2 DEF Kids
    <3> QED
      BY <2>1, <2>3, <3>1
  <2>4. kids[b][k] = node'[b] /\ actualTask'[b] <= k
    BY <1>2, <2>1, <2>2
  <2>5. \A j \in 1..k - 1 : kids[b][j] # node'[b] => Eval'[kids[b][j]] = Going(b)
    BY <2>3
  <2> QED
    BY <1>2, <2>4, <2>5 DEF Tried, Going
<1> QED
  BY <1>1, <1>2

\* What a branch makes of the report of its child, unless it goes on to the next.
LEMMA BranchDecides ==
  ASSUME TypeOK, TypeOK', NEW n \in Of(Branches), node[n] \in Kids(n), Tried(n),
         NEW what \in Reports, Eval[node[n]] = what,
         GoesOn(n, what) => actualTask[n] + 1 > Len(kids[n])
  PROVE  Eval[n] = what
<1>1. n \in Nodes /\ Len(kids[n]) \in Nat /\ class[n] \in Branches
  BY KidsByPlace DEF Of
<1>2. Eval[n] = Judged(outcome, ran, Eval, n)
  BY <1>1, EvalDefined
<1>3. CASE class[n] = "Random"
  <2>1. ran[n] = node[n]
    BY <1>3 DEF Tried
  <2> QED
    BY <1>2, <1>3, <2>1 DEF Judged, Decorators
<1>4. CASE class[n] \in {"Sequence", "Priority"}
  <2>1. Eval[n] = Decided(Eval, kids[n], Going(n))
    BY <1>2, <1>4 DEF Judged, Decorators, Going
  <2>2. PICK k \in 1..Len(kids[n]) :
          /\ kids[n][k] = node[n] /\ actualTask[n] <= k
          /\ \A j \in 1..k - 1 : kids[n][j] # node[n] => Eval[kids[n][j]] = Going(n)
    BY <1>4 DEF Tried
  <2> PICK l \in Nat : l = Len(kids[n])
    BY <1>1
  <2>3. CASE what = Going(n)
    <3>1. GoesOn(n, what)
      BY <1>4, <2>3 DEF GoesOn, Going
    <3>2. actualTask[n] \in Nat /\ actualTask[n] + 1 > l
      BY <3>1 DEF TypeOK
    <3>3. k = l
      BY <2>2, <3>2
    <3>4. \A j \in 1..l : Eval[kids[n][j]] = Going(n)
      BY <2>2, <2>3, <3>3
    <3> QED
      BY <2>1, <2>3, <3>4 DEF Decided
  <2>4. CASE what # Going(n)
    <3>1. Eval[kids[n][k]] # Going(n)
      BY <2>2, <2>4
    <3> DEFINE T == {i \in 1..l : Eval[kids[n][i]] # Going(n)}
    <3>a. \E i \in T : \A j \in 1..i - 1 : j \in 1..l /\ j \notin T
      <4>1. T \in SUBSET (1..l) /\ T # {}
        BY <3>1
      <4> HIDE DEF T
      <4> QED
        BY <4>1, FirstIn
    <3>2. PICK i \in 1..l : /\ Eval[kids[n][i]] # Going(n)
                            /\ \A j \in 1..i - 1 : Eval[kids[n][j]] = Going(n)
      BY <3>a
    <3>3. ~(k < i)
      BY <2>2, <3>1, <3>2
    <3>4. i < k => kids[n][i] = node[n]
      BY <2>2, <3>2
    <3>5. Eval[kids[n][i]] = what
      BY <2>2, <3>3, <3>4
    <3>6. Decided(Eval, kids[n], Going(n)) = Eval[kids[n][i]]
      BY ONLY <3>2, l \in Nat, l = Len(kids[n]), FirstDecides
    <3> QED
      BY <2>1, <3>5, <3>6
  <2> QED
    BY <2>3, <2>4
<1> QED
  BY <1>1, <1>3, <1>4 DEF Branches

\* Branches stay where they are, or have ended.
LEMMA LeftOn ==
  ASSUME TypeOK, Left, Strict, Apart, Eval' = Eval, UNCHANGED ran,
         \A b \in Of(Branches) : node'[b] \in {node[b], Nil},
         \A b \in Of({"Sequence", "Priority"}) :
           node'[b] # Nil => actualTask'[b] \in {actualTask[b], 1}
  PROVE  Left'
<1> SUFFICES ASSUME NEW b \in Of(Branches), node'[b] # Nil
             PROVE  Tried(b)'
  BY DEF Left
<1>1. node'[b] = node[b] /\ Tried(b)
  BY DEF Left
<1>2. actualTask[b] \in Nat /\ ran'[b] = ran[b]
  BY DEF TypeOK
<1>3. class[b] # "Random" => actualTask'[b] \in {actualTask[b], 1}
  BY DEF Of, Branches
<1> QED
  BY <1>1, <1>2, <1>3, TriedOn

\* A branch that is run is at its child; the others stay at theirs, which the
\* branch is below, while their other children have nothing to do with it.
LEMMA LeftDown ==
  ASSUME TypeOK, TypeOK', Left, Strict, Apart, control \in Controls, control[root] = Nil,
         NEW n \in Of(Branches), NEW child \in Kids(n),
         NEW at, Way(root, control, at, n), \A b \in Of(Branches) : b # n => at[b] = node[b],
         UNCHANGED outcome, ran' = [ran EXCEPT ![n] = child], node' = [node EXCEPT ![n] = child],
         \A b \in Of({"Sequence", "Priority"}) :
           b # n => actualTask'[b] \in {actualTask[b], 1},
         Tried(n)'
  PROVE  Left'
<1> SUFFICES ASSUME NEW b \in Of(Branches), node'[b] # Nil, b # n
             PROVE  Tried(b)'
  BY DEF Left
<1>1. node'[b] = node[b] /\ ran'[b] = ran[b] /\ actualTask[b] \in Nat /\ at[b] = node[b]
      /\ n \in Nodes
  BY DEF TypeOK, Of
<1>2. Tried(b)
  BY <1>1 DEF Left
<1>3. class[b] # "Random" => actualTask'[b] \in {actualTask[b], 1}
  BY DEF Of, Branches
<1>4. ASSUME NEW m \in Kids(b), m # node[b]
      PROVE  Eval'[m] = Eval[m]
  <2>1. n \notin Below[m] /\ m \in Nodes
    BY <1>1, <1>4, BelowOne, KidsLower DEF Of
  <2>2. \A d \in Below[m] \cap Of(Branches) : ran'[d] = ran[d]
    BY <2>1 DEF TypeOK
  <2> QED
    BY <2>1, <2>2, EvalFrame
<1> QED
  BY <1>1, <1>2, <1>3, <1>4, TriedOn

\* The verdicts of its kids do not depend on the child that a branch runs.
LEMMA KidsVerdicts ==
  ASSUME TypeOK, TypeOK', NEW n \in Of(Branches), NEW m \in Kids(n),
         UNCHANGED outcome, NEW child, ran' = [ran EXCEPT ![n] = child]
  PROVE  Eval'[m] = Eval[m]
<1>1. m \in Nodes /\ n \in Nodes /\ Height[m] < Height[n]
      /\ Height[m] \in Nat /\ Height[n] \in Nat
  BY KidsLower DEF Of
<1>2. n \notin Below[m]
  BY <1>1, BelowLower
<1>3. \A d \in Below[m] \cap Of(Branches) : ran'[d] = ran[d]
  BY <1>2 DEF TypeOK
<1> QED
  BY <1>1, <1>3, EvalFrame

\* What is told as a node is run.
LEMMA RunQuiet ==
  ASSUME call'.method \in {"run", "call_run"}, report' = "none"
  PROVE  Told' /\ ReportMatches'
BY DEF Told, ReportMatches, Reports

\* A branch that is run with no child running runs its first one.
LEMMA BranchBegins ==
  ASSUME TypeOK, TypeOK', Targets, control \in Controls, control[root] = Nil, Path, Strict, Apart, EInv,
         report = "none", RunBranch, UNCHANGED root
  PROVE  EInv'
<1> PICK n \in Nodes : n = call.n
  BY CallsNode DEF RunBranch
<1>1. /\ n \in Of(Branches) /\ Inner[n] = n /\ call = Call("run", n) /\ call # NoCall
      /\ ~nodeRunning[n] /\ actualTask[n] <= Len(kids[n])
  <2>1. /\ call.method = "run" /\ class[n] \in Branches /\ ~nodeRunning[n]
        /\ actualTask[n] <= Len(kids[n])
    BY DEF RunBranch
  <2>2. n \in Of(Branches) /\ Inner[n] = n
    BY <2>1, InnerDefined DEF Of, Branches, Decorators
  <2>3. call = Call("run", n) /\ call # NoCall
    BY <2>1 DEF TypeOK, Call, NoCall
  <2> QED
    BY <2>1, <2>2, <2>3
<1>2. actualTask[n] >= 1 /\ actualTask[n] \in Nat
  BY <1>1 DEF Targets, Begun, Call, TypeOK, Of, Branches
<1> PICK child \in Nodes : child = kids[n][actualTask[n]]
  BY <1>1, <1>2, ChildIsNode
<1>3. child \in Kids(n)
  BY <1>1, <1>2 DEF Kids
<1>4. /\ node' = [node EXCEPT ![n] = child] /\ ran' = [ran EXCEPT ![n] = child]
      /\ Start(child, active, actualTask) /\ call' = Call("run", child)
      /\ UNCHANGED <<outcome, report>>
  BY DEF RunBranch, RunChild
<1> PICK w \in Nodes : Way(root, control, node, w) /\ Phase(w)
  BY <1>1 DEF Path, NothingOn, SomethingOn
<1>5. w = n
  <2>1. n \in Above(control, w) \cap Of(Branches)
    BY <1>1 DEF Phase
  <2>2. w = n \/ Resting(control, nodeRunning, w, Above(control, n) \ {n})
    BY <1>1 DEF Phase, Call
  <2> QED
    BY <1>1, <2>1, <2>2 DEF Resting
<1>6. node[n] = Nil
  <2>1. \A y \in Above(control, n) : control[y] # n
    BY AboveApart
  <2>2. Way(root, control, node, n) /\ n \in Of(Branches)
    BY <1>1, <1>5
  <2>3. node[n] # Nil => node[n] \in Above(control, n) /\ control[node[n]] = n
    BY ONLY <2>2 DEF Way
  <2> QED
    BY ONLY <2>1, <2>3
<1>7. n \in Of({"Sequence", "Priority"}) => actualTask[n] = 1
  BY <1>1, <1>6 DEF EInv, Fresh, Call
<1>8. /\ Inner[child] \in Of({"Sequence", "Priority"}) => actualTask'[Inner[child]] = 1
      /\ \A b \in Of({"Sequence", "Priority"}) : actualTask'[b] \in {actualTask[b], 1}
  BY <1>4, StartPlaces DEF TypeOK
<1>9. node'[n] = child /\ ran'[n] = child
  BY <1>1, <1>4 DEF TypeOK
<1>10. Tried(n)'
  <2>1. CASE class[n] = "Random"
    BY <1>9, <2>1 DEF Tried
  <2>2. CASE class[n] # "Random"
    <3>1. n \in Of({"Sequence", "Priority"})
      BY <1>1, <2>2 DEF Of, Branches
    <3>2. actualTask[n] = 1 /\ actualTask'[n] = 1
      BY <1>7, <1>8, <3>1
    <3>3. 1 \in 1..Len(kids[n]) /\ kids[n][1] = node'[n] /\ actualTask'[n] <= 1
      BY <1>1, <1>9, <3>2, KidsByPlace
    <3>4. \E k \in 1..Len(kids[n]) :
            /\ kids[n][k] = node'[n] /\ actualTask'[n] <= k
            /\ \A j \in 1..k - 1 : kids[n][j] # node'[n] => Eval'[kids[n][j]] = Going(n)
      <4>1. \A j \in 1..1 - 1 : FALSE
        OBVIOUS
      <4> QED
        BY ONLY <3>3, <4>1
    <3> QED
      BY <2>2, <3>4 DEF Tried, Going
  <2> QED
    BY <2>1, <2>2
<1>11. Left'
  <2>1. Left /\ UNCHANGED outcome /\ Way(root, control, node, n)
    BY <1>4, <1>5 DEF EInv
  <2> QED
    BY ONLY TypeOK, TypeOK', Strict, Apart, control \in Controls, control[root] = Nil, <1>1, <1>3, <1>4, <1>8, <1>10,
            <2>1, LeftDown
<1>12. Fresh'
  BY <1>4, <1>8 DEF Fresh, Call
<1>13. Told' /\ ReportMatches'
  BY <1>4, RunQuiet DEF Call
<1> QED
  BY <1>11, <1>12, <1>13 DEF EInv

\* A branch goes on to the child after those that have had the verdict for it.
LEMMA BranchContinues ==
  ASSUME TypeOK, TypeOK', control \in Controls, control[root] = Nil, root \in Nodes, Path,
         Strict, Apart, EInv, report = "none", BranchGoesOn, UNCHANGED root
  PROVE  EInv'
<1> PICK n \in Nodes : n = call.n
  BY CallsNode DEF BranchGoesOn
<1> DEFINE moved == [actualTask EXCEPT ![n] = @ + 1]
<1>1. /\ n \in Of(Branches) /\ call.method \in {"success", "fail"} /\ call # NoCall
      /\ GoesOn(n, call.method) /\ node[n] # Nil
  BY DEF BranchGoesOn, Of, NoCall
<1>2. actualTask[n] \in Nat /\ moved[n] = actualTask[n] + 1 /\ moved[n] <= Len(kids[n])
      /\ moved \in [Of(Branches) -> Nat] /\ \A b \in Of(Branches) : b # n => moved[b] = actualTask[b]
  BY <1>1 DEF BranchGoesOn, TypeOK
<1>a. RunChild(n, Finish(node[n]), moved) /\ UNCHANGED <<outcome, report>>
  BY DEF BranchGoesOn
<1> HIDE DEF moved
<1>b. moved[n] \in Nat /\ moved[n] >= 1
  BY <1>2
<1> PICK child \in Nodes : child = kids[n][moved[n]]
  BY <1>1, <1>2, <1>b, ChildIsNode
<1>3. child \in Kids(n)
  BY <1>2, <1>b DEF Kids
<1>4. /\ node' = [node EXCEPT ![n] = child] /\ ran' = [ran EXCEPT ![n] = child]
      /\ Start(child, Finish(node[n]), moved) /\ call' = Call("run", child)
  BY <1>a DEF RunChild
<1> PICK w \in Nodes : Way(root, control, node, w) /\ control[w] = n
  BY <1>1, ReportsToBranch DEF Reports
<1> DEFINE at == [node EXCEPT ![n] = Nil]
<1>5. Way(root, control, at, n)
  BY <1>1, WayUpBranch DEF TypeOK
<1>6. \A b \in Of(Branches) : b # n => at[b] = node[b]
  BY DEF TypeOK
<1> HIDE DEF at
<1>7. Tried(n) /\ Eval[node[n]] = call.method
  <2>1. Source(n) = node[n]
    BY <1>1 DEF Source, Of, Branches
  <2> QED
    BY <1>1, <2>1 DEF EInv, Left, Told, Reports
<1>8. class[n] \in {"Sequence", "Priority"} /\ call.method = Going(n)
  BY <1>1 DEF GoesOn, Going
<1>9. /\ Inner[child] \in Of({"Sequence", "Priority"}) => actualTask'[Inner[child]] = 1
      /\ \A b \in Of({"Sequence", "Priority"}) : actualTask'[b] \in {moved[b], 1}
  BY <1>2, <1>4, StartPlaces
<1>10. Tried(n)'
  <2>1. PICK k \in 1..Len(kids[n]) :
          /\ kids[n][k] = node[n] /\ actualTask[n] <= k
          /\ \A j \in 1..k - 1 : kids[n][j] # node[n] => Eval[kids[n][j]] = Going(n)
    BY <1>7, <1>8 DEF Tried
  <2>2. Len(kids[n]) \in Nat
    BY KidsByPlace
  <2>3. ASSUME NEW j \in 1..moved[n] - 1
        PROVE  Eval'[kids[n][j]] = Going(n)
    <3>1. j \in 1..Len(kids[n]) /\ (j = k \/ j \in 1..k - 1)
      <4>1. j \in Nat /\ 1 <= j /\ j <= actualTask[n] /\ actualTask[n] <= k
        BY <1>2, <2>1
      <4> QED
        BY <1>2, <2>2, <4>1
    <3>2. Eval[kids[n][j]] = Going(n)
      BY <1>7, <1>8, <2>1, <3>1
    <3>3. kids[n][j] \in Kids(n)
      BY <3>1 DEF Kids
    <3>4. Eval'[kids[n][j]] = Eval[kids[n][j]]
      BY <1>1, <1>4, <1>a, <3>3, KidsVerdicts
    <3> QED
      BY <3>2, <3>4
  <2>4. node'[n] = child
    BY <1>1, <1>4 DEF TypeOK
  <2>5. actualTask'[n] <= moved[n] /\ moved[n] \in 1..Len(kids[n])
    BY <1>1, <1>2, <1>8, <1>9, <1>b, <2>2 DEF Of
  <2> QED
    BY <1>8, <2>3, <2>4, <2>5 DEF Tried, Going
<1>11. Left'
  <2>1. \A b \in Of({"Sequence", "Priority"}) : b # n => actualTask'[b] \in {actualTask[b], 1}
    BY <1>2, <1>9 DEF Of, Branches
  <2>2. Left /\ UNCHANGED outcome
    BY <1>a DEF EInv
  <2> QED
    BY ONLY TypeOK, TypeOK', Strict, Apart, control \in Controls, control[root] = Nil, <1>1, <1>3, <1>4, <1>5, <1>6,
            <1>10, <2>1, <2>2, LeftDown
<1>12. Fresh'
  BY <1>4, <1>9 DEF Fresh, Call
<1>13. Told' /\ ReportMatches'
  BY <1>4, <1>a, RunQuiet DEF Call
<1> QED
  BY <1>11, <1>12, <1>13 DEF EInv

\* What a task tells is new, and it is below no child that its branches have left.
LEMMA TaskTells ==
  ASSUME TypeOK, TypeOK', Targets, control \in Controls, control[root] = Nil, Path, Own, Strict, Apart, EInv,
         report = "none", RunTask, UNCHANGED root
  PROVE  EInv'
<1>1. PICK n \in Tasks : \E what \in Reports :
        /\ call = Call("run", n) /\ control[n] # Nil
        /\ \/ call' = Call(what, n)
           \/ /\ root \in Globals /\ control[n] = Under[root] /\ Under[root] \in Of(Branches)
              /\ call' = Call(what, Under[root])
  <2>1. OwnReports
    BY DEF Strict
  <2> QED
    BY <2>1, OwnTask, Zenon
<1>2. n \in Nodes /\ class[n] = "task" /\ call.n = n /\ call # NoCall
  BY <1>1 DEF Tasks, Of, Call, NoCall
<1>a. PICK what \in Reports :
        /\ outcome' = [outcome EXCEPT ![n] = what]
        /\ call' = Call(what, IF root \in Globals THEN globals ELSE n)
  BY <1>2 DEF RunTask
<1>b. outcome' = [outcome EXCEPT ![n] = what] /\ call'.method = what
  BY <1>a DEF Call
<1>3. UNCHANGED <<node, ran, actualTask, report, control>>
  BY DEF RunTask
<1>4. call'.n = n \/ (call'.n = control[n] /\ control[n] \in Of(Branches))
  BY <1>1 DEF Call
<1> PICK w \in Nodes : Way(root, control, node, w) /\ Phase(w)
  BY <1>2 DEF Path, NothingOn, SomethingOn
<1>5. n = w /\ n \in Above(control, w)
  BY <1>2, TaskIsFirst DEF Phase
<1>6. outcome'[n] = what /\ \A t \in Tasks : t # n => outcome'[t] = outcome[t]
  BY <1>b DEF TypeOK
<1>7. Eval'[n] = what
  <2>1. Eval'[n] = Judged(outcome', ran', Eval', n)
    BY <1>2, EvalDefined
  <2> QED
    BY <1>2, <1>6, <2>1 DEF Judged, Decorators
<1>8. Told'
  <2>1. CASE call'.n = n
    <3>1. Source(n)' = n
      BY <1>2 DEF Source
    <3> QED
      BY <1>7, <1>b, <2>1, <3>1 DEF Told
  <2>2. CASE call'.n = control[n] /\ control[n] \in Of(Branches)
    <3> PICK c \in Of(Branches) : c = control[n]
      BY <2>2
    <3>1. node[c] = n
      BY <1>5 DEF Way
    <3>2. Source(c)' = n
      BY <1>3, <3>1 DEF Source, Of, Branches
    <3> QED
      BY <1>7, <1>b, <2>2, <3>2 DEF Told
  <2> QED
    BY <1>4, <2>1, <2>2
<1>9. ASSUME NEW b \in Of(Branches), node'[b] # Nil
      PROVE  Tried(b)'
  <2>1. node'[b] = node[b] /\ ran'[b] = ran[b] /\ actualTask'[b] = actualTask[b]
        /\ actualTask[b] \in Nat /\ Tried(b)
    BY <1>3, <1>9 DEF TypeOK, EInv, Left
  <2>2. ASSUME NEW m \in Kids(b), m # node[b]
        PROVE  Eval'[m] = Eval[m]
    <3>1. n \notin Below[m] /\ m \in Nodes
      BY <1>2, <1>5, <1>9, <2>1, <2>2, BelowOne, KidsLower DEF Of
    <3>2. /\ \A t \in Below[m] \cap Tasks : outcome'[t] = outcome[t]
          /\ \A d \in Below[m] \cap Of(Branches) : ran'[d] = ran[d]
      BY <1>3, <1>6, <3>1
    <3> QED
      BY <3>1, <3>2, EvalFrame
  <2> QED
    BY <2>1, <2>2, TriedOn
<1>10. Left'
  BY <1>9 DEF Left
<1>11. Fresh' /\ ReportMatches'
  BY <1>3, <1>b DEF Fresh, ReportMatches, Reports
<1> QED
  BY <1>8, <1>10, <1>11 DEF EInv

\* A branch that ends tells what its children come to.
LEMMA BranchDone ==
  ASSUME TypeOK, TypeOK', Targets, control \in Controls, control[root] = Nil, root \in Nodes,
         Path, Strict, Apart, EInv, report = "none", BranchEnds, UNCHANGED root
  PROVE  EInv'
<1> PICK n \in Nodes : n = call.n
  BY CallsNode DEF BranchEnds
<1> PICK what \in Reports : what = call.method
  BY DEF BranchEnds, Reports
<1>1. /\ n \in Of(Branches) /\ what \in {"success", "fail"} /\ call # NoCall /\ node[n] # Nil
      /\ actualTask[n] \in Nat
  BY DEF BranchEnds, Of, NoCall, TypeOK
<1>2. GoesOn(n, what) => actualTask[n] + 1 > Len(kids[n])
  <2> SUFFICES ASSUME GoesOn(n, what)
               PROVE  actualTask[n] + 1 > Len(kids[n])
    OBVIOUS
  <2>1. [actualTask EXCEPT ![n] = @ + 1][n] = actualTask[n] + 1
    BY <1>1 DEF TypeOK
  <2>2. ~([actualTask EXCEPT ![n] = @ + 1][n] <= Len(kids[n]))
    BY DEF BranchEnds
  <2>3. Len(kids[n]) \in Nat
    BY KidsByPlace
  <2> QED
    BY <1>1, <2>1, <2>2, <2>3
<1>3. /\ node' = [node EXCEPT ![n] = Nil] /\ call' = Call(what, control[n])
      /\ UNCHANGED <<outcome, ran, control, report>>
      /\ \A b \in Of(Branches) : b # n => actualTask'[b] = actualTask[b]
  BY DEF BranchEnds, TypeOK
<1> PICK w \in Nodes : Way(root, control, node, w) /\ control[w] = n
  BY <1>1, ReportsToBranch
<1>4. Way(root, control, node', n) /\ n \in Above(control, n)
  BY <1>1, <1>3, WayUpBranch, AboveClosed DEF TypeOK
<1>5. node[n] \in Kids(n)
  <2>1. node[n] \in Above(control, w) /\ control[node[n]] = n
    BY <1>1 DEF Way
  <2> QED
    BY <2>1, TreesAssumption DEF Controls, Above
<1>6. Eval[n] = what
  <2>1. Source(n) = node[n]
    BY <1>1 DEF Source, Of, Branches
  <2>2. Tried(n) /\ Eval[node[n]] = what
    BY <1>1, <2>1 DEF EInv, Left, Told
  <2> QED
    BY <1>1, <1>2, <1>5, <2>2, BranchDecides
<1>7. Eval' = Eval
  BY <1>3 DEF Eval
<1>8. control[n] # Nil
  BY <1>1 DEF Targets, Reporting, Of, Branches
<1> PICK c \in Nodes : c = control[n]
  BY <1>8 DEF TypeOK
<1>9. Told'
  <2>1. n = Source(c)'
    BY <1>4, HeardFrom DEF Source
  <2> QED
    BY <1>3, <1>6, <1>7, <2>1 DEF Told, Call
<1>10. Left'
  <2>1. \A b \in Of(Branches) : node'[b] \in {node[b], Nil} /\ (node'[b] # Nil => b # n)
    BY <1>1, <1>3 DEF TypeOK
  <2>2. \A b \in Of({"Sequence", "Priority"}) :
          node'[b] # Nil => actualTask'[b] \in {actualTask[b], 1}
    BY <1>3, <2>1 DEF Of, Branches
  <2> QED
    BY <1>3, <1>7, <2>1, <2>2, LeftOn DEF EInv
<1>11. Fresh' /\ ReportMatches'
  BY <1>3 DEF Fresh, ReportMatches, Call, Reports
<1> QED
  BY <1>9, <1>10, <1>11 DEF EInv

\* What a node tells that only passes a report on, or a branch that runs on.
LEMMA NodeTells ==
  ASSUME TypeOK, TypeOK', Targets, control \in Controls, Path, Strict, Apart, EInv,
         call # NoCall,
         TaskReports \/ DecoratorReports \/ BranchRunning \/ TreeRunning \/ TreeEnds
  PROVE  \E what \in Reports : Tell(call.n, what) /\ Eval[call.n] = what
<1> PICK n \in Nodes : n = call.n
  BY CallsNode DEF TaskReports, DecoratorReports, BranchRunning, TreeRunning, TreeEnds, Reports
<1>1. call.method \in Reports
  BY DEF TaskReports, DecoratorReports, BranchRunning, TreeRunning, TreeEnds, Reports
<1>2. Eval[Source(n)] = call.method
  BY <1>1 DEF EInv, Told
<1>3. Eval[n] = Judged(outcome, ran, Eval, n)
  BY EvalDefined
<1>4. CASE TaskReports
  <2>1. class[n] = "task" /\ Tell(n, call.method)
    BY <1>4 DEF TaskReports
  <2>2. Source(n) = n
    BY <2>1 DEF Source
  <2> QED
    BY <1>1, <1>2, <2>1, <2>2
<1>5. CASE DecoratorReports
  <2>1. class[n] \in Decorators /\ Tell(n, Decorated(class[n], call.method))
    BY <1>5, ReportsAreTold DEF DecoratorReports
  <2>2. Source(n) = Kid(n)
    BY <2>1 DEF Source, Branches, Decorators
  <2>3. Eval[n] = Decorated(class[n], call.method)
    BY <1>2, <1>3, <2>1, <2>2 DEF Judged, Decorators
  <2>4. Decorated(class[n], call.method) \in Reports
    BY <1>1, <2>1, DecoratedReports
  <2> QED
    BY <2>1, <2>3, <2>4
<1>6. CASE TreeRunning \/ TreeEnds
  <2>1. class[n] = "tree" /\ Tell(n, call.method)
    BY <1>6 DEF TreeRunning, TreeEnds
  <2>2. Source(n) = Kid(n)
    BY <2>1 DEF Source, Branches
  <2>3. Eval[n] = call.method
    BY <1>2, <1>3, <2>1, <2>2 DEF Judged, Decorators
  <2> QED
    BY <1>1, <2>1, <2>3
<1>7. CASE BranchRunning
  <2>1. n \in Of(Branches) /\ Tell(n, "running") /\ call.method = "running"
    BY <1>7, ReportsAreTold DEF BranchRunning, Of
  <2>2. Source(n) = node[n]
    BY <2>1 DEF Source, Of, Branches
  <2> PICK w \in Nodes : Way(root, control, node, w) /\ node[n] # Nil
    BY <1>1, <2>1, ReportsToBranch
  <2>3. node[n] \in Kids(n)
    <3>1. node[n] \in Above(control, w) /\ control[node[n]] = n /\ n # Nil
      BY <2>1, TreesAssumption DEF Way
    <3> QED
      BY <3>1 DEF Controls, Above
  <2>4. Tried(n) /\ ~GoesOn(n, "running") /\ "running" \in Reports
    BY <2>1 DEF EInv, Left, GoesOn, Reports
  <2>5. Eval[n] = "running"
    BY <1>2, <2>1, <2>2, <2>3, <2>4, BranchDecides
  <2> QED
    BY <2>1, <2>4, <2>5
<1> QED
  BY <1>4, <1>5, <1>6, <1>7

LEMMA EStep ==
  ASSUME TypeOK, TypeOK', Targets, Rooted, Settled, PInv, EInv, Next
  PROVE  EInv'
<1>0. Apart' = Apart
  BY Constant DEF Apart
<1> SUFFICES ASSUME Strict', Apart
             PROVE  EInv'
  BY <1>0 DEF EInv, Left, Told, Fresh, ReportMatches, Strict
<1>a. Strict /\ UNCHANGED root /\ control[root] = Nil /\ root \in Nodes /\ Inner[root] = root
      /\ root \notin Of({"Sequence", "Priority"})
  BY Constant, TreesAssumption, InnerDefined DEF Rooted, TypeOK, Of, Decorators
<1>b. control \in Controls /\ Path /\ Kept /\ Started /\ Own
  BY DEF PInv
<1>c. Left /\ Told /\ Fresh /\ ReportMatches
  BY DEF EInv
<1>d. \A b \in Of({"Sequence", "Priority"}) : b \in Of(Branches)
  BY DEF Of, Branches
<1>1. CASE Update \/ Return
  <2>1. UNCHANGED <<outcome, ran, node, actualTask>>
    BY <1>1 DEF Update, Return
  <2>2. Eval' = Eval
    BY <2>1 DEF Eval
  <2>3. Left'
    BY <1>a, <1>c, <2>1, <2>2, LeftOn
  <2>4. CASE Update
    <3>1. call' = Call("run", root) /\ report' = "none"
      BY <2>4 DEF Update
    <3>2. Fresh'
      BY <1>a, <3>1 DEF Fresh, Call
    <3> QED
      BY <2>3, <3>1, <3>2, RunQuiet DEF EInv, Call
  <2>5. CASE Return
    <3>1. call' = NoCall /\ UNCHANGED <<report, stalled>>
      BY <2>5 DEF Return
    <3>2. Fresh' /\ Told'
      BY <3>1 DEF Fresh, Told, NoCall, Reports
    <3>3. ReportMatches'
      BY <1>a, <1>c, <2>2, <3>1 DEF ReportMatches, Strict
    <3> QED
      BY <2>3, <3>2, <3>3 DEF EInv
  <2> QED
    BY <1>1, <2>4, <2>5
<1>e. ASSUME ~Update, ~Return
      PROVE  call # NoCall /\ call.n \in Nodes
  BY <1>e, CallsNode DEF Next, Step, RunStartedTree, RunTree, CallRun, RunDecorator, RunNoChild,
         RunBranch, ResumeBranch, ResumeNothing, RunTask, RunSilentTask, RunFaultyTask,
         TaskReports, DecoratorReports, BranchRunning, BranchGoesOn, BranchEnds, BranchHasNoNode,
         TreeRunning, TreeEnds, Reports
<1> SUFFICES ASSUME ~Update, ~Return
             PROVE  EInv'
  BY <1>1
<1> PICK n \in Nodes : n = call.n
  BY <1>e
<1> PICK w \in Nodes : Way(root, control, node, w) /\ Phase(w)
  BY <1>a, <1>b, <1>e DEF Path, NothingOn, SomethingOn
<1>f. n \in Above(control, w) /\ report = "none"
  BY <1>e DEF Phase, Settled
<1>3. CASE RunStartedTree
  BY <1>3, <1>a, <1>b, NoStartedTree
<1>4. CASE RunTree \/ RunDecorator \/ CallRun
  <2>1. UNCHANGED <<outcome, ran, node, report>>
    BY <1>4 DEF RunTree, RunDecorator, CallRun
  <2>2. Eval' = Eval
    BY <2>1 DEF Eval
  <2>3. CASE RunTree
    <3>1. class[n] = "tree" /\ call' = Call("call_run", Kid(n))
          /\ Start(Kid(n), active, actualTask)
      BY <2>3 DEF RunTree
    <3>2. Kid(n) \in Nodes
      BY <3>1, KidsByPlace
    <3>3. /\ Inner[Kid(n)] \in Of({"Sequence", "Priority"}) => actualTask'[Inner[Kid(n)]] = 1
          /\ \A b \in Of({"Sequence", "Priority"}) : actualTask'[b] \in {actualTask[b], 1}
      BY <3>1, <3>2, StartPlaces DEF TypeOK
    <3>4. Fresh'
      BY <3>1, <3>3 DEF Fresh, Call
    <3>5. Left'
      BY <1>a, <1>c, <2>1, <2>2, <3>3, LeftOn
    <3> QED
      BY <1>f, <2>1, <3>1, <3>4, <3>5, RunQuiet DEF EInv, Call
  <2>4. CASE RunDecorator \/ CallRun
    <3>1. UNCHANGED actualTask /\ call.method \in {"run", "call_run"}
          /\ call'.method \in {"run", "call_run"}
      BY <2>4 DEF RunDecorator, CallRun, Call
    <3>2. Inner[call'.n] = Inner[n]
      BY <2>4, InnerDefined DEF RunDecorator, CallRun, Call
    <3>3. Fresh'
      BY <1>a, <1>c, <2>1, <3>1, <3>2 DEF Fresh
    <3>4. Left'
      BY <1>a, <1>c, <2>1, <2>2, <3>1, LeftOn
    <3> QED
      BY <1>f, <2>1, <3>1, <3>3, <3>4, RunQuiet DEF EInv
  <2> QED
    BY <1>4, <2>3, <2>4
<1>5. CASE RunBranch
  BY <1>5, <1>a, <1>b, <1>f, BranchBegins
<1>6. CASE ResumeBranch
  <2>1. /\ n \in Of(Branches) /\ call.method = "run" /\ node[n] # Nil
        /\ call' = Call("run", node[n])
        /\ UNCHANGED <<outcome, ran, node, report, actualTask>>
    BY <1>6 DEF ResumeBranch, Of
  <2>2. Eval' = Eval
    BY <2>1 DEF Eval
  <2> PICK z \in Nodes : z = node[n]
    BY <2>1 DEF TypeOK
  <2>3. z \in Above(control, w) /\ control[z] = n
    BY <2>1 DEF Way
  <2>4. w \in Tasks
    <3>1. w # n
      BY <1>b, <2>3, AboveApart
    <3> QED
      BY <2>1, <3>1 DEF Phase, Resting
  <2>5. Inner[z] \in Of(Branches) => node[Inner[z]] # Nil
    BY <1>b, <2>3, <2>4, ResumedInner
  <2>6. Fresh'
    BY <1>d, <2>1, <2>5 DEF Fresh, Call
  <2>7. Left'
    BY <1>a, <1>c, <2>1, <2>2, LeftOn
  <2> QED
    BY <1>f, <2>1, <2>6, <2>7, RunQuiet DEF EInv, Call
<1>7. CASE RunNoChild \/ ResumeNothing \/ RunSilentTask \/ RunFaultyTask \/ BranchHasNoNode
  BY <1>7 DEF RunNoChild, ResumeNothing, RunSilentTask, RunFaultyTask, BranchHasNoNode, LuaError,
              Strict
<1>8. CASE RunTask
  BY <1>8, <1>a, <1>b, <1>f, TaskTells
<1>9. CASE TaskReports \/ DecoratorReports \/ BranchRunning \/ TreeRunning \/ TreeEnds
  <2>1. UNCHANGED <<control, node, outcome, ran, actualTask>>
    BY <1>9 DEF TaskReports, DecoratorReports, BranchRunning, TreeRunning, TreeEnds
  <2>2. Eval' = Eval
    BY <2>1 DEF Eval
  <2>3. PICK what \in Reports : Tell(n, what) /\ Eval[n] = what
    BY <1>9, <1>a, <1>b, <1>e, NodeTells
  <2>4. Told' /\ ReportMatches'
    BY <1>a, <1>b, <1>f, <2>1, <2>2, <2>3, ToldOn
  <2>5. Left'
    BY <1>a, <1>c, <2>1, <2>2, LeftOn
  <2>6. Fresh'
    BY <2>3, TellGoesUp DEF Fresh, Call, NoCall, Reports
  <2> QED
    BY <2>4, <2>5, <2>6 DEF EInv
<1>10. CASE BranchGoesOn
  BY <1>10, <1>a, <1>b, <1>f, BranchContinues
<1>11. CASE BranchEnds
  BY <1>11, <1>a, <1>b, <1>f, BranchDone
<1> QED
  BY <1>3, <1>4, <1>5, <1>6, <1>7, <1>8, <1>9, <1>10, <1>11 DEF Next, Step

LEMMA NextEInv ==
  ASSUME IInv, PInv, IInv', EInv, [Next]_vars
  PROVE  EInv'
<1>1. CASE Next
  BY <1>1, EStep DEF IInv
<1>2. CASE UNCHANGED vars
  <2>1. UNCHANGED <<root, call, actualTask, node, outcome, ran, report, stalled>>
    BY <1>2 DEF vars
  <2>2. Eval' = Eval /\ Strict' = Strict /\ Apart' = Apart
    BY <2>1 DEF Eval, Strict, OwnReports, Apart
  <2>3. Left'
    BY <2>1, <2>2 DEF EInv, Left, Tried
  <2>4. Told' /\ Fresh' /\ ReportMatches'
    BY <2>1, <2>2 DEF EInv, Told, Source, Fresh, ReportMatches, OwnReports
  <2> QED
    BY <2>3, <2>4 DEF EInv
<1> QED
  BY <1>1, <1>2

LEMMA InitEInv ==
  ASSUME Init
  PROVE  EInv
<1>1. call = NoCall /\ report = "none" /\ \A b \in Of(Branches) : node[b] = Nil
  BY DEF Init
<1> QED
  BY <1>1 DEF EInv, Left, Told, Fresh, ReportMatches, NoCall, Reports

\* What the host is told is what the nodes of its tree make of their tasks' last
\* outcomes, in every forest in which the children of a branch have nothing in
\* common, and however often its branches have been resumed.
THEOREM ReportsMatch == Spec => []ReportMatches
<1>1. Init => EInv
  BY InitEInv
<1>2. IInv /\ PInv /\ IInv' /\ EInv /\ [Next]_vars => EInv'
  BY NextEInv
<1>3. EInv => ReportMatches
  BY DEF EInv
<1> QED
  BY <1>1, <1>2, <1>3, PathInvariance, PTL DEF Spec
=============================================================================
