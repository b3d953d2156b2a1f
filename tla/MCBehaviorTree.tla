--------------------------- MODULE MCBehaviorTree ---------------------------
(***************************************************************************)
(* A forest for BehaviorTree: every kind of node, in the shapes that       *)
(* scripts build, and the host runs one of its trees.                      *)
(***************************************************************************)
EXTENDS BehaviorTree, TLC

CONSTANTS a, b, c, d,                       \* tasks
          flat, nested, loose, shared, mixed, inner, empty, single, astray, spare,    \* trees
          all, some, each, twice, both, one, none, first, low,  \* branches
          not, wins, loses, also, luck                                \* decorators

MCNodes == {a, b, c, d, flat, nested, loose, shared, mixed, inner, empty, single,
            astray, spare, all, some, each, twice, both, one, none, first, low, not, wins, loses,
            also, luck}

\* Every node with its class and its children.
Forest ==
  [n \in MCNodes |->
     CASE n \in {a, b, c, d} -> <<"task", <<>>>>
       [] n = flat -> <<"tree", <<all>>>>
       [] n = all -> <<"Sequence", <<a, b, c>>>>
       [] n = nested -> <<"tree", <<some>>>>
       [] n = loose -> <<"tree", <<some>>>>
       [] n = some -> <<"Priority", <<not, each>>>>
       [] n = not -> <<"Invert", <<a>>>>
       [] n = each -> <<"Sequence", <<b, c>>>>
       [] n = shared -> <<"tree", <<wins>>>>
       [] n = wins -> <<"AlwaysSucceed", <<twice>>>>
       [] n = twice -> <<"Priority", <<a, b, a>>>>
       [] n = spare -> <<"tree", <<wins>>>>
       [] n = mixed -> <<"tree", <<both>>>>
       [] n = both -> <<"Sequence", <<inner, loses>>>>
       [] n = inner -> <<"tree", <<one>>>>
       [] n = one -> <<"Random", <<a, b>>>>
       [] n = loses -> <<"AlwaysFail", <<c>>>>
       [] n = empty -> <<"tree", <<none>>>>
       [] n = none -> <<"Sequence", <<>>>>
       [] n = single -> <<"tree", <<also>>>>
       [] n = also -> <<"Invert", <<d>>>>
       [] n = astray -> <<"tree", <<first>>>>
       [] n = first -> <<"Sequence", <<luck, b>>>>
       [] n = luck -> <<"AlwaysSucceed", <<low>>>>
       [] n = low -> <<"Sequence", <<a>>>>]

MCclass == [n \in MCNodes |-> Forest[n][1]]
MCkids == [n \in MCNodes |-> Forest[n][2]]
=============================================================================
