------------------------- MODULE DependencyResolver -------------------------
(***************************************************************************)
(* The resolution of the dependencies of an operator                       *)
(* (pkg/kudoctl/resources/dependencies/resolve.go), which the CLI runs     *)
(* before an installation or an upgrade and the instance controller before *)
(* it executes a plan.                                                     *)
(*                                                                         *)
(* A package depends on the packages of its KudoOperator tasks.  The walk  *)
(* goes depth first through the tasks in their order, collects every       *)
(* package once, records an edge for every task in a graph whose vertices  *)
(* are the positions in the list, stops when the graph has got a cycle,    *)
(* and pins each task to the version it was resolved to.  The recursion is *)
(* a stack of frames, the current one first.                               *)
(*                                                                         *)
(* Packages of one name and version are one package (EqualOperatorVersion) *)
(* and have the same tasks wherever they were found.                       *)
(***************************************************************************)
EXTENDS Naturals, Sequences

CONSTANTS
    Package,    \* the operator versions there are
    Root,       \* the one whose dependencies are resolved
    TaskName,   \* the names of KudoOperator tasks
    Missing,    \* what a task refers to when there is no such package
    TaskLists   \* the lists of KudoOperator tasks that packages may have

Task == [name : TaskName, package : Package \cup {Missing}]

ASSUME PackageAssumption ==
    /\ Root \in Package
    /\ Missing \notin Package
    /\ TaskLists \subseteq Seq(Task)

VARIABLES
    tasks,         \* tasks[p]: the KudoOperator tasks of package p
    dependencies,  \* the packages found so far, the root first
    edges,         \* the graph of their positions
    stack,         \* the calls of dependencyWalk that have not returned
    pinned,        \* pinned[p][n]: what the task n of p has been pinned to
    result

vars == <<tasks, dependencies, edges, stack, pinned, result>>

\* A call of dependencyWalk: the position of the parent, and of its next task.
Frame(v, k) == [vertex |-> v, next |-> k]

Init ==
    /\ tasks \in [Package -> TaskLists]
    /\ dependencies = <<Root>>
    /\ edges = {}
    /\ stack = <<Frame(1, 1)>>
    /\ pinned = [p \in Package |-> [n \in 1 .. Len(tasks[p]) |-> Missing]]
    /\ result = "running"

Parent    == dependencies[Head(stack).vertex]
ChildTask == tasks[Parent][Head(stack).next]
Child     == ChildTask.package

Found(p) == \E i \in DOMAIN dependencies : dependencies[i] = p

IndexOf(p) ==
    CHOOSE i \in DOMAIN dependencies :
        /\ dependencies[i] = p
        /\ \A j \in DOMAIN dependencies : dependencies[j] = p => i <= j

\* Mutant: two ways to one package are taken for a cycle.
AcyclicTree(E, n) ==
    /\ \A S \in SUBSET (1 .. n) :
           S # {} => \E v \in S : \A w \in S : <<v, w>> \notin E
    /\ \A e, f \in E : e[2] = f[2] => e = f

\* Every set of vertices has one without an edge into the set.
Acyclic(E, n) ==
    \A S \in SUBSET (1 .. n) :
        S # {} => \E v \in S : \A w \in S : <<v, w>> \notin E

\* Mutant: the name of the task is not compared.
PinFirst == [pinned EXCEPT ![Parent][1] = Child]

\* The first task with the name is pinned.
IsFirstNamed(ts, k, name) ==
    /\ ts[k].name = name
    /\ \A l \in 1 .. k - 1 : ts[l].name # name

Pin ==
    [pinned EXCEPT ![Parent] =
        [k \in 1 .. Len(tasks[Parent]) |->
            IF IsFirstNamed(tasks[Parent], k, ChildTask.name) THEN Child ELSE @[k]]]

Walking ==
    /\ result = "running"
    /\ stack # <<>>
    /\ Head(stack).next <= Len(tasks[Parent])

\* The parent's frame, when it goes on with its next task.
Advanced == <<Frame(Head(stack).vertex, Head(stack).next + 1)>> \o Tail(stack)

ResolveFails ==
    /\ Walking /\ Child = Missing
    /\ result' = "unresolvable"
    /\ UNCHANGED <<tasks, dependencies, edges, stack, pinned>>

\* Mutant: the parent does not go on with its next task.
AddEdgeAgain ==
    /\ Walking /\ Child # Missing /\ Found(Child)
    /\ pinned' = Pin
    /\ edges' = edges \cup {<<Head(stack).vertex, IndexOf(Child)>>}
    /\ IF Acyclic(edges', Len(dependencies))
       THEN UNCHANGED <<stack, result>>
       ELSE result' = "cyclic" /\ UNCHANGED stack
    /\ UNCHANGED <<tasks, dependencies>>

\* A package that has been found before: only the edge is new.
AddEdge ==
    /\ Walking /\ Child # Missing /\ Found(Child)
    /\ pinned' = Pin
    /\ edges' = edges \cup {<<Head(stack).vertex, IndexOf(Child)>>}
    /\ IF Acyclic(edges', Len(dependencies))
       THEN stack' = Advanced /\ UNCHANGED result
       ELSE result' = "cyclic" /\ UNCHANGED stack
    /\ UNCHANGED <<tasks, dependencies>>

\* Mutant: the dependencies of a new package are not looked at.
AddDependencyOnly ==
    /\ Walking /\ Child # Missing /\ ~ Found(Child)
    /\ pinned' = Pin
    /\ dependencies' = Append(dependencies, Child)
    /\ edges' = edges \cup {<<Head(stack).vertex, Len(dependencies')>>}
    /\ stack' = Advanced
    /\ UNCHANGED <<tasks, result>>

\* Mutant: the edge leads to the vertex after the new one.
AddDependencyOffByOne ==
    /\ Walking /\ Child # Missing /\ ~ Found(Child)
    /\ pinned' = Pin
    /\ dependencies' = Append(dependencies, Child)
    /\ edges' = edges \cup {<<Head(stack).vertex, Len(dependencies') + 1>>}
    /\ stack' = <<Frame(Len(dependencies'), 1)>> \o Advanced
    /\ UNCHANGED <<tasks, result>>

\* A new package: its own dependencies are walked before the next task.  Its
\* vertex has no edge to another one yet, so that there is no new cycle.
AddDependency ==
    /\ Walking /\ Child # Missing /\ ~ Found(Child)
    /\ pinned' = Pin
    /\ dependencies' = Append(dependencies, Child)
    /\ edges' = edges \cup {<<Head(stack).vertex, Len(dependencies')>>}
    /\ stack' = <<Frame(Len(dependencies'), 1)>> \o Advanced
    /\ UNCHANGED <<tasks, result>>

\* All tasks of the parent are resolved.
Return ==
    /\ result = "running" /\ stack # <<>>
    /\ Head(stack).next > Len(tasks[Parent])
    /\ stack' = Tail(stack)
    /\ result' = IF stack' = <<>> THEN "resolved" ELSE result
    /\ UNCHANGED <<tasks, dependencies, edges, pinned>>

Next == ResolveFails \/ AddEdge \/ AddDependency \/ Return

Spec == Init /\ [][Next]_vars

\* The walk is a plain computation.
FairSpec == Spec /\ WF_vars(Next)

(* ----------------------------- properties ----------------------------- *)

\* What package p depends on directly.
DependsOn(p) == {tasks[p][k].package : k \in DOMAIN tasks[p]}

\* The least set of packages that has the root and what its members depend on.
Closed(S) == Root \in S /\ \A p \in S : DependsOn(p) \ {Missing} \subseteq S
Reachable == {p \in Package : \A S \in SUBSET Package : Closed(S) => p \in S}

\* No set of packages lives on itself.
NoCycle(S) ==
    \A T \in SUBSET S : T # {} => \E p \in T : DependsOn(p) \cap T = {}

\* The types: edges and frames are about vertices of the graph, which are the
\* positions in the list.
TypeOK ==
    /\ tasks \in [Package -> TaskLists]
    /\ dependencies \in Seq(Package)
    /\ edges \subseteq (1 .. Len(dependencies)) \X (1 .. Len(dependencies))
    /\ stack \in Seq([vertex : 1 .. Len(dependencies), next : Nat \ {0}])
    /\ DOMAIN pinned = Package
    /\ \A p \in Package :
          pinned[p] \in [1 .. Len(tasks[p]) -> Package \cup {Missing}]
    /\ result \in {"running", "resolved", "cyclic", "unresolvable"}

\* The list has every package once.
FoundOnce ==
    \A i, j \in DOMAIN dependencies :
        dependencies[i] = dependencies[j] => i = j

\* When all dependencies are resolved, the list has exactly the packages the
\* root needs and each of them once, all of them exist and none needs itself (Resolve): the caller
\* installs the list and starts the plan.
ResolvedIsComplete ==
    result = "resolved" =>
        /\ {dependencies[i] : i \in DOMAIN dependencies} = Reachable /\ FoundOnce
        /\ \A p \in Reachable : Missing \notin DependsOn(p)
        /\ NoCycle(Reachable)

\* An operator is refused only for a reason: a package that it needs does not
\* exist, or needs itself (the errors of dependencyWalk).
RefusedForAReason ==
    /\ result = "unresolvable" => \E p \in Reachable : Missing \in DependsOn(p)
    /\ result = "cyclic" => ~ NoCycle(Reachable)

\* Every task whose name is its own has been pinned to the package that it was
\* resolved to, so that the controller finds it (updateResolvedKudoOperatorTask).
PinnedToResolved ==
    result = "resolved" =>
        \A p \in Reachable : \A k \in DOMAIN tasks[p] :
            (\A l \in DOMAIN tasks[p] : tasks[p][l].name = tasks[p][k].name => l = k)
                => pinned[p][k] = tasks[p][k].package

\* The walk has passed task k of the package at vertex v.
Passed(v, k) == \A i \in DOMAIN stack : stack[i].vertex = v => k < stack[i].next

\* What is behind the walk: tasks, and with the number after its last task a
\* package.
Behind ==
    UNION {{<<v, k>> : k \in {j \in 1 .. Len(tasks[dependencies[v]]) + 1 : Passed(v, j)}}
           : v \in 1 .. Len(dependencies)}

\* As long as there is no error, every step of the walk leaves something more
\* behind, and nothing is done again, whatever cycles there are (dependencyWalk).
NeverAgain ==
    [][ result' \in {"running", "resolved"} =>
            Behind \subseteq Behind' /\ Behind # Behind' ]_vars

\* The walk comes to an end, with cycles too: a package is entered once.
WalkEnds == <>(result # "running")
=============================================================================
