---------------------- MODULE DependencyResolverProofs ----------------------
(***************************************************************************)
(* Dependency resolution accepts exactly the right operators, whatever     *)
(* packages there are: proofs about DependencyResolver.                    *)
(*                                                                         *)
(* The invariant says what the walk has achieved so far: the packages in   *)
(* the list are needed (Needed), the tasks that the frames have passed are *)
(* resolved, have their edge and are pinned (Walked), edges are            *)
(* dependencies (EdgesReal), and the graph has no cycle until the walk     *)
(* stops for one (Verdict).                                                *)
(***************************************************************************)
EXTENDS DependencyResolver, FiniteSetTheorems, TLAPS

Needed ==
    /\ Len(dependencies) \in Nat \ {0}
    /\ dependencies[1] = Root
    /\ \A v \in 1 .. Len(dependencies) : dependencies[v] \in Reachable

HasOwnName(p, k) ==
    \A l \in DOMAIN tasks[p] : tasks[p][l].name = tasks[p][k].name => l = k

HasEdge(v, p) ==
    \E w \in 1 .. Len(dependencies) : dependencies[w] = p /\ <<v, w>> \in edges

Walked ==
    \A v \in 1 .. Len(dependencies) : \A k \in DOMAIN tasks[dependencies[v]] :
        Passed(v, k) =>
            /\ tasks[dependencies[v]][k].package # Missing
            /\ HasEdge(v, tasks[dependencies[v]][k].package)
            /\ HasOwnName(dependencies[v], k) =>
                  pinned[dependencies[v]][k] = tasks[dependencies[v]][k].package

EdgesReal ==
    \A v, w \in 1 .. Len(dependencies) :
        <<v, w>> \in edges => dependencies[w] \in DependsOn(dependencies[v])

Verdict ==
    /\ result \in {"running", "resolved"} => Acyclic(edges, Len(dependencies))
    /\ result = "resolved" => stack = <<>>
    /\ result = "cyclic" => ~ Acyclic(edges, Len(dependencies))
    /\ result = "unresolvable" => \E p \in Reachable : Missing \in DependsOn(p)

OneFrame ==
    \A i, j \in DOMAIN stack : stack[i].vertex = stack[j].vertex => i = j

IInv ==
    /\ TypeOK
    /\ FoundOnce
    /\ Needed
    /\ OneFrame
    /\ Walked
    /\ EdgesReal
    /\ Verdict

(* ------------------------------- lemmas ------------------------------- *)

\* What a needed package depends on is needed (Closed, Reachable).
LEMMA ReachableStep ==
    ASSUME NEW p \in Reachable, NEW q \in DependsOn(p), q # Missing, q \in Package
    PROVE  q \in Reachable
BY DEF Reachable, Closed

\* The root is needed.
LEMMA RootReachable == Root \in Reachable
BY PackageAssumption DEF Reachable, Closed

\* The tasks of a package are tasks.
LEMMA TaskType ==
    ASSUME tasks \in [Package -> TaskLists], NEW p \in Package
    PROVE  /\ tasks[p] \in Seq(Task)
           /\ Len(tasks[p]) \in Nat
           /\ DOMAIN tasks[p] = 1 .. Len(tasks[p])
           /\ \A k \in 1 .. Len(tasks[p]) :
                 /\ tasks[p][k].package \in Package \cup {Missing}
                 /\ tasks[p][k].package \in DependsOn(p)
<1>1. tasks[p] \in Seq(Task)
  BY PackageAssumption
<1>2. /\ Len(tasks[p]) \in Nat
      /\ DOMAIN tasks[p] = 1 .. Len(tasks[p])
      /\ \A k \in 1 .. Len(tasks[p]) : tasks[p][k] \in Task
  BY <1>1
<1>3. \A t \in Task : t.package \in Package \cup {Missing}
  BY DEF Task
<1>4. \A k \in 1 .. Len(tasks[p]) : tasks[p][k].package \in DependsOn(p)
  BY <1>2 DEF DependsOn
<1>5. QED
  BY <1>1, <1>2, <1>3, <1>4

\* The frame at the top while the walk goes on (Walking).
LEMMA TopFrame ==
    ASSUME TypeOK, stack # <<>>
    PROVE  /\ Head(stack) = stack[1]
           /\ 1 \in DOMAIN stack
           /\ Head(stack).vertex \in 1 .. Len(dependencies)
           /\ Head(stack).next \in Nat \ {0}
           /\ Parent = dependencies[Head(stack).vertex]
           /\ Parent \in Package
           /\ Len(dependencies) \in Nat
           /\ Len(stack) \in Nat \ {0}
           /\ Tail(stack) \in Seq([vertex : 1 .. Len(dependencies), next : Nat \ {0}])
           /\ Len(Tail(stack)) = Len(stack) - 1
           /\ \A i \in 1 .. Len(stack) - 1 : Tail(stack)[i] = stack[i + 1]
<1> DEFINE F == [vertex : 1 .. Len(dependencies), next : Nat \ {0}]
<1>1. stack \in Seq(F) /\ dependencies \in Seq(Package)
  BY DEF TypeOK
<1> HIDE DEF F
<1>2. /\ Head(stack) = stack[1] /\ 1 \in DOMAIN stack
      /\ Head(stack) \in F /\ Tail(stack) \in Seq(F)
      /\ Len(stack) \in Nat \ {0}
      /\ Len(Tail(stack)) = Len(stack) - 1
      /\ \A i \in 1 .. Len(stack) - 1 : Tail(stack)[i] = stack[i + 1]
  BY <1>1
<1>3. \A f \in F : f.vertex \in 1 .. Len(dependencies) /\ f.next \in Nat \ {0}
  BY DEF F
<1>4. Len(dependencies) \in Nat /\ \A v \in 1 .. Len(dependencies) : dependencies[v] \in Package
  BY <1>1
<1>5. QED
  BY <1>2, <1>3, <1>4 DEF F, Parent

\* The position of a package that was found (indexOf).
LEMMA IndexOfFound ==
    ASSUME TypeOK, FoundOnce, NEW p \in Package, Found(p)
    PROVE  /\ IndexOf(p) \in 1 .. Len(dependencies)
           /\ dependencies[IndexOf(p)] = p
<1>1. PICK i \in DOMAIN dependencies : dependencies[i] = p
  BY DEF Found
<1>2. DOMAIN dependencies = 1 .. Len(dependencies)
  BY DEF TypeOK
<1>3. \A j \in DOMAIN dependencies : dependencies[j] = p => i <= j
  BY <1>1, <1>2 DEF FoundOnce
<1>4. \E x \in DOMAIN dependencies :
         /\ dependencies[x] = p
         /\ \A j \in DOMAIN dependencies : dependencies[j] = p => x <= j
  BY <1>1, <1>3
<1>5. QED
  BY <1>2, <1>4 DEF IndexOf

\* The frames when the parent's goes on.
LEMMA AdvancedFrames ==
    ASSUME TypeOK, stack # <<>>
    PROVE  /\ Advanced \in Seq([vertex : 1 .. Len(dependencies), next : Nat \ {0}])
           /\ Len(Advanced) = Len(stack)
           /\ Advanced[1].vertex = Head(stack).vertex
           /\ Advanced[1].next = Head(stack).next + 1
           /\ \A i \in 2 .. Len(stack) : Advanced[i] = stack[i]
           /\ \A i \in 1 .. Len(stack) : Advanced[i].vertex = stack[i].vertex
<1> DEFINE F == [vertex : 1 .. Len(dependencies), next : Nat \ {0}]
           f == Frame(Head(stack).vertex, Head(stack).next + 1)
<1>1. /\ f \in F
      /\ f.vertex = Head(stack).vertex
      /\ f.next = Head(stack).next + 1
  BY TopFrame DEF Frame
<1>2. /\ Tail(stack) \in Seq(F)
      /\ Len(Tail(stack)) = Len(stack) - 1
      /\ Len(stack) \in Nat \ {0}
      /\ \A i \in 1 .. Len(stack) - 1 : Tail(stack)[i] = stack[i + 1]
  BY TopFrame
<1> HIDE DEF F, f
<1>3. /\ <<f>> \o Tail(stack) \in Seq(F)
      /\ Len(<<f>> \o Tail(stack)) = Len(stack)
      /\ (<<f>> \o Tail(stack))[1] = f
  BY <1>1, <1>2
<1>4. \A i \in 2 .. Len(stack) : (<<f>> \o Tail(stack))[i] = Tail(stack)[i - 1]
  BY <1>1, <1>2
<1>5. \A i \in 2 .. Len(stack) : (<<f>> \o Tail(stack))[i] = stack[i]
  BY <1>2, <1>4
<1>6. \A i \in 1 .. Len(stack) : (<<f>> \o Tail(stack))[i].vertex = stack[i].vertex
  <2>1. (<<f>> \o Tail(stack))[1].vertex = stack[1].vertex
    BY <1>1, <1>3, TopFrame
  <2>2. \A i \in 1 .. Len(stack) : i = 1 \/ i \in 2 .. Len(stack)
    BY <1>2
  <2>3. QED
    BY <1>5, <2>1, <2>2
<1>7. QED
  BY <1>1, <1>3, <1>5, <1>6 DEF Advanced, f, F

\* A new vertex, which has no edge yet, is on no cycle (AddDependency).
LEMMA AcyclicWithNewVertex ==
    ASSUME NEW n \in Nat, NEW E, E \subseteq (1 .. n) \X (1 .. n), Acyclic(E, n),
           NEW v \in 1 .. n
    PROVE  Acyclic(E \cup {<<v, n + 1>>}, n + 1)
<1>1. SUFFICES ASSUME NEW S \in SUBSET (1 .. n + 1), S # {}
               PROVE  \E u \in S : \A w \in S : <<u, w>> \notin E \cup {<<v, n + 1>>}
  BY DEF Acyclic
<1>2. CASE n + 1 \in S
  <2>1. \A w \in S : <<n + 1, w>> \notin E \cup {<<v, n + 1>>}
    OBVIOUS
  <2>2. QED
    BY <1>2, <2>1
<1>3. CASE n + 1 \notin S
  <2>1. S \in SUBSET (1 .. n)
    BY <1>3
  <2>2. PICK u \in S : \A w \in S : <<u, w>> \notin E
    BY <2>1, <1>1 DEF Acyclic
  <2>3. QED
    BY <1>3, <2>2
<1>4. QED
  BY <1>2, <1>3

\* Pinning a task (updateResolvedKudoOperatorTask) touches no other task whose
\* name is its own, and the task itself when its name is.
LEMMA PinKeeps ==
    ASSUME TypeOK, Walking, Child # Missing
    PROVE  /\ DOMAIN Pin = Package
           /\ \A p \in Package : Pin[p] \in [1 .. Len(tasks[p]) -> Package \cup {Missing}]
           /\ \A p \in Package : \A k \in DOMAIN tasks[p] :
                 HasOwnName(p, k) /\ pinned[p][k] = tasks[p][k].package
                     => Pin[p][k] = tasks[p][k].package
           /\ HasOwnName(Parent, Head(stack).next) => Pin[Parent][Head(stack).next] = Child
<1> DEFINE n == Head(stack).next
           len == Len(tasks[Parent])
<1>1. /\ n \in 1 .. len /\ Parent \in Package
      /\ len \in Nat /\ DOMAIN tasks[Parent] = 1 .. len
      /\ Child \in Package /\ Child = tasks[Parent][n].package
      /\ ChildTask = tasks[Parent][n]
  <2>1. n \in Nat \ {0} /\ Parent \in Package /\ n <= len
    BY TopFrame DEF Walking
  <2>2. tasks \in [Package -> TaskLists]
    BY DEF TypeOK
  <2>3. /\ len \in Nat /\ DOMAIN tasks[Parent] = 1 .. len
        /\ n \in 1 .. len => tasks[Parent][n].package \in Package \cup {Missing}
    BY <2>1, <2>2, TaskType
  <2>4. QED
    BY <2>1, <2>3 DEF Child, ChildTask
<1>2. /\ DOMAIN pinned = Package
      /\ \A p \in Package : pinned[p] \in [1 .. Len(tasks[p]) -> Package \cup {Missing}]
      /\ \A p \in Package : DOMAIN tasks[p] = 1 .. Len(tasks[p])
  BY TaskType DEF TypeOK
<1>3. /\ DOMAIN Pin = Package
      /\ \A p \in Package \ {Parent} : Pin[p] = pinned[p]
      /\ Pin[Parent] = [k \in 1 .. len |->
             IF IsFirstNamed(tasks[Parent], k, ChildTask.name) THEN Child
             ELSE pinned[Parent][k]]
  BY <1>1, <1>2 DEF Pin
<1> HIDE DEF n, len
<1>4. \A k \in 1 .. len :
         HasOwnName(Parent, k) /\ IsFirstNamed(tasks[Parent], k, ChildTask.name) => k = n
  BY <1>1 DEF HasOwnName, IsFirstNamed
<1>5. HasOwnName(Parent, n) => IsFirstNamed(tasks[Parent], n, ChildTask.name)
  BY <1>1 DEF HasOwnName, IsFirstNamed
<1>6. Pin[Parent] \in [1 .. len -> Package \cup {Missing}]
  <2>1. \A k \in 1 .. len : pinned[Parent][k] \in Package \cup {Missing}
    BY <1>1, <1>2 DEF len
  <2>2. QED
    BY <1>1, <1>3, <2>1
<1>7. ASSUME NEW k \in 1 .. len, HasOwnName(Parent, k),
             pinned[Parent][k] = tasks[Parent][k].package
      PROVE  Pin[Parent][k] = tasks[Parent][k].package
  BY <1>1, <1>3, <1>4, <1>7
<1>8. HasOwnName(Parent, n) => Pin[Parent][n] = Child
  BY <1>1, <1>3, <1>5
<1>9. QED
  BY <1>1, <1>2, <1>3, <1>6, <1>7, <1>8 DEF n, len

\* What does not change with the packages themselves.
LEMMA SameTasks ==
    ASSUME tasks' = tasks
    PROVE  /\ Reachable' = Reachable
           /\ \A p : DependsOn(p)' = DependsOn(p)
           /\ \A p, k : HasOwnName(p, k)' <=> HasOwnName(p, k)
BY DEF Reachable, Closed, DependsOn, HasOwnName

\* The task that the walk looks at is a dependency of a needed package.
LEMMA ChildNeeded ==
    ASSUME IInv, Walking
    PROVE  /\ Parent \in Reachable
           /\ Child \in DependsOn(Parent)
           /\ Child # Missing => Child \in Reachable /\ Child \in Package
<1>1. /\ TypeOK /\ stack # <<>>
      /\ Head(stack).vertex \in 1 .. Len(dependencies)
      /\ Parent = dependencies[Head(stack).vertex] /\ Parent \in Package
  BY TopFrame DEF IInv, Walking
<1>2. Parent \in Reachable
  BY <1>1 DEF IInv, Needed
<1>3. Head(stack).next \in 1 .. Len(tasks[Parent])
  BY <1>1, TopFrame, TaskType DEF TypeOK, Walking
<1>4. tasks \in [Package -> TaskLists]
  BY <1>1 DEF TypeOK
<1>5. Child \in DependsOn(Parent) /\ Child \in Package \cup {Missing}
  BY <1>1, <1>3, <1>4, TaskType DEF Child, ChildTask
<1>6. QED
  BY <1>2, <1>5, ReachableStep

(* ------------------------------ the steps ----------------------------- *)

LEMMA InitInv == Init => IInv
<1> SUFFICES ASSUME Init PROVE IInv
  OBVIOUS
<1>1. /\ Len(dependencies) = 1 /\ dependencies[1] = Root /\ DOMAIN dependencies = {1}
      /\ dependencies \in Seq(Package)
      /\ Len(stack) = 1 /\ DOMAIN stack = {1} /\ stack[1] = [vertex |-> 1, next |-> 1]
      /\ 1 .. Len(dependencies) = {1}
  BY PackageAssumption DEF Init, Frame
<1>2. stack \in Seq([vertex : 1 .. Len(dependencies), next : Nat \ {0}])
  BY <1>1 DEF Init, Frame
<1>3. TypeOK
  BY <1>1, <1>2 DEF Init, TypeOK
<1>4. FoundOnce /\ Needed /\ OneFrame
  BY <1>1, RootReachable DEF FoundOnce, Needed, OneFrame
<1>5. Walked
  <2>1. \A k \in DOMAIN tasks[Root] : k >= 1 /\ k \in Nat
    BY <1>3, TaskType, PackageAssumption DEF TypeOK
  <2>2. \A k \in DOMAIN tasks[Root] : ~ Passed(1, k)
    BY <1>1, <2>1 DEF Passed
  <2>3. QED
    BY <1>1, <2>2 DEF Walked
<1>6. EdgesReal /\ Verdict
  BY <1>1 DEF Init, EdgesReal, Verdict, Acyclic
<1>7. QED
  BY <1>3, <1>4, <1>5, <1>6 DEF IInv

\* A task without a package stops the walk.
LEMMA ResolveFailsKeeps == IInv /\ ResolveFails => IInv'
<1> SUFFICES ASSUME IInv, ResolveFails PROVE IInv'
  OBVIOUS
<1>1. UNCHANGED <<tasks, dependencies, edges, stack, pinned>> /\ result' = "unresolvable"
  BY DEF ResolveFails
<1>2. (TypeOK /\ FoundOnce /\ Needed /\ OneFrame /\ EdgesReal)'
  BY <1>1, SameTasks
     DEF IInv, TypeOK, FoundOnce, Needed, OneFrame, EdgesReal
<1>3. Walked'
  <2>1. Walked
    BY DEF IInv
  <2>2. QED
    BY <1>1, <2>1 DEF Walked, Passed, HasEdge, HasOwnName
<1>4. Verdict'
  <2>1. \E p \in Reachable : Missing \in DependsOn(p)
    BY ChildNeeded DEF ResolveFails
  <2>2. QED
    BY <1>1, <2>1, SameTasks DEF Verdict
<1>5. QED
  BY <1>2, <1>3, <1>4 DEF IInv

\* A package whose tasks have all been passed is left.
LEMMA ReturnKeeps == IInv /\ Return => IInv'
<1> SUFFICES ASSUME IInv, Return PROVE IInv'
  OBVIOUS
<1>1. /\ UNCHANGED <<tasks, dependencies, edges, pinned>>
      /\ result = "running" /\ stack # <<>> /\ stack' = Tail(stack)
      /\ result' = IF stack' = <<>> THEN "resolved" ELSE result
      /\ Head(stack).next > Len(tasks[Parent])
  BY DEF Return
<1>2. TypeOK
  BY DEF IInv
<1>3. /\ Len(stack) \in Nat \ {0} /\ DOMAIN stack = 1 .. Len(stack)
      /\ Len(stack') = Len(stack) - 1 /\ DOMAIN stack' = 1 .. Len(stack) - 1
      /\ stack' \in Seq([vertex : 1 .. Len(dependencies), next : Nat \ {0}])
      /\ \A i \in 1 .. Len(stack) - 1 : stack'[i] = stack[i + 1]
      /\ Head(stack) = stack[1]
      /\ Parent = dependencies[stack[1].vertex]
  <2>1. DOMAIN stack = 1 .. Len(stack)
    BY <1>2 DEF TypeOK
  <2>2. stack' \in Seq([vertex : 1 .. Len(dependencies), next : Nat \ {0}])
    BY <1>1, <1>2, TopFrame
  <2>3. DOMAIN stack' = 1 .. Len(stack')
    BY <2>2
  <2>4. QED
    BY <1>1, <1>2, <2>1, <2>2, <2>3, TopFrame
<1>4. TypeOK'
  BY <1>1, <1>2, <1>3 DEF TypeOK
<1>5. (FoundOnce /\ Needed /\ EdgesReal)'
  BY <1>1, SameTasks DEF IInv, FoundOnce, Needed, EdgesReal
<1>6. OneFrame'
  <2>1. ASSUME NEW i \in DOMAIN stack', NEW j \in DOMAIN stack',
               stack'[i].vertex = stack'[j].vertex
        PROVE  i = j
    <3>1. i + 1 \in DOMAIN stack /\ j + 1 \in DOMAIN stack /\ i \in Nat /\ j \in Nat
      <4>1. DOMAIN stack' = 1 .. Len(stack) - 1 /\ DOMAIN stack = 1 .. Len(stack)
        BY <1>3
      <4>2. i \in 1 .. Len(stack) - 1 /\ j \in 1 .. Len(stack) - 1
        BY <4>1
      <4>3. Len(stack) \in Nat
        BY <1>3
      <4>4. QED
        BY <4>1, <4>2, <4>3
    <3>2. stack[i + 1].vertex = stack[j + 1].vertex
      BY <1>3, <2>1
    <3>3. QED
      BY <3>1, <3>2 DEF IInv, OneFrame
  <2>2. QED
    BY <2>1 DEF OneFrame
<1>7. Walked'
  <2>1. ASSUME NEW v \in 1 .. Len(dependencies), NEW k \in DOMAIN tasks[dependencies[v]],
               Passed(v, k)'
        PROVE  Passed(v, k)
    <3>1. ASSUME NEW i \in DOMAIN stack, stack[i].vertex = v
          PROVE  k < stack[i].next
      <4>1. CASE i = 1
        <5>1. Parent = dependencies[v] /\ Parent \in Package /\ Head(stack).next \in Nat
          BY <1>1, <1>2, <1>3, <3>1, <4>1, TopFrame
        <5>2. k \in 1 .. Len(tasks[Parent]) /\ Len(tasks[Parent]) \in Nat
          BY <1>2, <5>1, TaskType DEF TypeOK
        <5>3. QED
          BY <1>1, <1>3, <4>1, <5>1, <5>2
      <4>2. CASE i # 1
        <5>1. i - 1 \in DOMAIN stack' /\ stack'[i - 1] = stack[i]
          BY <1>3, <4>2
        <5>2. QED
          BY <2>1, <3>1, <5>1 DEF Passed
      <4>3. QED
        BY <4>1, <4>2
    <3>2. QED
      BY <3>1 DEF Passed
  <2>2. QED
    BY <1>1, <2>1, SameTasks DEF IInv, Walked, HasEdge
<1>8. Verdict'
  BY <1>1 DEF IInv, Verdict, Acyclic
<1>9. QED
  BY <1>4, <1>5, <1>6, <1>7, <1>8 DEF IInv

\* The task that the walk has just dealt with joins those that it has passed,
\* which stay resolved (AddEdge, AddDependency).
LEMMA TaskDealtWith ==
    ASSUME IInv, Walking, Child # Missing, pinned' = Pin, tasks' = tasks,
           Len(dependencies') \in Nat, Len(dependencies) <= Len(dependencies'),
           \A u \in 1 .. Len(dependencies) : dependencies'[u] = dependencies[u],
           edges \subseteq edges',
           \E w \in 1 .. Len(dependencies') :
               dependencies'[w] = Child /\ <<Head(stack).vertex, w>> \in edges',
           NEW v \in 1 .. Len(dependencies), NEW k \in DOMAIN tasks[dependencies[v]],
           Passed(v, k) \/ (v = Head(stack).vertex /\ k = Head(stack).next)
    PROVE  /\ tasks[dependencies[v]][k].package # Missing
           /\ \E w \in 1 .. Len(dependencies') :
                 /\ dependencies'[w] = tasks[dependencies[v]][k].package
                 /\ <<v, w>> \in edges'
           /\ HasOwnName(dependencies[v], k) =>
                 pinned'[dependencies[v]][k] = tasks[dependencies[v]][k].package
<1>1. TypeOK /\ stack # <<>>
  BY DEF IInv, Walking
<1>2. CASE Passed(v, k)
  <2>1. /\ tasks[dependencies[v]][k].package # Missing
        /\ HasEdge(v, tasks[dependencies[v]][k].package)
        /\ HasOwnName(dependencies[v], k) =>
              pinned[dependencies[v]][k] = tasks[dependencies[v]][k].package
    BY <1>2 DEF IInv, Walked
  <2>2. dependencies[v] \in Package /\ Len(dependencies) \in Nat
    BY <1>1 DEF TypeOK
  <2>3. HasOwnName(dependencies[v], k) =>
              pinned'[dependencies[v]][k] = tasks[dependencies[v]][k].package
    BY <1>1, <2>1, <2>2, PinKeeps
  <2>4. PICK w \in 1 .. Len(dependencies) :
              /\ dependencies[w] = tasks[dependencies[v]][k].package
              /\ <<v, w>> \in edges
    BY <2>1 DEF HasEdge
  <2>5. w \in 1 .. Len(dependencies') /\ dependencies'[w] = dependencies[w]
    BY <2>2
  <2>6. QED
    BY <2>1, <2>3, <2>4, <2>5
<1>3. CASE v = Head(stack).vertex /\ k = Head(stack).next
  <2>1. dependencies[v] = Parent /\ tasks[dependencies[v]][k].package = Child
    BY <1>1, <1>3, TopFrame DEF Child, ChildTask
  <2>2. HasOwnName(Parent, k) => pinned'[Parent][k] = Child
    BY <1>1, <1>3, PinKeeps
  <2>3. QED
    BY <1>3, <2>1, <2>2
<1>4. QED
  BY <1>2, <1>3

\* Advancing the parent's frame passes the task that it was at.
LEMMA PassedByAdvance ==
    ASSUME TypeOK, stack # <<>>, NEW v, NEW k \in Nat,
           \A i \in 1 .. Len(stack) : Advanced[i].vertex = v => k < Advanced[i].next
    PROVE  Passed(v, k) \/ (v = Head(stack).vertex /\ k = Head(stack).next)
<1>1. /\ Len(stack) \in Nat \ {0} /\ DOMAIN stack = 1 .. Len(stack)
      /\ Head(stack) = stack[1] /\ Head(stack).next \in Nat
  BY TopFrame DEF TypeOK
<1>2. /\ Advanced[1].vertex = Head(stack).vertex
      /\ Advanced[1].next = Head(stack).next + 1
      /\ \A i \in 2 .. Len(stack) : Advanced[i] = stack[i]
  BY AdvancedFrames
<1>3. SUFFICES ASSUME ~ (v = Head(stack).vertex /\ k = Head(stack).next),
                      NEW i \in 1 .. Len(stack), stack[i].vertex = v
               PROVE  k < stack[i].next
  BY <1>1 DEF Passed
<1>4. CASE i = 1
  <2>1. k < Head(stack).next + 1 /\ v = Head(stack).vertex
    BY <1>1, <1>2, <1>3, <1>4
  <2>2. QED
    BY <1>1, <1>3, <1>4, <2>1
<1>5. CASE i # 1
  <2>1. i \in 2 .. Len(stack)
    BY <1>1, <1>5
  <2>2. QED
    BY <1>2, <1>3, <2>1
<1>6. QED
  BY <1>4, <1>5

\* An edge to a package that was found before.
LEMMA AddEdgeKeeps == IInv /\ AddEdge => IInv'
<1> SUFFICES ASSUME IInv, AddEdge PROVE IInv'
  OBVIOUS
<1> DEFINE x == Head(stack).vertex
           w == IndexOf(Child)
<1>1. /\ Walking /\ Child # Missing /\ pinned' = Pin
      /\ edges' = edges \cup {<<x, w>>}
      /\ UNCHANGED <<tasks, dependencies>>
      /\ \/ Acyclic(edges', Len(dependencies)) /\ stack' = Advanced /\ result' = result
         \/ ~ Acyclic(edges', Len(dependencies)) /\ result' = "cyclic" /\ stack' = stack
  BY DEF AddEdge
<1>2. TypeOK /\ FoundOnce /\ stack # <<>> /\ result = "running"
  BY <1>1 DEF IInv, Walking
<1>3. /\ x \in 1 .. Len(dependencies) /\ dependencies[x] = Parent
      /\ w \in 1 .. Len(dependencies) /\ dependencies[w] = Child
      /\ Len(dependencies) \in Nat
  BY <1>1, <1>2, TopFrame, IndexOfFound, ChildNeeded DEF AddEdge
<1> HIDE DEF x, w
<1>4. TypeOK'
  <2>1. stack' \in Seq([vertex : 1 .. Len(dependencies), next : Nat \ {0}])
    BY <1>1, <1>2, AdvancedFrames DEF TypeOK
  <2>2. /\ DOMAIN pinned' = Package
        /\ \A p \in Package : pinned'[p] \in [1 .. Len(tasks[p]) -> Package \cup {Missing}]
    BY <1>1, <1>2, PinKeeps
  <2>3. edges' \subseteq (1 .. Len(dependencies)) \X (1 .. Len(dependencies))
    BY <1>1, <1>2, <1>3 DEF TypeOK
  <2>4. result' \in {"running", "resolved", "cyclic", "unresolvable"}
    BY <1>1, <1>2
  <2>5. tasks \in [Package -> TaskLists] /\ dependencies \in Seq(Package)
    BY <1>2 DEF TypeOK
  <2>6. QED
    BY <1>1, <2>1, <2>2, <2>3, <2>4, <2>5 DEF TypeOK
<1>5. (FoundOnce /\ Needed)'
  BY <1>1, SameTasks DEF IInv, FoundOnce, Needed
<1>6. OneFrame'
  <2>1. CASE stack' = stack
    BY <2>1 DEF IInv, OneFrame
  <2>2. CASE stack' = Advanced
    <3>1. /\ DOMAIN stack = 1 .. Len(stack) /\ DOMAIN Advanced = 1 .. Len(stack)
          /\ Len(stack) \in Nat
      BY <1>2, AdvancedFrames DEF TypeOK
    <3>2. \A i \in 1 .. Len(stack) : Advanced[i].vertex = stack[i].vertex
      BY <1>2, AdvancedFrames
    <3>3. QED
      BY <2>2, <3>1, <3>2 DEF IInv, OneFrame
  <2>3. QED
    BY <1>1, <2>1, <2>2
<1>7. Walked'
  <2>1. ASSUME NEW v \in 1 .. Len(dependencies), NEW k \in DOMAIN tasks[dependencies[v]],
               Passed(v, k)'
        PROVE  Passed(v, k) \/ (v = Head(stack).vertex /\ k = Head(stack).next)
    <3>1. CASE stack' = stack
      BY <2>1, <3>1 DEF Passed
    <3>2. CASE stack' = Advanced
      <4>1. k \in Nat
        BY <1>2, TaskType DEF TypeOK
      <4>2. DOMAIN Advanced = 1 .. Len(stack)
        BY <1>2, AdvancedFrames
      <4>3. \A i \in 1 .. Len(stack) : Advanced[i].vertex = v => k < Advanced[i].next
        BY <2>1, <3>2, <4>2 DEF Passed
      <4>4. QED
        BY <1>2, <4>1, <4>3, PassedByAdvance
    <3>3. QED
      BY <1>1, <3>1, <3>2
  <2>2. \E u \in 1 .. Len(dependencies') :
            dependencies'[u] = Child /\ <<Head(stack).vertex, u>> \in edges'
    BY <1>1, <1>3 DEF x
  <2>3. ASSUME NEW v \in 1 .. Len(dependencies), NEW k \in DOMAIN tasks[dependencies[v]],
               Passed(v, k)'
        PROVE  /\ tasks[dependencies[v]][k].package # Missing
               /\ \E u \in 1 .. Len(dependencies') :
                     /\ dependencies'[u] = tasks[dependencies[v]][k].package
                     /\ <<v, u>> \in edges'
               /\ HasOwnName(dependencies[v], k) =>
                     pinned'[dependencies[v]][k] = tasks[dependencies[v]][k].package
    <3>1. /\ Len(dependencies') \in Nat /\ Len(dependencies) <= Len(dependencies')
          /\ edges \subseteq edges'
          /\ \A u \in 1 .. Len(dependencies) : dependencies'[u] = dependencies[u]
      BY <1>1, <1>3
    <3>2. Passed(v, k) \/ (v = Head(stack).vertex /\ k = Head(stack).next)
      BY <2>1, <2>3
    <3>3. QED
      BY <1>1, <2>2, <3>1, <3>2, TaskDealtWith
  <2>4. QED
    BY <1>1, <2>3, SameTasks DEF Walked, HasEdge
<1>8. EdgesReal'
  <2>1. Child \in DependsOn(Parent)
    BY <1>1, ChildNeeded
  <2>2. QED
    BY <1>1, <1>3, <2>1, SameTasks DEF IInv, EdgesReal
<1>9. Verdict'
  BY <1>1, <1>2 DEF Verdict, Acyclic
<1>10. QED
  BY <1>4, <1>5, <1>6, <1>7, <1>8, <1>9 DEF IInv

\* A new package, whose own tasks come next.
LEMMA AddDependencyKeeps == IInv /\ AddDependency => IInv'
<1> SUFFICES ASSUME IInv, AddDependency PROVE IInv'
  OBVIOUS
<1> DEFINE x == Head(stack).vertex
           n == Len(dependencies)
<1>1. /\ Walking /\ Child # Missing /\ pinned' = Pin /\ ~ Found(Child)
      /\ dependencies' = Append(dependencies, Child)
      /\ edges' = edges \cup {<<x, Len(dependencies')>>}
      /\ stack' = <<Frame(Len(dependencies'), 1)>> \o Advanced
      /\ UNCHANGED <<tasks, result>>
  BY DEF AddDependency
<1>2. TypeOK /\ FoundOnce /\ stack # <<>> /\ result = "running"
  BY <1>1 DEF IInv, Walking
<1>3. /\ x \in 1 .. n /\ dependencies[x] = Parent /\ n \in Nat
      /\ Child \in Package /\ Child \in Reachable /\ Child \in DependsOn(Parent)
  BY <1>1, <1>2, TopFrame, ChildNeeded
<1>4. /\ dependencies' \in Seq(Package) /\ Len(dependencies') = n + 1
      /\ dependencies'[n + 1] = Child
      /\ \A v \in 1 .. n : dependencies'[v] = dependencies[v]
      /\ DOMAIN dependencies = 1 .. n /\ DOMAIN dependencies' = 1 .. n + 1
  BY <1>1, <1>2, <1>3 DEF TypeOK
<1>5. /\ stack' \in Seq([vertex : 1 .. n + 1, next : Nat \ {0}])
      /\ Len(stack') = Len(stack) + 1
      /\ stack'[1] = [vertex |-> n + 1, next |-> 1]
      /\ \A i \in 1 .. Len(stack) : stack'[i + 1] = Advanced[i]
      /\ DOMAIN stack' = 1 .. Len(stack) + 1
  <2> DEFINE F == [vertex : 1 .. n + 1, next : Nat \ {0}]
             f == Frame(n + 1, 1)
  <2> DEFINE G == [vertex : 1 .. n, next : Nat \ {0}]
  <2>1. G \subseteq F
    BY <1>3
  <2>2. /\ Advanced \in Seq(G)
        /\ Len(Advanced) = Len(stack) /\ Len(stack) \in Nat
    BY <1>2, AdvancedFrames, TopFrame
  <2>3. f \in F /\ f = [vertex |-> n + 1, next |-> 1]
    BY <1>3 DEF Frame
  <2>4. stack' = <<f>> \o Advanced
    BY <1>1, <1>4
  <2> HIDE DEF F, G, f
  <2>5. Advanced \in Seq(F)
    <3>1. \A i \in 1 .. Len(Advanced) : Advanced[i] \in F
      BY <2>1, <2>2
    <3>2. Len(Advanced) \in Nat /\ Advanced = [i \in 1 .. Len(Advanced) |-> Advanced[i]]
      BY <2>2
    <3>3. QED
      BY <3>1, <3>2
  <2>6. /\ <<f>> \o Advanced \in Seq(F)
        /\ Len(<<f>> \o Advanced) = Len(stack) + 1
        /\ (<<f>> \o Advanced)[1] = f
    BY <2>2, <2>3, <2>5
  <2>7. \A i \in 1 .. Len(stack) : (<<f>> \o Advanced)[i + 1] = Advanced[i]
    BY <2>2, <2>3, <2>5
  <2>8. DOMAIN (<<f>> \o Advanced) = 1 .. Len(stack) + 1
    BY <2>6
  <2>9. QED
    BY <2>3, <2>4, <2>6, <2>7, <2>8 DEF F
<1> HIDE DEF x, n
<1>6. TypeOK'
  <2>1. /\ DOMAIN pinned' = Package
        /\ \A p \in Package : pinned'[p] \in [1 .. Len(tasks[p]) -> Package \cup {Missing}]
    BY <1>1, <1>2, PinKeeps
  <2>2. edges \subseteq (1 .. n) \X (1 .. n)
    BY <1>2 DEF TypeOK, n
  <2>3. edges' \subseteq (1 .. n + 1) \X (1 .. n + 1)
    BY <1>1, <1>3, <1>4, <2>2
  <2>4. tasks \in [Package -> TaskLists]
    BY <1>2 DEF TypeOK
  <2>5. QED
    BY <1>1, <1>2, <1>4, <1>5, <2>1, <2>3, <2>4 DEF TypeOK
<1>7. FoundOnce'
  <2>1. \A v \in 1 .. n : dependencies[v] # Child
    BY <1>1, <1>4 DEF Found
  <2>2. QED
    BY <1>2, <1>3, <1>4, <2>1 DEF FoundOnce
<1>8. Needed'
  <2>1. dependencies[1] = Root /\ n \in Nat \ {0} /\ \A v \in 1 .. n : dependencies[v] \in Reachable
    BY DEF IInv, Needed, n
  <2>2. \A v \in 1 .. n + 1 : dependencies'[v] \in Reachable
    BY <1>3, <1>4, <2>1
  <2>3. QED
    BY <1>1, <1>4, <2>1, <2>2, SameTasks DEF Needed
<1>9. OneFrame'
  <2>1. /\ DOMAIN stack = 1 .. Len(stack) /\ Len(stack) \in Nat
        /\ \A i \in 1 .. Len(stack) : stack[i].vertex \in 1 .. n
    <3> DEFINE F == [vertex : 1 .. n, next : Nat \ {0}]
    <3>1. stack \in Seq(F)
      BY <1>2 DEF TypeOK, n
    <3> HIDE DEF F
    <3>2. /\ DOMAIN stack = 1 .. Len(stack) /\ Len(stack) \in Nat
          /\ \A i \in 1 .. Len(stack) : stack[i] \in F
      BY <3>1
    <3>3. \A g \in F : g.vertex \in 1 .. n
      BY DEF F
    <3>4. QED
      BY <3>2, <3>3
  <2>2. \A i \in 1 .. Len(stack) : Advanced[i].vertex = stack[i].vertex
    BY <1>2, AdvancedFrames
  <2>3. \A i \in 1 .. Len(stack) : stack'[i + 1].vertex = stack[i].vertex
    BY <1>5, <2>2
  <2>4. ASSUME NEW i \in 1 .. Len(stack) + 1, NEW j \in 1 .. Len(stack) + 1,
               stack'[i].vertex = stack'[j].vertex, i # 1, j # 1
        PROVE  i = j
    <3>1. i - 1 \in 1 .. Len(stack) /\ j - 1 \in 1 .. Len(stack)
      BY <2>1, <2>4
    <3>2. stack[i - 1].vertex = stack[j - 1].vertex
      BY <2>3, <2>4, <3>1
    <3>3. i - 1 = j - 1
      BY <2>1, <3>1, <3>2 DEF IInv, OneFrame
    <3>4. QED
      BY <2>1, <3>3
  <2>5. \A i \in 1 .. Len(stack) + 1 : i # 1 => stack'[i].vertex \in 1 .. n
    <3>1. \A i \in 1 .. Len(stack) : stack'[i + 1].vertex \in 1 .. n
      BY <2>1, <2>3
    <3>2. \A i \in 1 .. Len(stack) + 1 : i # 1 => i - 1 \in 1 .. Len(stack) /\ i = (i - 1) + 1
      BY <2>1
    <3>3. QED
      BY <3>1, <3>2
  <2>6. stack'[1].vertex = n + 1 /\ n + 1 \notin 1 .. n
    BY <1>3, <1>5
  <2>7. QED
    BY <1>5, <2>4, <2>5, <2>6 DEF OneFrame
<1>10. Walked'
  <2>1. \E u \in 1 .. Len(dependencies') :
            dependencies'[u] = Child /\ <<Head(stack).vertex, u>> \in edges'
    BY <1>1, <1>3, <1>4 DEF x
  <2>2. \A i \in 1 .. Len(stack) : i + 1 \in DOMAIN stack' /\ stack'[i + 1] = Advanced[i]
    BY <1>2, <1>5, TopFrame
  <2>3. ASSUME NEW v \in 1 .. n, NEW k \in DOMAIN tasks[dependencies[v]], Passed(v, k)'
        PROVE  /\ tasks[dependencies[v]][k].package # Missing
               /\ \E u \in 1 .. Len(dependencies') :
                     /\ dependencies'[u] = tasks[dependencies[v]][k].package
                     /\ <<v, u>> \in edges'
               /\ HasOwnName(dependencies[v], k) =>
                     pinned'[dependencies[v]][k] = tasks[dependencies[v]][k].package
    <3>1. k \in Nat
      <4>1. dependencies[v] \in Package /\ tasks \in [Package -> TaskLists]
        BY <1>2 DEF TypeOK, n
      <4>2. k \in 1 .. Len(tasks[dependencies[v]])
        BY <4>1, TaskType
      <4>3. QED
        BY <4>2
    <3>2. \A i \in 1 .. Len(stack) : Advanced[i].vertex = v => k < Advanced[i].next
      BY <2>2, <2>3 DEF Passed
    <3>3. Passed(v, k) \/ (v = Head(stack).vertex /\ k = Head(stack).next)
      BY <1>2, <3>1, <3>2, PassedByAdvance
    <3>4. /\ Len(dependencies') \in Nat /\ Len(dependencies) <= Len(dependencies')
          /\ edges \subseteq edges' /\ v \in 1 .. Len(dependencies)
          /\ \A u \in 1 .. Len(dependencies) : dependencies'[u] = dependencies[u]
      BY <1>1, <1>3, <1>4 DEF n
    <3>5. QED
      BY <1>1, <2>1, <3>3, <3>4, TaskDealtWith
  <2>4. ASSUME NEW v, v = n + 1, NEW k \in DOMAIN tasks[Child]
        PROVE  ~ Passed(v, k)'
    <3>1. k \in Nat /\ k >= 1
      BY <1>2, <1>3, TaskType DEF TypeOK
    <3>2. 1 \in DOMAIN stack' /\ stack'[1].vertex = v /\ stack'[1].next = 1
      BY <1>2, <1>5, <2>4, TopFrame
    <3>3. QED
      BY <3>1, <3>2 DEF Passed
  <2>5. ASSUME NEW v \in 1 .. Len(dependencies'), NEW k \in DOMAIN tasks'[dependencies'[v]],
               Passed(v, k)'
        PROVE  /\ tasks'[dependencies'[v]][k].package # Missing
               /\ \E u \in 1 .. Len(dependencies') :
                     /\ dependencies'[u] = tasks'[dependencies'[v]][k].package
                     /\ <<v, u>> \in edges'
               /\ HasOwnName(dependencies'[v], k) =>
                     pinned'[dependencies'[v]][k] = tasks'[dependencies'[v]][k].package
    <3>1. CASE v = n + 1
      BY <1>1, <1>4, <2>4, <2>5, <3>1
    <3>2. CASE v # n + 1
      <4>1. v \in 1 .. n /\ dependencies'[v] = dependencies[v] /\ tasks' = tasks
        BY <1>1, <1>3, <1>4, <3>2
      <4>2. QED
        BY <2>3, <2>5, <4>1
    <3>3. QED
      BY <3>1, <3>2
  <2>6. \A v, k : HasOwnName(dependencies[v], k)' <=> HasOwnName(dependencies'[v], k)
    BY <1>1 DEF HasOwnName
  <2>7. QED
    BY <2>5, <2>6 DEF Walked, HasEdge
<1>11. EdgesReal'
  <2>1. ASSUME NEW v \in 1 .. n + 1, NEW u \in 1 .. n + 1, <<v, u>> \in edges'
        PROVE  dependencies'[u] \in DependsOn(dependencies'[v])
    <3>1. CASE <<v, u>> \in edges
      <4>1. v \in 1 .. n /\ u \in 1 .. n
        BY <1>2, <3>1 DEF TypeOK, n
      <4>2. QED
        BY <1>4, <3>1, <4>1 DEF IInv, EdgesReal, n
    <3>2. CASE v = x /\ u = n + 1
      BY <1>3, <1>4, <3>2
    <3>3. QED
      BY <1>1, <1>4, <2>1, <3>1, <3>2
  <2>2. QED
    BY <1>1, <1>4, <2>1, SameTasks DEF EdgesReal
<1>12. Verdict'
  <2>1. Acyclic(edges, n) /\ edges \subseteq (1 .. n) \X (1 .. n)
    BY <1>2 DEF IInv, Verdict, TypeOK, n
  <2>2. Acyclic(edges \cup {<<x, n + 1>>}, n + 1)
    BY <1>3, <2>1, AcyclicWithNewVertex
  <2>3. Acyclic(edges', Len(dependencies'))
    BY <1>1, <1>4, <2>2
  <2>4. QED
    BY <1>1, <1>2, <2>3 DEF Verdict, Acyclic
<1>13. QED
  BY <1>6, <1>7, <1>8, <1>9, <1>10, <1>11, <1>12 DEF IInv

\* The invariant is inductive.
LEMMA NextKeeps == IInv /\ [Next]_vars => IInv'
<1> SUFFICES ASSUME IInv, [Next]_vars PROVE IInv'
  OBVIOUS
<1>1. CASE ResolveFails
  BY <1>1, ResolveFailsKeeps
<1>2. CASE AddEdge
  BY <1>2, AddEdgeKeeps
<1>3. CASE AddDependency
  BY <1>3, AddDependencyKeeps
<1>4. CASE Return
  BY <1>4, ReturnKeeps
<1>5. CASE UNCHANGED vars
  <2>1. UNCHANGED <<tasks, dependencies, edges, stack, pinned, result>>
    BY <1>5 DEF vars
  <2>2. (TypeOK /\ FoundOnce /\ Needed /\ OneFrame /\ EdgesReal)'
    BY <2>1, SameTasks DEF IInv, TypeOK, FoundOnce, Needed, OneFrame, EdgesReal
  <2>3. Walked'
    <3>1. Walked
      BY DEF IInv
    <3>2. \A v, k : /\ Passed(v, k)' <=> Passed(v, k)
                    /\ HasEdge(v, k)' <=> HasEdge(v, k)
      BY <2>1 DEF Passed, HasEdge
    <3>3. QED
      BY <2>1, <3>1, <3>2, SameTasks DEF Walked
  <2>4. Verdict'
    BY <2>1, SameTasks DEF IInv, Verdict, Acyclic
  <2>5. QED
    BY <2>2, <2>3, <2>4 DEF IInv
<1>6. QED
  BY <1>1, <1>2, <1>3, <1>4, <1>5 DEF Next

(* ------------------------------ the progress -------------------------- *)

\* No frame is further than after the last task of its package.
FramesInRange ==
    \A i \in DOMAIN stack : stack[i].next <= Len(tasks[dependencies[stack[i].vertex]]) + 1

\* Where the frames of a call of dependencyWalk come from: they wait below the
\* top, the parent has gone on, or the call is for a package just found.
WasWaiting(f) == \E j \in 2 .. Len(stack) : f = stack[j]
HasGoneOn(f) ==
    /\ f.vertex = Head(stack).vertex /\ f.next = Head(stack).next + 1
    /\ Head(stack).next <= Len(tasks[Parent])
IsNew(f) ==
    /\ f.vertex = Len(dependencies) + 1 /\ f.next = 1
    /\ dependencies' = Append(dependencies, Child) /\ Child \in Package

\* The frames after a step that is no error.
LEMMA FramesAfter ==
    ASSUME IInv, (AddEdge /\ result' # "cyclic") \/ AddDependency \/ Return
    PROVE  \A i \in DOMAIN stack' : WasWaiting(stack'[i]) \/ HasGoneOn(stack'[i]) \/ IsNew(stack'[i])
<1>1. TypeOK /\ stack # <<>>
  BY DEF IInv, AddEdge, AddDependency, Return, Walking
<1>2. Len(stack) \in Nat \ {0} /\ Len(dependencies) \in Nat
  BY <1>1, TopFrame
<1>3. ASSUME Walking, NEW i \in 1 .. Len(stack)
      PROVE  WasWaiting(Advanced[i]) \/ HasGoneOn(Advanced[i])
  <2>1. CASE i = 1
    BY <1>1, <1>3, <2>1, AdvancedFrames DEF HasGoneOn, Walking
  <2>2. CASE i # 1
    <3>1. i \in 2 .. Len(stack)
      BY <1>2, <2>2
    <3> QED BY <1>1, <3>1, AdvancedFrames DEF WasWaiting
  <2> QED BY <2>1, <2>2
<1>4. DOMAIN Advanced = 1 .. Len(stack)
  BY <1>1, AdvancedFrames
<1>5. CASE AddEdge /\ result' # "cyclic"
  <2>1. Walking /\ stack' = Advanced
    BY <1>5 DEF AddEdge
  <2> QED BY <1>3, <1>4, <2>1
<1>6. CASE AddDependency
  <2> DEFINE F == [vertex : 1 .. Len(dependencies), next : Nat \ {0}]
             f == Frame(Len(dependencies'), 1)
  <2>1. /\ Walking /\ Child # Missing
        /\ stack' = <<f>> \o Advanced /\ dependencies' = Append(dependencies, Child)
    BY <1>6 DEF AddDependency
  <2>2. Child \in Package /\ Len(dependencies') = Len(dependencies) + 1
    BY <1>1, <2>1, ChildNeeded DEF TypeOK
  <2>3. f.vertex = Len(dependencies) + 1 /\ f.next = 1
    BY <2>2 DEF Frame
  <2>4. Advanced \in Seq(F) /\ Len(Advanced) = Len(stack)
    BY <1>1, AdvancedFrames
  <2> HIDE DEF F, f
  <2>5. /\ stack'[1] = f /\ DOMAIN stack' = 1 .. Len(stack) + 1
        /\ \A i \in 2 .. Len(stack) + 1 : stack'[i] = Advanced[i - 1] /\ i - 1 \in 1 .. Len(stack)
    BY <1>2, <2>1, <2>4
  <2>6. IsNew(stack'[1])
    BY <2>1, <2>2, <2>3, <2>5 DEF IsNew
  <2>7. \A i \in DOMAIN stack' : i = 1 \/ i \in 2 .. Len(stack) + 1
    BY <1>2, <2>5
  <2> QED BY <1>3, <2>1, <2>5, <2>6, <2>7
<1>7. CASE Return
  <2>1. stack' = Tail(stack)
    BY <1>7 DEF Return
  <2>2. /\ DOMAIN stack' = 1 .. Len(stack) - 1
        /\ \A i \in 1 .. Len(stack) - 1 : stack'[i] = stack[i + 1] /\ i + 1 \in 2 .. Len(stack)
    BY <1>1, <1>2, <2>1, TopFrame
  <2> QED BY <2>2 DEF WasWaiting
<1> QED BY <1>5, <1>6, <1>7

\* The packages that were found stay where they are in the list.
LEMMA ListGrows ==
    ASSUME IInv, Next
    PROVE  /\ tasks' = tasks
           /\ Len(dependencies) \in Nat /\ Len(dependencies') \in Nat
           /\ Len(dependencies) <= Len(dependencies')
           /\ \A v \in 1 .. Len(dependencies) :
                 /\ dependencies'[v] = dependencies[v] /\ dependencies[v] \in Package
                 /\ Len(tasks[dependencies[v]]) \in Nat
<1>1. dependencies \in Seq(Package) /\ Len(dependencies) \in Nat /\ tasks \in [Package -> TaskLists]
  BY DEF IInv, TypeOK
<1>2. CASE dependencies' = dependencies
  BY <1>1, <1>2, TaskType DEF Next, ResolveFails, AddEdge, AddDependency, Return
<1>3. CASE AddDependency
  <2>1. Child \in Package
    BY <1>3, ChildNeeded DEF AddDependency
  <2>2. dependencies' = Append(dependencies, Child) /\ tasks' = tasks
    BY <1>3 DEF AddDependency
  <2>3. /\ Len(dependencies') = Len(dependencies) + 1
        /\ \A v \in 1 .. Len(dependencies) : dependencies'[v] = dependencies[v]
    BY <1>1, <2>1, <2>2
  <2> QED BY <1>1, <2>2, <2>3, TaskType
<1> QED BY <1>2, <1>3 DEF Next, ResolveFails, AddEdge, Return

\* A frame is about a vertex.
LEMMA FrameType ==
    ASSUME TypeOK, NEW i \in DOMAIN stack
    PROVE  stack[i].vertex \in 1 .. Len(dependencies) /\ stack[i].next \in Nat \ {0}
<1> DEFINE F == [vertex : 1 .. Len(dependencies), next : Nat \ {0}]
<1>1. \A f \in F : f.vertex \in 1 .. Len(dependencies) /\ f.next \in Nat \ {0}
  OBVIOUS
<1>2. stack \in Seq(F)
  BY DEF TypeOK
<1> HIDE DEF F
<1> QED BY <1>1, <1>2

\* The frames stay in range: a parent only goes on from one of its tasks.
LEMMA FramesStayInRange == IInv /\ FramesInRange /\ [Next]_vars => FramesInRange'
<1> SUFFICES ASSUME IInv, FramesInRange, [Next]_vars PROVE FramesInRange'
  OBVIOUS
<1>1. TypeOK
  BY DEF IInv
<1>2. CASE UNCHANGED <<tasks, dependencies, stack>>
  BY <1>2 DEF FramesInRange
<1>3. CASE (AddEdge /\ result' # "cyclic") \/ AddDependency \/ Return
  <2>1. stack # <<>> /\ Next
    BY <1>3 DEF AddEdge, AddDependency, Return, Walking, Next
  <2>2. /\ Head(stack).vertex \in 1 .. Len(dependencies) /\ Head(stack).next \in Nat
        /\ Parent = dependencies[Head(stack).vertex]
        /\ DOMAIN stack = 1 .. Len(stack) /\ Len(stack) \in Nat
    BY <1>1, <2>1, TopFrame DEF TypeOK
  <2>3. ASSUME NEW i \in DOMAIN stack'
        PROVE  stack'[i].next <= Len(tasks'[dependencies'[stack'[i].vertex]]) + 1
    <3> DEFINE f == stack'[i]
    <3>1. CASE WasWaiting(f)
      <4>1. PICK j \in 2 .. Len(stack) : f = stack[j]
        BY <3>1 DEF WasWaiting
      <4>2. j \in DOMAIN stack /\ stack[j].vertex \in 1 .. Len(dependencies)
        BY <1>1, <2>2, FrameType
      <4> QED BY <1>1, <2>1, <4>1, <4>2, ListGrows DEF FramesInRange
    <3>2. CASE HasGoneOn(f)
      <4>1. Len(tasks[Parent]) \in Nat /\ tasks'[dependencies'[f.vertex]] = tasks[Parent]
        BY <1>1, <2>1, <2>2, <3>2, ListGrows DEF HasGoneOn
      <4> QED BY <2>2, <3>2, <4>1 DEF HasGoneOn
    <3>3. CASE IsNew(f)
      <4>1. dependencies'[f.vertex] = Child /\ Child \in Package /\ tasks' = tasks
        BY <1>1, <2>1, <3>3, ListGrows DEF IsNew, TypeOK
      <4>2. Len(tasks[Child]) \in Nat
        BY <1>1, <4>1, TaskType DEF TypeOK
      <4> QED BY <3>3, <4>1, <4>2 DEF IsNew
    <3> QED BY <1>3, <3>1, <3>2, <3>3, FramesAfter
  <2> QED BY <2>3 DEF FramesInRange
<1>4. CASE AddEdge /\ result' = "cyclic"
  BY <1>2, <1>4 DEF AddEdge, Walking
<1> QED BY <1>2, <1>3, <1>4 DEF Next, ResolveFails, vars

\* What is behind the walk, as a predicate.
LEMMA BehindMeans ==
    ASSUME NEW v, NEW k
    PROVE  <<v, k>> \in Behind <=>
               /\ v \in 1 .. Len(dependencies)
               /\ k \in 1 .. Len(tasks[dependencies[v]]) + 1
               /\ Passed(v, k)
BY DEF Behind

LEMMA BehindMeansNext ==
    ASSUME NEW v, NEW k
    PROVE  <<v, k>> \in Behind' <=>
               /\ v \in 1 .. Len(dependencies')
               /\ k \in 1 .. Len(tasks'[dependencies'[v]]) + 1
               /\ Passed(v, k)'
BY DEF Behind

\* A step that is no error passes the task, or the end, that the walk was at.
LEMMA StepAdvances ==
    ASSUME IInv, FramesInRange, Next, result' \in {"running", "resolved"}
    PROVE  Behind \subseteq Behind' /\ Behind # Behind'
<1> PICK v, k : v = Head(stack).vertex /\ k = Head(stack).next
  OBVIOUS
<1>1. (AddEdge /\ result' # "cyclic") \/ AddDependency \/ Return
  BY DEF Next, ResolveFails
<1>2. TypeOK /\ stack # <<>>
  BY <1>1 DEF IInv, AddEdge, AddDependency, Return, Walking
<1>3. /\ v \in 1 .. Len(dependencies) /\ k \in Nat \ {0} /\ Head(stack) = stack[1]
      /\ 1 \in DOMAIN stack /\ DOMAIN stack = 1 .. Len(stack) /\ Len(stack) \in Nat
  BY <1>2, TopFrame DEF TypeOK
<1>4. k <= Len(tasks[dependencies[v]]) + 1
  BY <1>3 DEF FramesInRange
<1>5. ASSUME NEW u \in 1 .. Len(dependencies), NEW l \in Nat,
             Passed(u, l) \/ (u = v /\ l = k)
      PROVE  Passed(u, l)'
  <2> SUFFICES ASSUME NEW i \in DOMAIN stack', stack'[i].vertex = u
               PROVE  l < stack'[i].next
    BY DEF Passed
  <2>1. CASE WasWaiting(stack'[i])
    <3>1. PICK j \in 2 .. Len(stack) : stack'[i] = stack[j]
      BY <2>1 DEF WasWaiting
    <3>2. j \in DOMAIN stack /\ j # 1
      BY <1>3
    <3>3. stack[j].vertex # v
      BY <1>3, <3>2 DEF IInv, OneFrame
    <3> QED BY <1>5, <3>1, <3>2, <3>3 DEF Passed
  <2>2. CASE HasGoneOn(stack'[i])
    <3>1. u = v /\ stack'[i].next = k + 1
      BY <2>2 DEF HasGoneOn
    <3>2. l <= k
      BY <1>3, <1>5, <3>1 DEF Passed
    <3> QED BY <1>3, <3>1, <3>2
  <2>3. CASE IsNew(stack'[i])
    BY <1>2, <2>3, TopFrame DEF IsNew
  <2> QED BY <1>1, <2>1, <2>2, <2>3, FramesAfter
<1>6. Behind \subseteq Behind'
  <2> SUFFICES ASSUME NEW b \in Behind PROVE b \in Behind'
    OBVIOUS
  <2>1. PICK u \in 1 .. Len(dependencies) : \E j \in 1 .. Len(tasks[dependencies[u]]) + 1 :
           b = <<u, j>> /\ Passed(u, j)
    BY DEF Behind
  <2>2. PICK l \in 1 .. Len(tasks[dependencies[u]]) + 1 : b = <<u, l>> /\ Passed(u, l)
    BY <2>1
  <2>3. Passed(u, l)'
    BY <1>5, <2>2, ListGrows
  <2>4. u \in 1 .. Len(dependencies') /\ l \in 1 .. Len(tasks'[dependencies'[u]]) + 1
    BY ListGrows
  <2> QED BY <2>2, <2>3, <2>4, BehindMeansNext
<1>7. <<v, k>> \notin Behind
  BY <1>3, BehindMeans DEF Passed
<1>8. <<v, k>> \in Behind'
  <2>1. Passed(v, k)'
    BY <1>3, <1>5
  <2>2. v \in 1 .. Len(dependencies') /\ k \in 1 .. Len(tasks'[dependencies'[v]]) + 1
    BY <1>2, <1>3, <1>4, ListGrows
  <2> QED BY <2>1, <2>2, BehindMeansNext
<1> QED BY <1>6, <1>7, <1>8

\* A list without repetitions is not longer than there are packages.
LEMMA ListBounded ==
    ASSUME TypeOK, FoundOnce, IsFiniteSet(Package)
    PROVE  Len(dependencies) <= Cardinality(Package)
<1>1. /\ dependencies \in Seq(Package) /\ Len(dependencies) \in Nat
      /\ dependencies \in [1 .. Len(dependencies) -> Package]
  BY DEF TypeOK
<1>2. dependencies \in Injection(1 .. Len(dependencies), Package)
  BY <1>1 DEF Injection, IsInjective, FoundOnce
<1>3. Cardinality(1 .. Len(dependencies)) <= Cardinality(Package)
  BY <1>2, FS_Injection
<1>4. Cardinality(1 .. Len(dependencies)) = Len(dependencies)
  BY <1>1, FS_Interval
<1> QED BY <1>3, <1>4

(* --------------------- what the invariant implies --------------------- *)

\* After the walk every task of a package in the list has been passed.
LEMMA AllPassed ==
    ASSUME IInv, result = "resolved",
           NEW v \in 1 .. Len(dependencies), NEW q \in DependsOn(dependencies[v])
    PROVE  q # Missing /\ HasEdge(v, q)
<1>1. PICK k \in DOMAIN tasks[dependencies[v]] : q = tasks[dependencies[v]][k].package
  BY DEF DependsOn
<1>2. Passed(v, k)
  BY DEF IInv, Verdict, Passed
<1>3. QED
  BY <1>1, <1>2 DEF IInv, Walked

\* The list has all packages that are needed, and no others.
LEMMA ListIsReachable ==
    ASSUME IInv, result = "resolved"
    PROVE  {dependencies[i] : i \in DOMAIN dependencies} = Reachable
<1> DEFINE D == {dependencies[i] : i \in DOMAIN dependencies}
<1>1. /\ DOMAIN dependencies = 1 .. Len(dependencies)
      /\ D \in SUBSET Package
  BY DEF IInv, TypeOK
<1>2. D \subseteq Reachable
  BY <1>1 DEF IInv, Needed
<1>3. Root \in D
  BY <1>1 DEF IInv, Needed
<1>4. ASSUME NEW p \in D, NEW q \in DependsOn(p)
      PROVE  q \in D
  <2>1. PICK v \in 1 .. Len(dependencies) : dependencies[v] = p
    BY <1>1, <1>4
  <2>2. HasEdge(v, q)
    BY <1>4, <2>1, AllPassed
  <2>3. QED
    BY <1>1, <2>2 DEF HasEdge
<1>5. Closed(D)
  BY <1>3, <1>4 DEF Closed
<1>6. Reachable \subseteq D
  BY <1>1, <1>5 DEF Reachable
<1>7. QED
  BY <1>2, <1>6

\* A set of needed packages that lived on itself would be a set of vertices on
\* cycles.
LEMMA NoCycleWhenResolved ==
    ASSUME IInv, result = "resolved"
    PROVE  NoCycle(Reachable)
<1>1. SUFFICES ASSUME NEW T \in SUBSET Reachable, T # {}
               PROVE  \E p \in T : DependsOn(p) \cap T = {}
  BY DEF NoCycle
<1> DEFINE S == {v \in 1 .. Len(dependencies) : dependencies[v] \in T}
<1>2. \A p \in T : \E v \in 1 .. Len(dependencies) : dependencies[v] = p
  <2>1. DOMAIN dependencies = 1 .. Len(dependencies)
    BY DEF IInv, TypeOK
  <2>2. QED
    BY <1>1, <2>1, ListIsReachable
<1>3. S # {}
  BY <1>1, <1>2
<1>4. PICK v \in S : \A w \in S : <<v, w>> \notin edges
  BY <1>3 DEF IInv, Verdict, Acyclic
<1>5. ASSUME NEW q \in DependsOn(dependencies[v]), q \in T
      PROVE  FALSE
  <2>1. PICK w \in 1 .. Len(dependencies) : dependencies[w] = q /\ <<v, w>> \in edges
    BY AllPassed DEF HasEdge
  <2>2. QED
    BY <1>4, <1>5, <2>1
<1>6. QED
  BY <1>4, <1>5

LEMMA InvariantResolved == IInv => ResolvedIsComplete
<1> SUFFICES ASSUME IInv, result = "resolved"
             PROVE  /\ {dependencies[i] : i \in DOMAIN dependencies} = Reachable
                    /\ \A p \in Reachable : Missing \notin DependsOn(p)
                    /\ NoCycle(Reachable)
  BY DEF IInv, ResolvedIsComplete
<1>1. ASSUME NEW p \in Reachable
      PROVE  Missing \notin DependsOn(p)
  <2>1. PICK v \in 1 .. Len(dependencies) : dependencies[v] = p
    BY ListIsReachable DEF IInv, TypeOK
  <2>2. QED
    BY <2>1, AllPassed
<1>2. QED
  BY <1>1, ListIsReachable, NoCycleWhenResolved

LEMMA InvariantRefused == IInv => RefusedForAReason
<1> SUFFICES ASSUME IInv PROVE RefusedForAReason
  OBVIOUS
<1>1. result = "unresolvable" => \E p \in Reachable : Missing \in DependsOn(p)
  BY DEF IInv, Verdict
<1>2. ASSUME result = "cyclic" PROVE ~ NoCycle(Reachable)
  <2>1. PICK S \in SUBSET (1 .. Len(dependencies)) :
            S # {} /\ \A v \in S : \E w \in S : <<v, w>> \in edges
    BY <1>2 DEF IInv, Verdict, Acyclic
  <2> DEFINE T == {dependencies[v] : v \in S}
  <2>2. T \in SUBSET Reachable /\ T # {}
    BY <2>1 DEF IInv, Needed
  <2>3. ASSUME NEW p \in T PROVE DependsOn(p) \cap T # {}
    <3>1. PICK v \in S : dependencies[v] = p
      OBVIOUS
    <3>2. PICK w \in S : <<v, w>> \in edges
      BY <2>1
    <3>3. dependencies[w] \in DependsOn(p)
      BY <2>1, <3>1, <3>2 DEF IInv, EdgesReal
    <3>4. QED
      BY <3>3
  <2>4. QED
    BY <2>2, <2>3 DEF NoCycle
<1>3. QED
  BY <1>1, <1>2 DEF RefusedForAReason

LEMMA InvariantPinned == IInv => PinnedToResolved
<1> SUFFICES ASSUME IInv, result = "resolved",
                    NEW p \in Reachable, NEW k \in DOMAIN tasks[p], HasOwnName(p, k)
             PROVE  pinned[p][k] = tasks[p][k].package
  BY DEF PinnedToResolved, HasOwnName
<1>1. PICK v \in 1 .. Len(dependencies) : dependencies[v] = p
  BY ListIsReachable DEF IInv, TypeOK
<1>2. Passed(v, k)
  BY DEF IInv, Verdict, Passed
<1>3. QED
  BY <1>1, <1>2 DEF IInv, Walked

(* ------------------------------ theorems ------------------------------ *)

\* The walk keeps its invariant, whatever packages depend on which.
THEOREM Invariance == Spec => []IInv
<1>1. Init => IInv
  BY InitInv
<1>2. IInv /\ [Next]_vars => IInv'
  BY NextKeeps
<1>3. QED
  BY <1>1, <1>2, PTL DEF Spec

\* The vertices of the graph are the positions in the list, at every step of
\* the recursion (Resolve, dependencyWalk).
THEOREM TypeCorrect == Spec => []TypeOK
<1>1. IInv => TypeOK
  BY DEF IInv
<1>2. QED
  BY <1>1, Invariance, PTL

\* No package is found twice (indexOf).
THEOREM EachFoundOnce == Spec => []FoundOnce
<1>1. IInv => FoundOnce
  BY DEF IInv
<1>2. QED
  BY <1>1, Invariance, PTL

\* What Resolve returns is what the operator needs: all of it, nothing else,
\* nothing missing and nothing that needs itself.
THEOREM ResolutionComplete == Spec => []ResolvedIsComplete
<1>1. IInv => ResolvedIsComplete
  BY InvariantResolved
<1>2. QED
  BY <1>1, Invariance, PTL

\* Resolve returns an error only for an operator that cannot be installed.
THEOREM RefusalJustified == Spec => []RefusedForAReason
<1>1. IInv => RefusedForAReason
  BY InvariantRefused
<1>2. QED
  BY <1>1, Invariance, PTL

\* A task with a name of its own refers to the version it was resolved to.
THEOREM TasksPinned == Spec => []PinnedToResolved
<1>1. IInv => PinnedToResolved
  BY InvariantPinned
<1>2. QED
  BY <1>1, Invariance, PTL

\* While no package is missing or needs itself, every step of dependencyWalk
\* leaves a task or a package behind for good.
THEOREM WalkAdvances == Spec => NeverAgain
<1>1. Init => IInv /\ FramesInRange
  <2> SUFFICES ASSUME Init PROVE FramesInRange
    BY InitInv
  <2>1. TypeOK /\ stack = <<Frame(1, 1)>> /\ dependencies = <<Root>>
    BY InitInv DEF IInv, Init
  <2>2. Len(tasks[Root]) \in Nat
    BY <2>1, PackageAssumption, TaskType DEF TypeOK
  <2> QED BY <2>1, <2>2 DEF FramesInRange, Frame
<1>2. IInv /\ FramesInRange /\ [Next]_vars => (IInv /\ FramesInRange)'
  BY NextKeeps, FramesStayInRange
<1>3. IInv /\ FramesInRange /\ [Next]_vars
        => [result' \in {"running", "resolved"} => Behind \subseteq Behind' /\ Behind # Behind']_vars
  BY StepAdvances
<1> QED BY <1>1, <1>2, <1>3, PTL DEF Spec, NeverAgain

\* There is only so much to leave behind: Cardinality(Package) * (n + 1) steps are
\* the most that dependencyWalk takes, if no package has more than n tasks.
THEOREM WalkBounded ==
    ASSUME IsFiniteSet(Package), NEW n \in Nat, \A ts \in TaskLists : Len(ts) <= n
    PROVE  Spec => [](Behind \subseteq (1 .. Cardinality(Package)) \X (1 .. n + 1))
<1>1. IInv => Behind \subseteq (1 .. Cardinality(Package)) \X (1 .. n + 1)
  <2> SUFFICES ASSUME IInv, NEW b \in Behind
               PROVE  b \in (1 .. Cardinality(Package)) \X (1 .. n + 1)
    OBVIOUS
  <2>1. PICK v \in 1 .. Len(dependencies) : \E k \in 1 .. Len(tasks[dependencies[v]]) + 1 : b = <<v, k>>
    BY DEF Behind
  <2>2. Len(dependencies) <= Cardinality(Package) /\ Len(dependencies) \in Nat /\ Cardinality(Package) \in Nat
    BY ListBounded, FS_CardinalityType DEF IInv, TypeOK
  <2>3. dependencies[v] \in Package /\ tasks \in [Package -> TaskLists]
    BY <2>1 DEF IInv, TypeOK
  <2>4. Len(tasks[dependencies[v]]) <= n /\ Len(tasks[dependencies[v]]) \in Nat
    BY <2>3, TaskType
  <2> QED BY <2>1, <2>2, <2>4
<1> QED BY <1>1, Invariance, PTL
=============================================================================
