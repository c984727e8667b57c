----------------------------- MODULE KudoInstall -----------------------------
(***************************************************************************)
(* kudo install, upgrade and uninstall, run by several users against one   *)
(* namespace (pkg/kudoctl/cmd, packages/install, resources/install,        *)
(* resources/upgrade, util/kudo).  A command makes one call after the      *)
(* other, looks before it creates, and may be interrupted anywhere; what   *)
(* it made stays.  Meanwhile packages are published, the manager executes  *)
(* the plans of the instances and removes those that are deleted.          *)
(***************************************************************************)
EXTENDS PackageRepository

CONSTANTS
    Client,      \* who runs commands, one at a time
    Commands,    \* Commands[c]: what they run
    Repairer,    \* the client that repeats its only command until it is done
    Published,   \* the packages that are in the repository at first
    MaxFaults    \* bound on interrupted commands

Operators == {p.name : p \in Package}

AnyCommand ==
    [kind : {"install", "upgrade", "uninstall"}, file : Package \cup {None},
     name : STRING, app : Nat, version : Nat, instance : Operators,
     inCluster : BOOLEAN, skip : BOOLEAN, createNamespace : BOOLEAN,
     params : BOOLEAN, wait : BOOLEAN]

UniqueKeys(ps) == \A p, q \in ps : Key(p) = Key(q) => p = q

ASSUME InstallAssumption ==
    /\ Repairer \in Client
    /\ \A c \in Client : \A m \in Commands[c] : m \in AnyCommand
    /\ Published \subseteq Package /\ UniqueKeys(Published)

VARIABLES
    index,       \* the repository's index
    namespace,   \* whether the namespace exists
    operators,   \* the names of the Operators
    versions,    \* the OperatorVersions, as packages with pinned references
    instances,   \* instances[n]: the Instance called after operator n
    cmd,         \* cmd[c]: the command that c runs
    at,          \* its position
    todo,        \* the objects it still has to see to
    absent,      \* whether it has looked for the first of them in vain
    root, ov,    \* the package and the version that its instance shall have
    outcome,     \* how c's last command ended
    spent,       \* the commands that the others have run
    faults

cluster == <<index, namespace, operators, versions, instances>>
process == <<cmd, at, todo, absent, root, ov, outcome>>
vars == <<cluster, process, spent, faults>>

NoInstance == [exists |-> FALSE]

Init ==
    /\ index = Published
    /\ namespace \in BOOLEAN
    /\ operators = {} /\ versions = {}
    /\ instances = [n \in Operators |-> NoInstance]
    /\ cmd = [c \in Client |-> None] /\ at = [c \in Client |-> "idle"]
    /\ todo = [c \in Client |-> <<>>] /\ absent = [c \in Client |-> FALSE]
    /\ root = [c \in Client |-> None] /\ ov = [c \in Client |-> None]
    /\ outcome = [c \in Client |-> "none"]
    /\ spent = {} /\ faults = 0

(* ------------------------------ the commands -------------------------- *)

Ends(c, how) ==
    /\ at' = [at EXCEPT ![c] = "idle"]
    /\ outcome' = [outcome EXCEPT ![c] = how]
    /\ cmd' = [cmd EXCEPT ![c] = None]
    /\ todo' = [todo EXCEPT ![c] = <<>>]
    /\ absent' = [absent EXCEPT ![c] = FALSE]
    /\ root' = [root EXCEPT ![c] = None]
    /\ ov' = [ov EXCEPT ![c] = None]

GoesTo(c, where) == at' = [at EXCEPT ![c] = where]

\* validate: a version that is in the cluster is installed with its instance.
ValidCommand(m) == m.inCluster => ~ m.skip

Reference(m) == [name |-> m.name, app |-> m.app, version |-> m.version]

\* A file is taken as it is, whatever versions are asked for.
ResolvePackage(m, reversed) ==
    IF m.inCluster THEN InClusterMatch(versions, Reference(m))
    ELSE IF m.file # None THEN m.file
    ELSE FirstMatch(index, Reference(m), reversed)

ResolverOf(m, reversed) ==
    IF m.inCluster THEN InClusterResolver(versions) ELSE RepositoryResolver[index][reversed]

\* BuildInstanceResource, which the in-cluster resolver calls with the versions
\* that were asked for, the one for the other.
InstanceVersion(m, p) ==
    IF m.inCluster THEN [name |-> m.name, app |-> m.version, version |-> m.app] ELSE Key(p)

\* validateParameters: what is required and has no default is given.
ParametersGiven(m, p) == p.required => m.params

Item(what, p) == [what |-> what, package |-> p]

\* Two objects for each dependency, one after the other.
Pairs(one, other, deps) ==
    [k \in 1 .. 2 * Len(deps) |-> Item(IF k % 2 = 1 THEN one ELSE other, deps[(k + 1) \div 2])]

\* Mutant: the version before what it needs.
VersionFirst(p, deps) ==
    <<Item("operator", p), Item("installed", p), Item("ownVersion", p)>>
        \o Pairs("operator", "version", deps)

\* Mutant: the operators come after their versions.
OperatorsLast(p, deps) ==
    <<Item("operator", p), Item("installed", p)>>
        \o Pairs("version", "operator", deps) \o <<Item("ownVersion", p)>>

\* OperatorAndOperatorVersion, installDependencies
Objects(p, deps) ==
    <<Item("operator", p), Item("installed", p)>>
        \o Pairs("operator", "version", deps) \o <<Item("ownVersion", p)>>

\* p and what the walk has found, with what they refer to pinned down.
Prepares(c, m, p, rs, walk) ==
    /\ walk.needs = <<>>
    /\ AllResolve(rs, {p} \cup Range(walk.found))
    /\ m.kind = "install" /\ ~ m.skip => ParametersGiven(m, p)
    /\ todo' = [todo EXCEPT ![c] =
                  Objects(Pinned(rs, p), [k \in DOMAIN walk.found |-> Pinned(rs, walk.found[k])])]
    /\ root' = [root EXCEPT ![c] = Pinned(rs, p)]
    /\ ov' = [ov EXCEPT ![c] = InstanceVersion(m, p)]

\* Both commands resolve the package and its dependencies first.
Resolves(c, m) ==
    \E reversed \in BOOLEAN :
    \E p \in {ResolvePackage(m, reversed)} \ {None} :
    \E rs \in {ResolverOf(m, reversed)} :
    \E walk \in {DependencyWalk(rs, p)} : Prepares(c, m, p, rs, walk)

FirstStep(m) ==
    CASE m.kind = "install" /\ m.createNamespace   -> "namespace"
      [] m.kind = "install" /\ ~ m.createNamespace -> "objects"
      [] m.kind = "upgrade" -> "compare"
      [] OTHER -> "uninstall"

\* A user retries with the flag that the state of the namespace asks for.
Retried(m) == [m EXCEPT !.createNamespace = ~ namespace]

Start(c, m) ==
    /\ at[c] = "idle" /\ ValidCommand(m)
    /\ cmd' = [cmd EXCEPT ![c] = m]
    /\ IF m.kind = "uninstall" THEN UNCHANGED <<todo, root, ov>> ELSE Resolves(c, m)
    /\ GoesTo(c, FirstStep(m))
    /\ outcome' = [outcome EXCEPT ![c] = "none"]
    /\ UNCHANGED <<cluster, absent, faults>>

\* The others run each of their commands once.
Starts(c, m) == m \notin spent /\ Start(c, m) /\ spent' = spent \cup {m}

Retries(m) == outcome[Repairer] # "done" /\ Start(Repairer, Retried(m)) /\ UNCHANGED spent

\* installNamespace
CreateNamespace(c) ==
    /\ at[c] = "namespace"
    /\ IF namespace THEN Ends(c, "failed") /\ UNCHANGED cluster
       ELSE /\ namespace' = TRUE
            /\ GoesTo(c, "objects")
            /\ UNCHANGED <<index, operators, versions, instances, cmd, todo, absent, root, ov, outcome>>
    /\ UNCHANGED <<spent, faults>>

VersionWith(k) == {v \in versions : Key(v) = k}

\* operatorVersionFromInstance, compareVersions; the version that is compared
\* is not the app version, and the operator may be another one.
Compare(c) ==
    LET i   == instances[cmd[c].instance]
        old == VersionWith(i.ov)
    IN  /\ at[c] = "compare"
        /\ IF ~ i.exists \/ old = {} THEN Ends(c, "failed")
           ELSE IF ~ \E v \in old : v.version < root[c].version THEN Ends(c, "failed")
           ELSE IF root[c].name \notin operators THEN Ends(c, "crashed")  \* a nil Operator
           ELSE GoesTo(c, "objects") /\ UNCHANGED <<cmd, todo, absent, root, ov, outcome>>
        /\ UNCHANGED <<cluster, spent, faults>>

(* ---------------------- operators and their versions ------------------ *)

First(c) == Head(todo[c])

\* OperatorVersionsInstalled: the app version does not matter.
VersionInstalled(p) == \E v \in versions : v.name = p.name /\ v.version = p.version

\* Mutant: nobody looks for the operators.
NeverThere(item) == item.what # "operator" /\ VersionInstalled(item.package)

IsThere(item) ==
    IF item.what = "operator" THEN item.package.name \in operators
    ELSE VersionInstalled(item.package)

\* A version that is installed is taken to have what it needs.
AfterInstalled(c) == IF IsThere(First(c)) THEN <<>> ELSE Tail(todo[c])

Look(c) ==
    /\ at[c] = "objects" /\ todo[c] # <<>> /\ ~ absent[c]
    /\ CASE First(c).what = "installed" ->
              todo' = [todo EXCEPT ![c] = AfterInstalled(c)] /\ UNCHANGED absent
         [] First(c).what \in {"operator", "version"} /\ IsThere(First(c)) ->
              todo' = [todo EXCEPT ![c] = Tail(@)] /\ UNCHANGED absent
         [] OTHER -> absent' = [absent EXCEPT ![c] = TRUE] /\ UNCHANGED todo
    /\ UNCHANGED <<cluster, cmd, at, root, ov, outcome, spent, faults>>

\* The API server refuses what exists by now, and what has no namespace.
Refused(item) ==
    \/ ~ namespace
    \/ IF item.what = "operator" THEN item.package.name \in operators
       ELSE VersionWith(Key(item.package)) # {}

Create(c) ==
    LET item == First(c)
    IN  /\ at[c] = "objects" /\ absent[c]
        /\ IF Refused(item) THEN Ends(c, "failed") /\ UNCHANGED cluster
           ELSE /\ IF item.what = "operator"
                   THEN operators' = operators \cup {item.package.name} /\ UNCHANGED versions
                   ELSE versions' = versions \cup {item.package} /\ UNCHANGED operators
                /\ todo' = [todo EXCEPT ![c] = Tail(@)]
                /\ absent' = [absent EXCEPT ![c] = FALSE]
                /\ UNCHANGED <<index, namespace, instances, cmd, at, root, ov, outcome>>
        /\ UNCHANGED <<spent, faults>>

ObjectsDone(c) == at[c] = "objects" /\ todo[c] = <<>>

SkipInstance(c) ==
    /\ ObjectsDone(c) /\ cmd[c].kind = "install" /\ cmd[c].skip
    /\ Ends(c, "done")
    /\ UNCHANGED <<cluster, spent, faults>>

(* ------------------------------ the instance -------------------------- *)

Target(c) == cmd[c].instance

AfterWrite(c) ==
    IF cmd[c].wait THEN GoesTo(c, "wait") /\ UNCHANGED <<cmd, todo, absent, root, ov, outcome>>
    ELSE Ends(c, "done")

\* Instance: an instance of that name must not exist, not even by the time it
\* is created; and the webhook wants its version.
LookForInstance(c) ==
    /\ ObjectsDone(c) /\ cmd[c].kind = "install" /\ ~ cmd[c].skip
    /\ IF instances[Target(c)].exists THEN Ends(c, "failed")
       ELSE GoesTo(c, "create") /\ UNCHANGED <<cmd, todo, absent, root, ov, outcome>>
    /\ UNCHANGED <<cluster, spent, faults>>

CreateInstance(c) ==
    /\ at[c] = "create"
    /\ IF instances[Target(c)].exists \/ VersionWith(ov[c]) = {} \/ ~ namespace
       THEN Ends(c, "failed") /\ UNCHANGED cluster
       ELSE /\ instances' = [instances EXCEPT ![Target(c)] =
                  [exists |-> TRUE, ov |-> ov[c], busy |-> TRUE, done |-> FALSE, deleting |-> FALSE]]
            /\ AfterWrite(c)
            /\ UNCHANGED <<index, namespace, operators, versions>>
    /\ UNCHANGED <<spent, faults>>

\* UpdateInstance: a patch without a precondition.  The webhook refuses it
\* while a plan is scheduled or the instance is deleted.
PatchInstance(c) ==
    LET i == instances[Target(c)]
    IN  /\ ObjectsDone(c) /\ cmd[c].kind = "upgrade"
        /\ IF ~ i.exists THEN Ends(c, "failed") /\ UNCHANGED cluster
           ELSE IF (i.ov # ov[c] /\ (i.busy \/ i.deleting)) \/ VersionWith(ov[c]) = {}
           THEN Ends(c, "failed") /\ UNCHANGED cluster
           ELSE /\ instances' = [instances EXCEPT ![Target(c)].ov = ov[c],
                                                  ![Target(c)].busy = @ \/ i.ov # ov[c]]
                /\ Ends(c, "done")
                /\ UNCHANGED <<index, namespace, operators, versions>>
        /\ UNCHANGED <<spent, faults>>

\* WaitForInstance; the instance may be gone, and IsInstanceDone does not ask.
Wait(c) ==
    LET i == instances[Target(c)]
    IN  /\ at[c] = "wait" /\ cmd[c].kind = "install"
        /\ \/ ~ i.exists /\ Ends(c, "crashed")
           \/ i.exists /\ i.done /\ Ends(c, "done")
        /\ UNCHANGED <<cluster, spent, faults>>

Uninstall(c) ==
    LET i == instances[Target(c)]
    IN  /\ at[c] = "uninstall"
        /\ IF ~ i.exists THEN Ends(c, "failed") /\ UNCHANGED cluster
           ELSE /\ instances' = [instances EXCEPT ![Target(c)].deleting = TRUE]
                /\ AfterWrite(c)
                /\ UNCHANGED <<index, namespace, operators, versions>>
        /\ UNCHANGED <<spent, faults>>

\* WaitForInstanceDeleted
WaitDeleted(c) ==
    /\ at[c] = "wait" /\ cmd[c].kind = "uninstall"
    /\ ~ instances[Target(c)].exists
    /\ Ends(c, "done")
    /\ UNCHANGED <<cluster, spent, faults>>

(* ------------------------------ the others ---------------------------- *)

\* The user stops the command, a call fails, or the wait is over.
Interrupt(c) ==
    /\ at[c] # "idle" /\ faults < MaxFaults
    /\ faults' = faults + 1
    /\ Ends(c, "failed")
    /\ UNCHANGED <<cluster, spent>>

\* What a package needs is published before it.
Publish(p) ==
    /\ p \notin index
    /\ AllResolve(RepositoryResolver[index][FALSE], {p})
    /\ index' = Indexed(index, p)
    /\ UNCHANGED <<namespace, operators, versions, instances, process, spent, faults>>

\* The manager finishes the scheduled plan, as COMPLETE or not ...
PlanEnds(n) ==
    /\ instances[n].exists /\ instances[n].busy
    /\ \E complete \in BOOLEAN :
          instances' = [instances EXCEPT ![n].busy = FALSE, ![n].done = complete]
    /\ UNCHANGED <<index, namespace, operators, versions, process, spent, faults>>

\* ... and removes what is deleted.
Removed(n) ==
    /\ instances[n].exists /\ instances[n].deleting
    /\ instances' = [instances EXCEPT ![n] = NoInstance]
    /\ UNCHANGED <<index, namespace, operators, versions, process, spent, faults>>

Step(c) ==
    \/ CreateNamespace(c) \/ Compare(c) \/ Look(c) \/ Create(c) \/ SkipInstance(c)
    \/ LookForInstance(c) \/ CreateInstance(c) \/ PatchInstance(c) \/ Wait(c)
    \/ Uninstall(c) \/ WaitDeleted(c)

Manager(n) == PlanEnds(n) \/ Removed(n)

Next ==
    \/ \E c \in Client :
          Step(c) \/ Interrupt(c) \/ \E m \in Commands[c] : c # Repairer /\ Starts(c, m)
    \/ \E m \in Commands[Repairer] : Retries(m)
    \/ \E p \in Package : Publish(p)
    \/ \E n \in Operators : Manager(n)

Spec == Init /\ [][Next]_vars

\* The repairer's command goes on unless it is interrupted, and is repeated
\* when it did not succeed.  Nobody else needs to do anything.
FairSpec ==
    /\ Spec
    /\ WF_vars(Step(Repairer))
    /\ WF_vars(\E m \in Commands[Repairer] : Retries(m))

(* ----------------------------- properties ----------------------------- *)

\* Whoever is interrupted, and whoever else installs meanwhile: an
\* OperatorVersion is never without its Operator, which GetOperator returns as
\* nil and upgrade and the in-cluster resolver then use
\* (OperatorAndOperatorVersion, installDependencies).
OperatorsKnown == \A v \in versions : v.name \in operators

Provided(k) == \E v \in versions : Key(v) = k

\* OperatorVersionsInstalled takes another app version for the one that is named.
Shadowed(k) ==
    \E v \in versions : v.name = k.name /\ v.version = k.version /\ v.app # k.app

Needed == {r.name : r \in UNION {Range(p.needs) : p \in Package}}

\* A version that nothing else depends on is only there with what its own
\* KudoOperator tasks name, in whatever state a command was interrupted
\* (OperatorAndOperatorVersion: the dependencies first), except where the same
\* operator version is there with another app version (operator.go:42, 93).
DependenciesFirst ==
    \A v \in versions : v.name \notin Needed =>
        \A k \in Range(v.needs) : Provided(k) \/ Shadowed(k)

Complete(m) ==
    /\ instances[m.instance].exists
    /\ \A v \in VersionWith(instances[m.instance].ov) :
          \A k \in Range(v.needs) : Provided(k) \/ Shadowed(k)

\* The version that m wants an instance of is taken to be installed, and is not.
Blocked(m) ==
    \E reversed \in BOOLEAN :
        LET k == InstanceVersion(m, ResolvePackage(m, reversed))
        IN  Shadowed(k) /\ ~ Provided(k)

\* An installation that failed somewhere is completed by running it again, with
\* whatever there is by then (the checks of OperatorAndOperatorVersion): in the
\* end there is the instance, and what its version needs.  It fails for ever only
\* where another app version stands in for the one that the instance is to have.
RetriedInstallEnds ==
    \A m \in Commands[Repairer] : <>Complete(m) \/ <>[]Blocked(m)

(* --------------- what a comment says, and the code does not ------------- *)

\* What is said of OperatorAndOperatorVersion, without the exception of
\* DependenciesFirst: "In this case the O/OV of dependencies are installed as
\* well" (operator.go:14-16).
DependenciesNamed ==
    \A v \in versions : v.name \notin Needed => \A k \in Range(v.needs) : Provided(k)
=============================================================================
