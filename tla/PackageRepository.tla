-------------------------- MODULE PackageRepository --------------------------
(***************************************************************************)
(* Where packages come from: the index of a repository (util/repo), the    *)
(* operator versions of the cluster (resolver_incluster.go), a directory,  *)
(* a tarball or a URL; what a name stands for, and what a package needs.   *)
(*                                                                         *)
(* Versions are numbers, 0 for the empty string.  A package is what its    *)
(* OperatorVersion is made of: its references are the KudoOperator tasks,  *)
(* in their order, and they are by name (paths relative to a directory are *)
(* left out).  The graph of the packages has no cycles; DependencyResolver *)
(* has those.                                                              *)
(***************************************************************************)
EXTENDS Naturals, Sequences, FiniteSets, Functions

CONSTANTS
    Package,   \* all packages that anyone ever makes
    None,      \* no package
    MaxWalk    \* bound on the references that are followed from one package

NoVersion == 0   \* no version asked for, or no app version given

AnyReference == [name : STRING, app : Nat, version : Nat]

AnyPackage ==
    [name : STRING, app : Nat, version : Nat, needs : Seq(AnyReference), required : BOOLEAN]

Key(p) == [name |-> p.name, app |-> p.app, version |-> p.version]

References == (UNION {Range(p.needs) : p \in Package}) \cup {Key(p) : p \in Package}

ASSUME PackageAssumption ==
    /\ None \notin Package
    /\ IsFiniteSet(Package)
    /\ \A p \in Package : p \in AnyPackage /\ p.version > 0

ASSUME WalkAssumption == MaxWalk \in Nat

(* ------------------------------- the index ---------------------------- *)

\* AddPackageVersion: no versionless package, and none twice.
Indexed(index, p) ==
    IF p.version = 0 \/ \E q \in index : Key(q) = Key(p) THEN index ELSE index \cup {p}

Matches(p, ref) ==
    /\ p.name = ref.name
    /\ ref.app \in {NoVersion, p.app}
    /\ ref.version \in {NoVersion, p.version}

\* Less: versions that cannot be parsed go to the back.  Without an app
\* version the operator version is not looked at.
IndexLess(x, y) ==
    \/ x.app = 0
    \/ y.app > 0 /\ (x.app < y.app \/ (x.app = y.app /\ x.version < y.version))

\* The list of the cluster: app version, then operator version.
ClusterLess(x, y) == x.app < y.app \/ (x.app = y.app /\ x.version < y.version)

\* Entries without an app version keep the order they have in the file, or are
\* reversed: they are less than each other, and every write and read sorts.
FirstMatch(index, ref, reversed) ==
    LET found == {p \in index : Matches(p, ref)}
        first == {p \in found : \A q \in found \ {p} : IndexLess(q, p)}
    IN  IF found = {} THEN None
        ELSE CHOOSE p \in first :
                \A q \in first : IF reversed THEN q.version <= p.version ELSE p.version <= q.version

InClusterMatch(versions, ref) ==
    LET found == {p \in versions : Matches(p, ref)}
    IN  IF found = {} THEN None
        ELSE CHOOSE p \in found : \A q \in found \ {p} : ClusterLess(q, p)

(* ------------------------------ resolution ---------------------------- *)

\* What each reference stands for, in every state of the repository ...
RepositoryResolver ==
    [index \in SUBSET Package |->
        [reversed \in BOOLEAN |-> [r \in References |-> FirstMatch(index, r, reversed)]]]

\* ... and in the cluster.
InClusterResolver(versions) == [r \in References |-> InClusterMatch(versions, r)]

\* dependencyWalk: what has been found, and the references still to follow, in
\* the order of the walk.  A package that was found before is not entered again.
WalkStep(resolver, w) ==
    LET p == resolver[Head(w.needs)]
    IN  IF w.needs = <<>> THEN w
        ELSE IF p = None \/ p \in Range(w.found) THEN [w EXCEPT !.needs = Tail(@)]
        ELSE [found |-> Append(w.found, p), needs |-> p.needs \o Tail(w.needs)]

\* Resolve: the walk from p.  It is over when no reference is left.
DependencyWalk(resolver, p) ==
    LET walk[n \in Nat] == IF n = 0 THEN [found |-> <<>>, needs |-> p.needs]
                           ELSE WalkStep(resolver, walk[n - 1])
    IN  walk[MaxWalk]

AllResolve(resolver, ps) == \A p \in ps : \A r \in Range(p.needs) : resolver[r] # None

\* updateResolvedKudoOperatorTask: the tasks refer to what was found.
Pinned(resolver, p) ==
    [p EXCEPT !.needs = [k \in DOMAIN p.needs |-> Key(resolver[p.needs[k]])]]
=============================================================================
