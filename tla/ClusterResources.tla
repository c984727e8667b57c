-------------------------- MODULE ClusterResources --------------------------
(***************************************************************************)
(* The objects that the tasks of a plan manage: what a template renders    *)
(* to, what the enhancer adds to it (pkg/engine/renderer), how an apply    *)
(* merges it into an object that exists (pkg/engine/task/task_apply.go)    *)
(* and when an object is healthy (pkg/kubernetes/status/health.go).        *)
(*                                                                         *)
(* A configuration has the fields that the code treats differently:        *)
(*   data   always rendered, depends on the parameters,                    *)
(*   extra  rendered for some values of the parameters only,               *)
(*   hash   the hash of the dependencies, in the pod template,             *)
(*   uid    the annotations with plan, phase, step and execution,          *)
(*   note   what KUDO does not render, for instance a scaled replica count.*)
(* data, extra and hash are the pod template of an object that has one.    *)
(***************************************************************************)
EXTENDS Naturals, FiniteSets

CONSTANTS
    Resources,   \* the names of the objects
    Kind,        \* [Resources -> Kinds]
    DependsOn,   \* [Resources -> SUBSET Resources]: config maps and secrets in the template
    Known,       \* the resources whose type the API server knows
    Unhashed,    \* the resources with the annotation that skips hashing
    Values,      \* the values of the parameters: records with data, extra and on
    Absent,      \* no object, no value
    Foreign      \* applied, when KUDO's annotation is missing among others

\* plain: healthy by default; simple: Service, Namespace, CRD; rollout:
\* Deployment, StatefulSet.
Kinds == {"plain", "simple", "rollout", "job", "pod"}

\* The dependencies are config maps and secrets, which are healthy by default.
ASSUME ResourcesAssumption ==
    /\ Kind \in [Resources -> Kinds]
    /\ DependsOn \in [Resources -> SUBSET Resources]
    /\ \A r \in Resources : \A d \in DependsOn[r] : Kind[d] = "plain"
    /\ Known \subseteq Resources /\ Unhashed \subseteq Resources
    /\ \A v \in Values : v.data # Absent /\ v.on \in {"true", "false", "other"}

Fields == {"data", "extra", "hash", "uid", "note"}

NoConfiguration == [f \in Fields |-> Absent]

Content(c) == <<c.data, c.extra>>

\* Mutant: the annotations of the execution are in the pod template too.
TemplateWithUID(c) == <<c.data, c.extra, c.hash, c.uid>>

Template(c) == <<c.data, c.extra, c.hash>>

\* The content that an object is compared by: what was applied, if KUDO applied it.
AppliedContent(o) ==
    IF o.applied \in {Foreign, NoConfiguration} THEN Content(o.fields)
    ELSE Content(o.applied)

\* The configuration that a template renders to, with the labels and annotations.
Rendered(r, v, u) ==
    [data |-> v.data, extra |-> v.extra, hash |-> Absent, uid |-> u, note |-> Absent]

\* The content of a dependency: from this task, or from the API server.
DependencyContent(d, objs, cluster) ==
    IF d \in Unhashed THEN Absent
    ELSE IF d \in DOMAIN objs THEN Content(objs[d])
    ELSE IF cluster[d] = Absent THEN Absent
    ELSE AppliedContent(cluster[d])

\* The hash: one content per dependency.
DependencyHash(r, objs, cluster) ==
    IF DependsOn[r] = {} THEN Absent
    ELSE [d \in DependsOn[r] |-> DependencyContent(d, objs, cluster)]

\* The enhanced objects of a task.
Enhanced(objs, cluster) ==
    [r \in DOMAIN objs |-> [objs[r] EXCEPT !.hash = DependencyHash(r, objs, cluster)]]

(* ------------------------------- types -------------------------------- *)

\* What is rendered, the number of a pod, or what others have set.
Datum == {v.data : v \in Values} \cup {v.extra : v \in Values} \cup Nat \cup {Absent, Foreign}

\* What a template knows of its dependencies.
Hashes == {Absent} \cup UNION {[ds -> (Datum \X Datum) \cup {Absent}] : ds \in SUBSET Resources}

Configurations ==
    [data : Datum, extra : Datum, hash : Hashes, uid : Nat \cup {Absent},
     note : {Absent, Foreign}]

\* What the API server has of an object; others may have made it without KUDO's
\* annotation.
Objects ==
    [fields : Configurations, applied : Configurations \cup {Foreign},
     observed : (Datum \X Datum \X Hashes) \cup {Absent},
     status : {"ready", "pending", "failed"}, deleting : BOOLEAN,
     born : Nat, filled : BOOLEAN]

ASSUME AbsentAssumption == Absent \notin Objects

(* ------------------------------- apply -------------------------------- *)

\* The annotation must be there, unless the object has no annotations at all.
OriginalReadable(o) == o.applied # Foreign

\* Mutant: a two-way merge, fields that are not rendered any more stay.
MergedWithoutOriginal(original, modified, current, server) ==
    [f \in Fields |->
        IF modified[f] # Absent /\ modified[f] # current[f]
        THEN modified[f] ELSE server[f]]

\* The three-way merge: delete what is in the original only, set what differs
\* from the current object.  The patch is applied to what the server has.
Merged(original, modified, current, server) ==
    [f \in Fields |->
        IF modified[f] # Absent
        THEN IF modified[f] = current[f] THEN server[f] ELSE modified[f]
        ELSE IF original[f] # Absent THEN Absent ELSE server[f]]

\* The object in the server after the patch that was computed from the cached one.
Patched(server, cached, modified) ==
    [server EXCEPT
        !.fields  = Merged(cached.applied, modified, cached.fields, server.fields),
        !.applied = IF cached.applied = modified THEN @ ELSE modified]

\* A new object, as the API server returns it.  born is the number of a pod, filled
\* tells that its init container has finished.
Created(r, modified, n) ==
    [fields |-> modified, applied |-> modified, observed |-> Absent,
     status |-> IF Kind[r] = "plain" THEN "ready" ELSE "pending",
     deleting |-> FALSE, born |-> IF Kind[r] = "pod" THEN n ELSE 0, filled |-> FALSE]

\* The API server refuses to change the template of a job and the spec of a pod.
Immutable(r) == Kind[r] \in {"job", "pod"}

(* ------------------------------- health ------------------------------- *)

\* The controller has rolled out the template, the last Pod is ready, the Job
\* has succeeded, ...
IsHealthy(r, o) ==
    /\ o.status = "ready"
    /\ Kind[r] = "rollout" => o.observed = Template(o.fields)

\* Mutant: no object fails for good.
NeverTerminallyFailed(r, o) == FALSE

IsTerminallyFailed(r, o) == Kind[r] = "job" /\ o.status = "failed"

Health(r, o) ==
    IF IsHealthy(r, o) THEN "healthy"
    ELSE IF IsTerminallyFailed(r, o) THEN "failed" ELSE "waiting"
=============================================================================
