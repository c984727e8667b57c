---------------------------- MODULE ResourceTasks ----------------------------
(***************************************************************************)
(* The tasks that manage objects: Apply, Delete, Toggle, Dummy             *)
(* (pkg/engine/task), run by the passes of the engine over the steps of a  *)
(* plan, against a cluster in which others act at the same time and a      *)
(* cache that lags behind it.                                              *)
(*                                                                         *)
(* WorkflowEngine has the engine in full and abstract tasks; here the      *)
(* engine is reduced to serial steps, and the tasks make one call of the   *)
(* API server after the other.  Between two calls anything may happen.     *)
(***************************************************************************)
EXTENDS ClusterResources, Sequences, SequencesExt

CONSTANTS
    Plans,          \* sequences of steps, which are sequences of tasks
    MaxExecutions,  \* bound on the executions that are scheduled
    MaxBehind,      \* bound on the objects that the cache is behind with
    MaxTroubles     \* bound on failed calls, crashes and what others do

VARIABLES
    plan,        \* the plan in the OperatorVersion
    execution,   \* the UID of the scheduled execution
    parameters,  \* the parameters of the Instance
    stored,      \* the plan status: uid, current step and status
    cluster,     \* the objects in the API server
    cache,       \* the configurations of the objects in the manager's cache
    at,          \* where the pass is
    uid, value,  \* the execution and the parameters that it has read
    step, task,  \* the step and the task it has come to
    stepDone,    \* all tasks of the step so far are done
    objs,        \* the rendered and enhanced objects of the task
    todo,        \* those that are not applied or deleted yet
    verdict,     \* isHealthy of those that are applied
    doubt,       \* history: why the last write of an object may not count
    pods,        \* the number of pods created so far
    troubles     \* the number of troubles so far

spec     == <<plan, execution, parameters>>
passVars == <<uid, value, step, task, stepDone>>
taskVars == <<objs, todo, verdict>>
store    == <<cluster, cache>>
history  == <<doubt, pods>>

Outcomes == {"complete", "fatal", "stopped"}

NoObjects == [r \in {} |-> NoConfiguration]
NoTask == objs = NoObjects /\ todo = {} /\ verdict = "healthy"
ForgetTask == objs' = NoObjects /\ todo' = {} /\ verdict' = "healthy"

Init ==
    /\ plan \in Plans
    /\ execution = 1 /\ parameters \in Values
    /\ stored = [uid |-> 0, step |-> 1, status |-> "NEVER_RUN"]
    /\ cluster = [r \in Resources |-> Absent] /\ cache = cluster
    /\ at = "idle" /\ uid = 0 /\ value = parameters
    /\ step = 1 /\ task = 1 /\ stepDone = TRUE
    /\ NoTask
    /\ doubt = [r \in Resources |-> "none"] /\ pods = 0 /\ troubles = 0

\* What a task reads of a cached object; its status comes with its own writes.
Cached(o) == IF o = Absent THEN Absent ELSE [fields |-> o.fields, applied |-> o.applied]

UpToDate(r) == cache[r] = Cached(cluster[r])

\* The bound on the objects that the cache is behind with, when r is changed.
MayChange(r) == Cardinality({q \in Resources \ {r} : ~ UpToDate(q)}) < MaxBehind

Trouble == troubles < MaxTroubles /\ troubles' = troubles + 1

(* ------------------------------ the engine ---------------------------- *)

Ended == stored.uid = execution /\ stored.status \in {"COMPLETE", "FATAL_ERROR"}

\* A pass reads the Instance, and resets the status when the execution is new.
StartPass ==
    /\ at = "idle" /\ ~ Ended
    /\ at' = "task" /\ uid' = execution /\ value' = parameters
    /\ step' = IF stored.uid = execution THEN stored.step ELSE 1
    /\ task' = 1 /\ stepDone' = TRUE
    /\ UNCHANGED <<spec, stored, store, taskVars, history, troubles>>

Tasks == plan[step]
Task == Tasks[task]

\* What the engine does with the result of a task: a fatal error ends the
\* plan, other tasks of the step are run in any case, and the next step only
\* when all of them are done.
Finish(result) ==
    LET sofar == stepDone /\ result = "done"
        last  == task = Len(Tasks)
    IN  /\ ForgetTask
        /\ \/ /\ result = "fatal"
              /\ at' = "fatal" /\ UNCHANGED <<step, task, stepDone>>
           \/ /\ result # "fatal" /\ ~ last
              /\ at' = "task" /\ task' = task + 1 /\ stepDone' = sofar
              /\ UNCHANGED step
           \/ /\ result # "fatal" /\ last /\ sofar
              /\ at' = IF step = Len(plan) THEN "complete" ELSE "task"
              /\ step' = IF step = Len(plan) THEN step ELSE step + 1
              /\ task' = 1 /\ stepDone' = TRUE
           \/ /\ result # "fatal" /\ last /\ ~ sofar
              /\ at' = "stopped" /\ UNCHANGED <<step, task, stepDone>>

TaskFrame == UNCHANGED <<spec, stored, uid, value>>

ForgetPass ==
    /\ at' = "idle" /\ uid' = 0 /\ value' = parameters
    /\ step' = 1 /\ task' = 1 /\ stepDone' = TRUE
    /\ ForgetTask

Status == CASE at = "complete" -> "COMPLETE"
            [] at = "fatal"    -> "FATAL_ERROR"
            [] OTHER           -> "IN_PROGRESS"

\* The Instance is written, unless it has changed in the meantime.
EndPass ==
    /\ at \in Outcomes /\ uid = execution
    /\ stored' = [uid |-> uid, step |-> step, status |-> Status]
    /\ ForgetPass
    /\ UNCHANGED <<spec, store, history, troubles>>

\* The Instance has changed: the write is refused and the pass was for nothing.
EndPassInVain ==
    /\ at \in Outcomes /\ uid # execution
    /\ ForgetPass
    /\ UNCHANGED <<spec, stored, store, history, troubles>>

\* The manager crashes, or the write fails.
PassLost ==
    /\ at # "idle" /\ Trouble
    /\ ForgetPass
    /\ UNCHANGED <<spec, stored, store, history>>

(* ------------------------------ the tasks ----------------------------- *)

\* delegateTask of a toggle: apply or delete, or the parameter is not defined
\* or no Boolean.
Delegate(t, v) ==
    IF t.kind # "Toggle" THEN t.kind
    ELSE CASE ~ t.defined    -> "Invalid"
           [] v.on = "true"  -> "Apply"
           [] v.on = "false" -> "Delete"
           [] OTHER          -> "Invalid"

\* Build and its newApply, newToggle, ...: a task without anything to do is an
\* error in the operator, and so is a pipe file that has no key or two sources.
Builds(t) ==
    CASE t.kind = "Pipe"  -> t.artifacts # <<>> /\ t.wellFormed
      [] t.kind = "Dummy" -> TRUE
      [] OTHER            -> t.resources # {}

Kindly(kind) == at = "task" /\ Builds(Task) /\ Delegate(Task, value) = kind

NotBuilt ==
    /\ at = "task" /\ ~ Builds(Task)
    /\ Finish("fatal")
    /\ TaskFrame /\ UNCHANGED <<store, history, troubles>>

InvalidToggle ==
    /\ Kindly("Invalid")
    /\ Finish("fatal")
    /\ TaskFrame /\ UNCHANGED <<store, history, troubles>>

\* A dummy task does what it is told: its result is in the plan.
RunDummy ==
    /\ Kindly("Dummy")
    /\ Finish(Task.result)
    /\ TaskFrame /\ UNCHANGED <<store, history, troubles>>

\* A type that the API server does not know cannot be enhanced.
ApplyUnknown ==
    /\ Kindly("Apply") /\ ~ Task.resources \subseteq Known
    /\ Finish("fatal")
    /\ TaskFrame /\ UNCHANGED <<store, history, troubles>>

\* Starts to apply configurations.
Start(configurations, where) ==
    /\ objs' = Enhanced(configurations, cluster)
    /\ todo' = DOMAIN configurations /\ verdict' = "healthy" /\ at' = where
    /\ UNCHANGED <<step, task, stepDone>>

RenderAll(rs) == [r \in rs |-> Rendered(r, value, uid)]

BeginApply ==
    /\ Kindly("Apply") /\ Task.resources \subseteq Known
    /\ Start(RenderAll(Task.resources), "apply")
    /\ TaskFrame /\ UNCHANGED <<store, history, troubles>>

Applying == at \in {"apply", "pipe", "artifacts"}

\* isHealthy stops at the first object that is not healthy.
Judged(r, o) == IF verdict = "healthy" THEN Health(r, o) ELSE verdict

Written(r, o) ==
    /\ MayChange(r)
    /\ cluster' = [cluster EXCEPT ![r] = o]
    /\ todo' = todo \ {r}
    /\ verdict' = Judged(r, o)
    /\ UNCHANGED <<cache, objs, at, step, task, stepDone, troubles>>

\* history: none; changed by others since, or deleted when it was written; or
\* patched with the cache behind, which may leave a field behind for good.
Doubt(r, why) == doubt' = [doubt EXCEPT ![r] = why]

\* The object is not found, and there is none: it is created.
CreateObject(r) ==
    /\ Applying /\ r \in todo
    /\ cache[r] = Absent /\ cluster[r] = Absent
    /\ Written(r, Created(r, objs[r], pods + 1))
    /\ pods' = IF Kind[r] = "pod" THEN pods + 1 ELSE pods
    /\ Doubt(r, "none")
    /\ TaskFrame

\* The object is found, and its patch accepted.
PatchObject(r) ==
    /\ Applying /\ r \in todo
    /\ cache[r] # Absent /\ OriginalReadable(cache[r]) /\ cluster[r] # Absent
    /\ LET o == Patched(cluster[r], cache[r], objs[r])
       IN  /\ Immutable(r) => Template(o.fields) = Template(cluster[r].fields)
           /\ Written(r, o)
    /\ Doubt(r, IF doubt[r] = "stale" \/ ~ UpToDate(r) THEN "stale"
                ELSE IF cluster[r].deleting THEN "changed" ELSE "none")
    /\ UNCHANGED pods /\ TaskFrame

\* The object is found, but its original configuration is not.
OriginalMissing(r) ==
    /\ Applying /\ r \in todo
    /\ cache[r] # Absent /\ ~ OriginalReadable(cache[r])
    /\ Finish("fatal")
    /\ TaskFrame /\ UNCHANGED <<store, history, troubles>>

\* The API server refuses: the object exists after all, or it does not, or its
\* template cannot be changed.
WriteRefused(r) ==
    /\ Applying /\ r \in todo
    /\ \/ cache[r] = Absent /\ cluster[r] # Absent
       \/ /\ cache[r] # Absent /\ OriginalReadable(cache[r])
          /\ \/ cluster[r] = Absent
             \/ /\ cluster[r] # Absent /\ Immutable(r)
                /\ Template(Patched(cluster[r], cache[r], objs[r]).fields)
                       # Template(cluster[r].fields)
    /\ Finish("error")
    /\ TaskFrame /\ UNCHANGED <<store, history, troubles>>

EndApply ==
    /\ at = "apply" /\ todo = {}
    /\ Finish(CASE verdict = "healthy" -> "done"
                [] verdict = "failed"  -> "fatal"
                [] OTHER               -> "waiting")
    /\ TaskFrame /\ UNCHANGED <<store, history, troubles>>

\* Objects of unknown types are left out.
BeginDelete ==
    /\ Kindly("Delete")
    /\ Start(RenderAll(Task.resources \cap Known), "delete")
    /\ TaskFrame /\ UNCHANGED <<store, history, troubles>>

\* Foreground deletion: the object stays until its dependents are gone.
Deleted(r) ==
    /\ MayChange(r)
    /\ cluster' = IF cluster[r] = Absent THEN cluster
                  ELSE [cluster EXCEPT ![r].deleting = TRUE]

DeleteObject(r) ==
    /\ at = "delete" /\ r \in todo
    /\ Deleted(r)
    /\ todo' = todo \ {r} /\ Doubt(r, IF doubt[r] = "stale" THEN "stale" ELSE "none")
    /\ TaskFrame
    /\ UNCHANGED <<cache, at, step, task, stepDone, objs, verdict, pods, troubles>>

\* The task is done when the cache has none of the objects any more.
EndDelete ==
    /\ at = "delete" /\ todo = {}
    /\ LET rs == DOMAIN objs
           gone == \A r \in rs : cache[r] = Absent
       IN  /\ Finish(IF gone THEN "done" ELSE "waiting")
           /\ doubt' = [r \in Resources |->
                           IF gone /\ r \in rs /\ cluster[r] # Absent THEN "stale" ELSE doubt[r]]
    /\ TaskFrame /\ UNCHANGED <<store, pods, troubles>>

\* A call of the API server fails: the task is tried again in the next pass.
ApiError ==
    /\ at \in {"apply", "delete", "pipe", "artifacts", "remove"} /\ Trouble
    /\ Finish("error")
    /\ TaskFrame /\ UNCHANGED <<store, history>>

(* ---------------------------- the environment ------------------------- *)

Interfered(r) == Doubt(r, IF doubt[r] = "stale" THEN "stale" ELSE "changed")

PassFrame == UNCHANGED <<at, passVars, taskVars>>

\* The plan is scheduled again, with these parameters.
Trigger(v) ==
    /\ execution < MaxExecutions
    /\ execution' = execution + 1 /\ parameters' = v
    /\ UNCHANGED <<plan, stored, store, history, troubles>> /\ PassFrame

\* The cache learns of the present state of an object.
Watch(r) ==
    /\ ~ UpToDate(r)
    /\ cache' = [cache EXCEPT ![r] = Cached(cluster[r])]
    /\ UNCHANGED <<spec, stored, cluster, history, troubles>> /\ PassFrame

Changes(r, o) ==
    /\ MayChange(r)
    /\ cluster' = [cluster EXCEPT ![r] = o]
    /\ UNCHANGED <<spec, stored, cache, pods>> /\ PassFrame

\* The controllers of the cluster do their work: a workload is rolled out, the
\* init container of a pod has finished, a job has succeeded, ...
Progress(r) ==
    /\ cluster[r] # Absent /\ ~ cluster[r].deleting
    /\ cluster[r].status # "failed" /\ ~ IsHealthy(r, cluster[r])
    /\ Changes(r, [cluster[r] EXCEPT
                      !.status = "ready",
                      !.observed = IF Kind[r] = "rollout"
                                   THEN Template(cluster[r].fields) ELSE @,
                      !.filled = Kind[r] = "pod"])
    /\ UNCHANGED <<doubt, troubles>>

\* A workload is not ready any more, or a job fails for good.
Degrade(r) ==
    /\ Trouble
    /\ cluster[r] # Absent
    /\ \/ Kind[r] = "job" /\ cluster[r].status = "pending"
       \/ Kind[r] \in {"rollout", "pod", "simple"} /\ cluster[r].status = "ready"
    /\ Changes(r, [cluster[r] EXCEPT
                      !.status = IF Kind[r] = "job" THEN "failed" ELSE "pending"])
    /\ UNCHANGED doubt

\* Somebody else changes an object, in a field of KUDO's or in another one.
OthersEdit(r, f) ==
    /\ Trouble
    /\ cluster[r] # Absent /\ ~ cluster[r].deleting /\ cluster[r].fields[f] # Foreign
    /\ ~ Immutable(r) /\ (f = "note" => Kind[r] = "rollout")
    /\ Changes(r, [cluster[r] EXCEPT !.fields = [@ EXCEPT ![f] = Foreign]])
    /\ IF f = "note" THEN UNCHANGED doubt ELSE Interfered(r)

OthersDelete(r) ==
    /\ Trouble
    /\ cluster[r] # Absent /\ ~ cluster[r].deleting
    /\ Changes(r, [cluster[r] EXCEPT !.deleting = TRUE])
    /\ Interfered(r)

\* Somebody else creates an object of that name, without KUDO's annotation.
OthersCreate(r, applied) ==
    /\ Trouble
    /\ cluster[r] = Absent /\ Kind[r] # "pod"
    /\ Changes(r, [Created(r, [NoConfiguration EXCEPT !.data = Foreign], 0)
                      EXCEPT !.applied = applied])
    /\ Interfered(r)

\* The dependents are gone, the grace period is over: the object is removed.
Finalize(r) ==
    /\ cluster[r] # Absent /\ cluster[r].deleting
    /\ Changes(r, Absent)
    /\ UNCHANGED <<doubt, troubles>>

Engine == StartPass \/ EndPass \/ EndPassInVain

TaskStep ==
    \/ NotBuilt \/ InvalidToggle \/ RunDummy \/ ApplyUnknown
    \/ BeginApply \/ EndApply \/ BeginDelete \/ EndDelete
    \/ \E r \in Resources :
           CreateObject(r) \/ PatchObject(r) \/ OriginalMissing(r)
           \/ WriteRefused(r) \/ DeleteObject(r)

Faults == PassLost \/ ApiError

Others ==
    \/ \E v \in Values : Trigger(v)
    \/ \E r \in Resources :
           \/ Watch(r) \/ Progress(r) \/ Degrade(r) \/ Finalize(r) \/ OthersDelete(r)
           \/ \E f \in {"data", "note"} : OthersEdit(r, f)
           \/ \E applied \in {Foreign, NoConfiguration} : OthersCreate(r, applied)
=============================================================================
