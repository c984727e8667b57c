------------------------------ MODULE PipeTask ------------------------------
(***************************************************************************)
(* The Pipe task (pkg/engine/task/task_pipe.go) beside the other tasks: it *)
(* applies a pod whose init container generates files, waits until the pod *)
(* is ready, copies the files out of it, applies one config map or secret  *)
(* for each file and deletes the pod, over as many passes as that takes.   *)
(*                                                                         *)
(* Every pod generates files of its own: the content of a file is the      *)
(* number of the pod.                                                      *)
(***************************************************************************)
EXTENDS ResourceTasks

\* What a task writes: a pipe its pod, and a config map or secret for each file.
Writes(t) ==
    CASE t.kind = "Pipe"  -> {t.pod} \cup Range(t.artifacts)
      [] t.kind = "Dummy" -> {}
      [] OTHER            -> t.resources

\* Plans have steps and these have tasks.  The pod and the files of a pipe are
\* named for its plan, phase, step and task (PipePodName, PipeArtifactName), so
\* that no other task writes them, provided that these names differ in their
\* letters and digits: the rest is dropped.  Files are config maps or secrets, of
\* types that every API server knows.
ASSUME PipeAssumption ==
    /\ Absent \notin Nat
    /\ \A p \in Plans :
          /\ Len(p) \in Nat \ {0} /\ DOMAIN p = 1 .. Len(p)
          /\ \A i \in DOMAIN p :
                /\ Len(p[i]) \in Nat \ {0} /\ DOMAIN p[i] = 1 .. Len(p[i])
                /\ \A k \in DOMAIN p[i] : p[i][k].kind = "Pipe" =>
                      LET t == p[i][k]
                      IN  /\ Writes(t) \subseteq Known
                          /\ Kind[t.pod] = "pod"
                          /\ \A r \in Range(t.artifacts) : Kind[r] = "plain"
                          /\ \A j \in DOMAIN p : \A l \in DOMAIN p[j] :
                                <<j, l>> # <<i, k>> => Writes(p[j][l]) \cap Writes(t) = {}

VARIABLES
    files,      \* the copies of the pipe files: Absent, or the number of a pod
    copyError   \* the first error of the copies, "none" if there is none

vars == <<spec, stored, store, at, passVars, taskVars, history, troubles,
          files, copyError>>

NoCopies == files = [f \in {} |-> 0] /\ copyError = "none"
ForgetCopies == files' = [f \in {} |-> 0] /\ copyError' = "none"

PipeInit == Init /\ NoCopies

CopyFrame == UNCHANGED <<files, copyError>>

\* validate: one init container that writes the files to the only empty volume,
\* and no other container; all files are in that volume.
ValidPod(p) ==
    /\ p.containers = 0 /\ p.initContainers = 1
    /\ p.restartPolicy \in {"", "OnFailure"}
    /\ Cardinality(p.emptyDirs) = 1 /\ p.emptyDirs \subseteq p.mounts
    /\ p.fileDirs \subseteq p.emptyDirs

InvalidPod ==
    /\ Kindly("Pipe") /\ ~ ValidPod(Task.template)
    /\ Finish("fatal")
    /\ TaskFrame /\ UNCHANGED <<store, history, troubles>> /\ CopyFrame

BeginPipe ==
    /\ Kindly("Pipe") /\ ValidPod(Task.template)
    /\ Start(RenderAll({Task.pod}), "pipe")
    /\ TaskFrame /\ UNCHANGED <<store, history, troubles>> /\ CopyFrame

\* The pod is not ready: not an error, its init container is still running.
PodNotReady ==
    /\ at = "pipe" /\ todo = {} /\ verdict # "healthy"
    /\ Finish("waiting")
    /\ TaskFrame /\ UNCHANGED <<store, history, troubles>> /\ CopyFrame

PodReady ==
    /\ at = "pipe" /\ todo = {} /\ verdict = "healthy"
    /\ at' = "copy"
    /\ files' = [f \in DOMAIN Task.artifacts |-> Absent]
    /\ UNCHANGED <<spec, stored, passVars, taskVars, store, history, troubles, copyError>>

CopyStep(f) ==
    /\ at = "copy" /\ f \in DOMAIN files /\ files[f] = Absent
    /\ UNCHANGED <<spec, stored, at, passVars, taskVars, store, history>>

\* The commands are executed in the pod that has the name now.  Unless its init
\* container has finished, the file is not complete.
CopyFile(f) ==
    /\ CopyStep(f)
    /\ LET pod == cluster[Task.pod]
       IN  /\ pod # Absent
           /\ files' = [files EXCEPT ![f] = IF pod.filled THEN pod.born ELSE 0]
    /\ UNCHANGED <<copyError, troubles>>

CopyFailed(f, error) ==
    /\ files' = [files EXCEPT ![f] = 0]
    /\ copyError' = IF copyError = "none" THEN error ELSE copyError

\* The pod is gone: the command cannot be executed, which counts as its failure.
PodGone(f) ==
    /\ CopyStep(f) /\ cluster[Task.pod] = Absent
    /\ CopyFailed(f, "fatal") /\ UNCHANGED troubles

\* A command fails or its connection, or the file is too big; or what was copied
\* cannot be unpacked.  The copies of the other files go on.
CopyFails(f, error) ==
    /\ CopyStep(f) /\ Trouble
    /\ CopyFailed(f, error)

CopiesFailed ==
    /\ at = "copy" /\ \A f \in DOMAIN files : files[f] # Absent
    /\ copyError # "none"
    /\ Finish(copyError) /\ ForgetCopies
    /\ TaskFrame /\ UNCHANGED <<store, history, troubles>>

\* Mutant: an error of one copy is forgotten.
CopiesSucceededAnyway == TRUE

CopiesSucceeded == copyError = "none"

\* The config map or secret for a file.
Artifact(content, u) ==
    [Rendered(Task.pod, value, u) EXCEPT !.data = content, !.extra = Absent]

BeginArtifacts ==
    /\ at = "copy" /\ \A f \in DOMAIN files : files[f] # Absent
    /\ CopiesSucceeded
    /\ LET rs == {Task.artifacts[f] : f \in DOMAIN files}
           fileOf(r) == CHOOSE f \in DOMAIN files : Task.artifacts[f] = r
       IN  Start([r \in rs |-> Artifact(files[fileOf(r)], uid)], "artifacts")
    /\ ForgetCopies
    /\ TaskFrame /\ UNCHANGED <<store, history, troubles>>

\* The artifacts are applied, nobody asks for their health.
EndArtifacts ==
    /\ at = "artifacts" /\ todo = {}
    /\ at' = "remove"
    /\ UNCHANGED <<spec, stored, passVars, taskVars, store, history, troubles>> /\ CopyFrame

\* The pod is deleted; its end is not awaited.
DeletePod ==
    /\ at = "remove"
    /\ Deleted(Task.pod)
    /\ Finish("done")
    /\ TaskFrame /\ UNCHANGED <<cache, history, troubles>> /\ CopyFrame

PipeStep ==
    \/ InvalidPod \/ BeginPipe \/ PodNotReady \/ PodReady
    \/ CopiesFailed \/ BeginArtifacts \/ EndArtifacts \/ DeletePod
    \/ \E f \in DOMAIN files : CopyFile(f) \/ PodGone(f)

PipeFaults ==
    \/ PassLost /\ ForgetCopies
    \/ ApiError /\ CopyFrame
    \/ \E f \in DOMAIN files, error \in {"fatal", "error"} : CopyFails(f, error)

Next ==
    \/ Engine /\ CopyFrame
    \/ TaskStep /\ CopyFrame
    \/ PipeStep
    \/ PipeFaults
    \/ Others /\ CopyFrame

\* The manager keeps reconciling, its cache catches up, and the controllers of
\* the cluster do their work.
Fairness ==
    /\ WF_vars(Engine /\ CopyFrame)
    /\ WF_vars(TaskStep /\ CopyFrame)
    /\ WF_vars(PipeStep)
    /\ \A r \in Resources :
          /\ WF_vars(Watch(r) /\ CopyFrame)
          /\ WF_vars(Progress(r) /\ CopyFrame)
          /\ WF_vars(Finalize(r) /\ CopyFrame)

Spec == PipeInit /\ [][Next]_vars /\ Fairness

(* ----------------------------- properties ----------------------------- *)

unsettled == {r \in Resources : doubt[r] # "none"}

Manages(t, r) ==
    CASE t.kind = "Pipe"  -> \E f \in DOMAIN t.artifacts : t.artifacts[f] = r
      [] t.kind = "Dummy" -> FALSE
      [] OTHER            -> r \in t.resources

\* The steps that are complete in the stored status.
Completed ==
    IF stored.uid # execution THEN 0
    ELSE IF stored.status = "COMPLETE" THEN Len(plan) ELSE stored.step - 1

\* Nothing in the plan manages r after this task.
LastToManage(i, k, r) ==
    \A j \in DOMAIN plan : \A l \in DOMAIN plan[j] :
        j > i \/ (j = i /\ l > k) => ~ Manages(plan[j][l], r)

\* What a dependency contains, now or once the task is through.
ContentNow(d) == DependencyContent(d, objs, cluster)

\* r is as this task renders it.
AsRendered(i, k, r) ==
    LET o == cluster[r]
    IN  /\ o # Absent
        /\ ~ o.deleting /\ o.fields.data = parameters.data
        /\ o.fields.extra = parameters.extra
        /\ Kind[r] = "rollout" => o.observed = Template(o.fields)
        /\ Kind[r] = "job" => o.status = "ready"
        /\ \A d \in DependsOn[r] \ unsettled :
               LastToManage(i, k, d) => o.fields.hash[d] = ContentNow(d)

\* Once a step is complete, what its tasks apply is as the templates render it
\* with the present parameters (fields that are not rendered any more are gone),
\* is rolled out with the present content of its dependencies, and what they
\* delete is gone - however many passes failed or were lost on the way, with
\* whatever parameters the executions before had got halfway.  What a later task
\* manages is left out, and an object that others have changed since, that was
\* being deleted or that the cache was behind with when it was written.
Converged ==
    \A i \in 1 .. Completed : \A k \in DOMAIN plan[i] : \A r \in Resources \ unsettled :
        LET kind == Delegate(plan[i][k], parameters)
        IN  Manages(plan[i][k], r) /\ LastToManage(i, k, r) =>
               /\ kind = "Apply" => AsRendered(i, k, r)
               /\ kind = "Delete" => cluster[r] = Absent

\* The template of a workload changes, and its pods are restarted, only if it
\* renders differently or a dependency has another content, or is gone that was there
\* when the task looked at it: not because a pass is repeated, or the same plan
\* is executed again.  What others set in fields that KUDO does not render stays.
OnlyNeeded(r) ==
    cluster[r] # Absent /\ cluster'[r] # Absent =>
        LET old == cluster[r].fields
            new == cluster'[r].fields
        IN  /\ old.note = Foreign => new.note = Foreign
            /\ Kind[r] = "rollout" /\ r \notin unsettled \cup unsettled'
                  /\ Template(old) # Template(new)
               => \/ Content(old) # Content(new)
                  \/ \E d \in DependsOn[r] :
                        \/ d \in unsettled \/ (cluster[d] = Absent /\ new.hash[d] # Absent)
                        \/ ContentNow(d) # old.hash[d]

\* The same, of all objects and every step: what task_apply.go and the hashes of
\* dependencies.go are made for.
OnlyNeededChanges == [][\A r \in Resources : OnlyNeeded(r)]_vars

\* When a pipe task is complete, its artifacts hold complete files of one and the
\* same pod, although each is copied and applied on its own, in passes that fail
\* in between, while the pod may be evicted.
ArtifactsOfOnePod ==
    \A i \in 1 .. Completed : \A k \in DOMAIN plan[i] :
        plan[i][k].kind = "Pipe" =>
            LET a == plan[i][k].artifacts
                contents == {cluster[a[f]].fields.data :
                                f \in {g \in DOMAIN a : a[g] \notin unsettled}}
            IN  Cardinality(contents) <= 1 /\ 0 \notin contents

\* The plan comes to an end.  What can prevent it is a template that may not
\* change: the job or pod of an earlier execution stays as it is.
PlanEnds ==
    \/ <>[]Ended
    \/ <>[](\E r \in Resources :
              /\ Immutable(r) /\ cluster[r] # Absent
              /\ Content(cluster[r].fields) # <<parameters.data, parameters.extra>>)
=============================================================================
