--------------------------- MODULE PipeTaskProofs ---------------------------
(***************************************************************************)
(* What a plan leaves in the cluster, for any plans, resources and         *)
(* parameters and any number of executions, failed calls and changes by    *)
(* others: the files of a pipe, the objects that tasks have applied or     *)
(* deleted, and what they have left alone.                                 *)
(*                                                                         *)
(* The first invariant follows the files of a pipe from the pod to the     *)
(* artifacts: the pod is ready once and never created again while its      *)
(* files are copied, the artifacts are rendered from copies with one       *)
(* number, and what is written stays until the task is done again or       *)
(* others touch it.                                                        *)
(*                                                                         *)
(* The second one follows an object from its rendering to the end of the   *)
(* plan: what the annotation says KUDO has set, what a task has rendered   *)
(* and what it has looked up of the dependencies, what is written as       *)
(* rendered, and what is settled because no later task manages it.         *)
(***************************************************************************)
EXTENDS PipeTask, FiniteSetTheorems, TLAPS

(* ------------------------- the inductive invariant -------------------- *)

PodNumbers == Nat \ {0}

\* The fields of an object, whatever they contain.
ObjectFields ==
    {"fields", "applied", "observed", "status", "deleting", "born", "filled"}

IsObject(o) == o = [f \in ObjectFields |-> o[f]]

\* A pod has a number, and it is ready only when its init container has finished.
IsPod(o) == o.born \in PodNumbers /\ (o.status = "ready" => o.filled)

ObjectsInv ==
    /\ pods \in Nat
    /\ cluster = [r \in Resources |-> cluster[r]]
    /\ doubt = [r \in Resources |-> doubt[r]]
    /\ \A r \in Resources : cluster[r] # Absent =>
          IsObject(cluster[r]) /\ (Kind[r] = "pod" => IsPod(cluster[r]))

\* The pass is somewhere in the plan, and one that can store its status came from
\* the stored one.
PassInv ==
    /\ plan \in Plans
    /\ step \in DOMAIN plan /\ task \in DOMAIN plan[step] /\ stepDone \in BOOLEAN
    /\ at = "complete" => step = Len(plan)
    /\ execution \in Nat /\ uid \in Nat /\ uid <= execution
    /\ stored.uid \in Nat /\ stored.uid <= execution /\ stored.step \in DOMAIN plan
    /\ at # "idle" /\ stored.uid = execution =>
          /\ uid = execution /\ stored.step <= step
          /\ stored.status \notin {"COMPLETE", "FATAL_ERROR"}

\* The pod of the running pipe task is there or gone, but not made anew.
PodIsFilled == cluster[Task.pod] # Absent => cluster[Task.pod].filled

\* All copies so far are of that pod, or they are failures that are remembered.
CopiesOf(n) ==
    /\ cluster[Task.pod] # Absent => cluster[Task.pod].born = n
    /\ \A f \in DOMAIN files : files[f] \in {Absent, 0, n}

CopyInv ==
    /\ PodIsFilled
    /\ files = [f \in DOMAIN Task.artifacts |-> files[f]]
    /\ \A f \in DOMAIN files : files[f] = 0 => copyError # "none"
    /\ \E n \in PodNumbers : CopiesOf(n)

\* An artifact that nobody else has touched has the content n.
Holds(r, n) ==
    doubt[r] = "none" => ~ cluster[r].deleting /\ cluster[r].fields.data = n

\* The artifacts are rendered from one pod, and those that are written hold that.
ArtifactsInv ==
    /\ DOMAIN objs = Range(Task.artifacts)
    /\ at = "remove" => todo = {}
    /\ \E n \in PodNumbers :
          /\ \A r \in DOMAIN objs : objs[r].data = n
          /\ \A r \in DOMAIN objs \ todo : Holds(r, n)

PipePlaces == {"pipe", "copy", "artifacts", "remove"}

TaskInv ==
    /\ todo \subseteq DOMAIN objs
    /\ at \in {"apply", "delete"} => /\ Task.kind \notin {"Pipe", "Dummy"}
                                     /\ DOMAIN objs \subseteq Writes(Task)
    /\ at \in PipePlaces => Task.kind = "Pipe"
    /\ at = "pipe" => /\ DOMAIN objs = {Task.pod}
                      /\ todo = {} /\ verdict = "healthy" => PodIsFilled
    /\ at = "copy" => CopyInv
    /\ at \in {"artifacts", "remove"} => ArtifactsInv

\* What this pass has completed, or what is completed in the stored status.
Passed(i, k) ==
    IF at = "idle" THEN i <= Completed
    ELSE i < step \/ (i = step /\ (at = "complete" \/ (stepDone /\ k < task)))

OnePod(t) == \E n \in PodNumbers : \A r \in Range(t.artifacts) : Holds(r, n)

KeptInv ==
    \A i \in DOMAIN plan : \A k \in DOMAIN plan[i] :
        Passed(i, k) /\ plan[i][k].kind = "Pipe" => OnePod(plan[i][k])

IInv == ObjectsInv /\ PassInv /\ TaskInv /\ KeptInv

ErrorTyped == copyError \in {"none", "fatal", "error"}

(* ------------------------------ positions ----------------------------- *)

LEMMA PlanParts ==
  ASSUME PassInv
  PROVE  /\ Len(plan) \in Nat \ {0} /\ DOMAIN plan = 1 .. Len(plan)
         /\ \A i \in DOMAIN plan :
               Len(plan[i]) \in Nat \ {0} /\ DOMAIN plan[i] = 1 .. Len(plan[i])
         /\ step \in 1 .. Len(plan) /\ task \in 1 .. Len(plan[step])
         /\ Len(plan[step]) \in Nat \ {0}
BY PipeAssumption DEF PassInv

\* What a pipe writes are resources, and its files are no pods.
LEMMA PipeParts ==
  ASSUME PassInv, NEW i \in DOMAIN plan, NEW k \in DOMAIN plan[i], plan[i][k].kind = "Pipe"
  PROVE  /\ plan[i][k].pod \in Resources /\ Kind[plan[i][k].pod] = "pod"
         /\ \A r \in Range(plan[i][k].artifacts) : r \in Resources /\ Kind[r] = "plain"
         /\ Writes(plan[i][k]) = {plan[i][k].pod} \cup Range(plan[i][k].artifacts)
<1>1. Writes(plan[i][k]) \subseteq Resources
  BY PipeAssumption, ResourcesAssumption DEF PassInv
<1>2. Writes(plan[i][k]) = {plan[i][k].pod} \cup Range(plan[i][k].artifacts)
  BY DEF Writes
<1>3. Kind[plan[i][k].pod] = "pod" /\ \A r \in Range(plan[i][k].artifacts) : Kind[r] = "plain"
  BY PipeAssumption DEF PassInv
<1> QED BY <1>1, <1>2, <1>3

\* The running task writes none of the files of a pipe at another position.
LEMMA Apart ==
  ASSUME PassInv, NEW i \in DOMAIN plan, NEW k \in DOMAIN plan[i], plan[i][k].kind = "Pipe",
         <<step, task>> # <<i, k>>
  PROVE  \A r \in Range(plan[i][k].artifacts) : r \notin Writes(Task)
<1>1. Writes(plan[step][task]) \cap Writes(plan[i][k]) = {}
  BY PipeAssumption DEF PassInv
<1> QED BY <1>1, PipeParts DEF Task, Tasks

(* -------------------------- what steps may do ------------------------- *)

Running == {"task", "apply", "delete"} \cup PipePlaces

\* A step leaves a file that somebody relies on.
Stays(r) == \A n \in PodNumbers : Holds(r, n) => Holds(r, n)'

LEMMA Untouched ==
  ASSUME NEW r, cluster'[r] = cluster[r], doubt'[r] = doubt[r]
  PROVE  Stays(r)
BY DEF Stays, Holds

\* If others have touched it, or may have, nobody relies on it.
LEMMA Doubted ==
  ASSUME NEW r, doubt'[r] # "none"
  PROVE  Stays(r)
BY DEF Stays, Holds

LEMMA OnePodStays ==
  ASSUME NEW t, OnePod(t), \A r \in Range(t.artifacts) : Stays(r)
  PROVE  \E n \in PodNumbers : \A r \in Range(t.artifacts) : Holds(r, n)'
BY DEF OnePod, Stays

LEMMA KeptStays ==
  ASSUME PassInv, KeptInv, plan' = plan,
         \A i \in DOMAIN plan : \A k \in DOMAIN plan[i] :
            plan[i][k].kind = "Pipe" /\ Passed(i, k)' =>
               \/ Passed(i, k) /\ \A r \in Range(plan[i][k].artifacts) : Stays(r)
               \/ \E n \in PodNumbers :
                     \A r \in Range(plan[i][k].artifacts) : Holds(r, n)'
  PROVE  KeptInv'
<1> SUFFICES ASSUME NEW i \in DOMAIN plan, NEW k \in DOMAIN plan[i],
                    Passed(i, k)', plan[i][k].kind = "Pipe"
             PROVE  \E n \in PodNumbers : \A r \in Range(plan[i][k].artifacts) : Holds(r, n)'
  BY DEF KeptInv, OnePod
<1>1. CASE Passed(i, k) /\ \A r \in Range(plan[i][k].artifacts) : Stays(r)
  <2>1. OnePod(plan[i][k])
    BY <1>1 DEF KeptInv
  <2> QED BY <2>1, <1>1, OnePodStays
<1> QED BY <1>1

\* A step within a task.
LEMMA MoveKeeps ==
  ASSUME IInv, at \in Running, at' \in Running, TaskFrame, UNCHANGED <<step, task, stepDone>>,
         ObjectsInv', TaskInv',
         \A r \in Resources : Kind[r] = "plain" /\ r \notin Writes(Task) => Stays(r)
  PROVE  IInv'
<1>1. PassInv'
  BY DEF IInv, PassInv, TaskFrame, spec, Running, PipePlaces
<1>2. ASSUME NEW i \in DOMAIN plan, NEW k \in DOMAIN plan[i],
             plan[i][k].kind = "Pipe", Passed(i, k)'
      PROVE  Passed(i, k) /\ \A r \in Range(plan[i][k].artifacts) : Stays(r)
  <2>1. /\ at # "idle" /\ at # "complete" /\ at' # "idle" /\ at' # "complete"
    BY DEF Running, PipePlaces
  <2>2. Passed(i, k)
    BY <1>2, <2>1 DEF Passed, TaskFrame, spec
  <2>3. <<step, task>> # <<i, k>>
    <3>1. step \in Nat /\ task \in Nat
      BY PlanParts DEF IInv
    <3>2. ~ (step < step) /\ ~ (task < task)
      BY <3>1
    <3> QED BY <2>1, <2>2, <3>2 DEF Passed
  <2> QED BY <1>2, <2>2, <2>3, Apart, PipeParts DEF IInv
<1>3. KeptInv'
  BY <1>2, KeptStays DEF IInv, TaskFrame, spec
<1> QED BY <1>1, <1>3 DEF IInv

\* Where the engine goes with the result of a task.
LEMMA FinishPass ==
  ASSUME PassInv, at \in Running, NEW result, Finish(result), TaskFrame
  PROVE  /\ PassInv' /\ at' \in {"task", "complete", "stopped", "fatal"}
         /\ \A i \in DOMAIN plan : \A k \in DOMAIN plan[i] :
               Passed(i, k)' => \/ Passed(i, k)
                                \/ result = "done" /\ stepDone /\ i = step /\ k = task
<1>1. /\ Len(plan) \in Nat /\ DOMAIN plan = 1 .. Len(plan)
      /\ \A i \in DOMAIN plan :
            Len(plan[i]) \in Nat \ {0} /\ DOMAIN plan[i] = 1 .. Len(plan[i])
      /\ step \in 1 .. Len(plan) /\ task \in 1 .. Len(plan[step])
  BY PlanParts
<1>2. /\ at # "idle" /\ at # "complete"
      /\ plan' = plan /\ execution' = execution /\ stored' = stored /\ uid' = uid
  BY DEF Running, PipePlaces, TaskFrame, spec
<1>3. CASE result = "fatal" /\ at' = "fatal" /\ UNCHANGED <<step, task, stepDone>>
  BY <1>2, <1>3 DEF PassInv, Passed
<1>4. CASE /\ result # "fatal" /\ task # Len(Tasks)
           /\ at' = "task" /\ task' = task + 1 /\ stepDone' = (stepDone /\ result = "done")
           /\ step' = step
  <2>1. task + 1 \in DOMAIN plan[step]
    BY <1>1, <1>4 DEF Tasks
  <2>2. PassInv'
    BY <1>2, <1>4, <2>1 DEF PassInv
  <2>3. ASSUME NEW i \in DOMAIN plan, NEW k \in DOMAIN plan[i], Passed(i, k)'
        PROVE  Passed(i, k) \/ (result = "done" /\ stepDone /\ i = step /\ k = task)
    <3>1. i < step \/ (i = step /\ stepDone /\ result = "done" /\ k < task + 1)
      BY <1>4, <2>3 DEF Passed
    <3>2. k < task + 1 /\ k \in Nat => k < task \/ k = task
      BY <1>1
    <3>3. k \in Nat
      BY <1>1
    <3> QED BY <1>2, <3>1, <3>2, <3>3 DEF Passed
  <2> QED BY <1>4, <2>2, <2>3
<1>5. CASE /\ result # "fatal" /\ task = Len(Tasks) /\ stepDone /\ result = "done"
           /\ at' = IF step = Len(plan) THEN "complete" ELSE "task"
           /\ step' = IF step = Len(plan) THEN step ELSE step + 1
           /\ task' = 1 /\ stepDone' = TRUE
  <2>1. step' \in DOMAIN plan /\ 1 \in DOMAIN plan[step'] /\ step <= step'
    <3>3. Len(plan) \in Nat /\ step \in 1 .. Len(plan)
      BY <1>1
    <3>4. step' = IF step = Len(plan) THEN step ELSE step + 1
      BY <1>5
    <3>1. step' \in 1 .. Len(plan) /\ step <= step'
      BY <3>3, <3>4
    <3>2. 1 \in DOMAIN plan[step']
      BY <1>1, <3>1
    <3> QED BY <1>1, <3>1, <3>2
  <2>2. PassInv'
    BY <1>1, <1>2, <1>5, <2>1 DEF PassInv
  <2>3. ASSUME NEW i \in DOMAIN plan, NEW k \in DOMAIN plan[i], Passed(i, k)'
        PROVE  i < step \/ (i = step /\ (k < task \/ k = task))
    <3>5. k \in 1 .. Len(plan[i]) /\ Len(plan[i]) \in Nat /\ i \in Nat
      BY <1>1
    <3>6. i = step => Len(plan[i]) = task
      BY <1>5 DEF Tasks
    <3>1. k \in Nat /\ 1 <= k /\ i \in Nat /\ (i = step => k <= task)
      BY <3>5, <3>6
    <3>2. i < step' \/ (i = step' /\ (at' = "complete" \/ k < 1))
      BY <1>5, <2>3 DEF Passed
    <3>3. ~ (k < 1)
      BY <3>1
    <3>4. i < step \/ i = step
      BY <1>1, <1>5, <3>1, <3>2, <3>3
    <3> QED BY <1>1, <3>1, <3>4
  <2> QED BY <1>2, <1>5, <2>2, <2>3 DEF Passed
<1>6. CASE at' = "stopped" /\ UNCHANGED <<step, task, stepDone>>
  BY <1>2, <1>6 DEF PassInv, Passed
<1> QED BY <1>3, <1>4, <1>5, <1>6 DEF Finish

\* The end of a task: a pipe is done only with its artifacts.
LEMMA FinishKeeps ==
  ASSUME IInv, at \in Running, NEW result, Finish(result), TaskFrame, ObjectsInv',
         \A r \in Resources : Kind[r] = "plain" => Stays(r),
         result = "done" /\ Task.kind = "Pipe" => OnePod(Task)
  PROVE  IInv'
<1>1. PassInv' /\ at' \in {"task", "complete", "stopped", "fatal"}
  BY FinishPass DEF IInv
<1>2. TaskInv'
  BY <1>1 DEF TaskInv, Finish, ForgetTask, PipePlaces
<1>3. ASSUME NEW i \in DOMAIN plan, NEW k \in DOMAIN plan[i],
             plan[i][k].kind = "Pipe", Passed(i, k)'
      PROVE  \E n \in PodNumbers : \A r \in Range(plan[i][k].artifacts) : Holds(r, n)'
  <2>1. Passed(i, k) \/ (result = "done" /\ i = step /\ k = task)
    BY <1>3, FinishPass DEF IInv
  <2>2. OnePod(plan[i][k])
    BY <1>3, <2>1 DEF IInv, KeptInv, Task, Tasks
  <2>3. \A r \in Range(plan[i][k].artifacts) : Stays(r)
    BY <1>3, PipeParts DEF IInv
  <2> QED BY <2>2, <2>3, OnePodStays
<1>4. KeptInv'
  BY <1>3, KeptStays DEF IInv, TaskFrame, spec
<1> QED BY <1>1, <1>2, <1>4 DEF IInv

(* ------------------------------ the engine ---------------------------- *)

LEMMA Initially == PipeInit => IInv
<1> SUFFICES ASSUME PipeInit PROVE IInv
  OBVIOUS
<1> USE DEF PipeInit, Init
<1>1. ObjectsInv
  BY DEF ObjectsInv
<1>2. PassInv
  <2>1. 1 \in DOMAIN plan /\ 1 \in DOMAIN plan[1]
    BY PipeAssumption
  <2> QED BY <2>1 DEF PassInv
<1>3. TaskInv
  BY DEF TaskInv, NoTask, NoObjects, PipePlaces
<1>4. KeptInv
  <2>1. Completed = 0 /\ at = "idle"
    BY DEF Completed
  <2>2. \A i \in DOMAIN plan : ~ (i <= 0)
    BY PipeAssumption
  <2> QED BY <2>1, <2>2 DEF KeptInv, Passed
<1> QED BY <1>1, <1>2, <1>3, <1>4 DEF IInv

\* What is completed in the stored status was passed before the running pass.
LEMMA CompletedPassed ==
  ASSUME PassInv, NEW i \in DOMAIN plan, NEW k \in DOMAIN plan[i], i <= Completed
  PROVE  Passed(i, k)
<1>1. CASE at = "idle"
  BY <1>1 DEF Passed
<1>2. CASE at # "idle"
  <2>1. /\ i \in Nat \ {0} /\ step \in Nat /\ stored.step \in Nat
        /\ DOMAIN plan = 1 .. Len(plan) /\ Len(plan) \in Nat
    BY PlanParts DEF PassInv
  <2>2. stored.uid = execution
    BY <2>1 DEF Completed
  <2>3. Completed = stored.step - 1 /\ stored.step <= step
    BY <1>2, <2>2 DEF PassInv, Completed
  <2>4. i < step
    BY <2>1, <2>3
  <2> QED BY <1>2, <2>4 DEF Passed
<1> QED BY <1>1, <1>2

\* A step that leaves the objects, and ends with nothing passed that was not.
LEMMA EngineKeeps ==
  ASSUME IInv, plan' = plan, UNCHANGED <<store, history>>, at' \in {"idle", "task"},
         todo' \subseteq DOMAIN objs', PassInv',
         \A i \in DOMAIN plan : \A k \in DOMAIN plan[i] : Passed(i, k)' => Passed(i, k)
  PROVE  IInv'
<1>1. ObjectsInv'
  BY DEF IInv, ObjectsInv, store, history, IsObject, IsPod
<1>2. TaskInv'
  BY DEF TaskInv, PipePlaces
<1>3. \A r \in Resources : Stays(r)
  BY Untouched DEF store, history
<1>4. KeptInv'
  BY <1>3, KeptStays, PipeParts DEF IInv
<1> QED BY <1>1, <1>2, <1>4 DEF IInv

LEMMA StartPassed ==
  ASSUME PassInv, StartPass, NEW i \in DOMAIN plan, NEW k \in DOMAIN plan[i], Passed(i, k)'
  PROVE  Passed(i, k)
<1> USE DEF StartPass, spec
<1>1. /\ i \in Nat \ {0} /\ k \in Nat \ {0} /\ stored.step \in Nat
  <2>1. DOMAIN plan = 1 .. Len(plan) /\ DOMAIN plan[i] = 1 .. Len(plan[i])
    BY PlanParts
  <2> QED BY <2>1, PlanParts DEF PassInv
<1>2. i < step' \/ k < 1
  BY DEF Passed
<1>3. i < step'
  BY <1>1, <1>2
<1>4. stored.uid = execution /\ i < stored.step
  BY <1>1, <1>3
<1>5. i <= Completed
  <2>1. stored.status # "COMPLETE"
    BY <1>4 DEF Ended
  <2>2. Completed = stored.step - 1
    BY <1>4, <2>1 DEF Completed
  <2> QED BY <1>1, <1>4, <2>2
<1> QED BY <1>5 DEF Passed

LEMMA StartPassKeeps ==
  ASSUME IInv, StartPass
  PROVE  IInv'
<1> USE DEF StartPass, spec
<1>1. PassInv'
  <2>1. /\ 1 \in DOMAIN plan /\ \A i \in DOMAIN plan : 1 \in DOMAIN plan[i]
    BY PipeAssumption DEF IInv, PassInv
  <2>2. step' \in DOMAIN plan
    BY <2>1 DEF IInv, PassInv
  <2>3. stored.step \in Nat
    BY PlanParts DEF IInv, PassInv
  <2> QED BY <2>1, <2>2, <2>3 DEF IInv, PassInv, Ended
<1>2. \A i \in DOMAIN plan : \A k \in DOMAIN plan[i] : Passed(i, k)' => Passed(i, k)
  BY StartPassed DEF IInv
<1> QED BY <1>1, <1>2, EngineKeeps DEF taskVars, IInv, TaskInv

LEMMA ForgetPassed ==
  ASSUME PassInv, at # "idle", ForgetPass,
         UNCHANGED <<spec, stored>>, NEW i \in DOMAIN plan, NEW k \in DOMAIN plan[i], Passed(i, k)'
  PROVE  Passed(i, k)
<1> USE DEF ForgetPass, spec
<1>1. i <= Completed
  BY DEF Passed, Completed
<1> QED BY <1>1, CompletedPassed

LEMMA ForgetPassKeeps ==
  ASSUME IInv, at # "idle", ForgetPass, UNCHANGED <<spec, stored, store, history>>
  PROVE  IInv'
<1> USE DEF ForgetPass, ForgetTask, spec
<1>1. PassInv'
  <2>1. 1 \in DOMAIN plan /\ 1 \in DOMAIN plan[1]
    BY PipeAssumption DEF IInv, PassInv
  <2> QED BY <2>1 DEF IInv, PassInv
<1>2. \A i \in DOMAIN plan : \A k \in DOMAIN plan[i] : Passed(i, k)' => Passed(i, k)
  BY ForgetPassed DEF IInv
<1> QED BY <1>1, <1>2, EngineKeeps

LEMMA EndPassed ==
  ASSUME PassInv, EndPass, NEW i \in DOMAIN plan, NEW k \in DOMAIN plan[i], Passed(i, k)'
  PROVE  Passed(i, k)
<1> USE DEF EndPass, ForgetPass, spec
<1>1. /\ i \in 1 .. Len(plan) /\ step \in 1 .. Len(plan) /\ Len(plan) \in Nat
  BY PlanParts
<1>2. i <= Completed'
  BY DEF Passed
<1>3. stored'.uid = execution' /\ stored'.step = step /\ stored'.status = Status
  OBVIOUS
<1>4. CASE at = "complete"
  <2>1. i <= step
    BY <1>1, <1>4 DEF PassInv
  <2> QED BY <1>1, <1>4, <2>1 DEF Passed
<1>5. CASE at # "complete"
  <2>1. Status # "COMPLETE"
    BY <1>5 DEF Status
  <2>2. Completed' = step - 1
    BY <1>3, <2>1 DEF Completed
  <2>3. i < step
    BY <1>1, <1>2, <2>2
  <2> QED BY <2>3 DEF Passed, Outcomes
<1> QED BY <1>4, <1>5

LEMMA EndPassKeeps ==
  ASSUME IInv, EndPass
  PROVE  IInv'
<1> USE DEF EndPass, ForgetPass, ForgetTask, spec
<1>1. PassInv'
  <2>1. 1 \in DOMAIN plan /\ 1 \in DOMAIN plan[1]
    BY PipeAssumption DEF IInv, PassInv
  <2> QED BY <2>1 DEF IInv, PassInv
<1>2. \A i \in DOMAIN plan : \A k \in DOMAIN plan[i] : Passed(i, k)' => Passed(i, k)
  BY EndPassed DEF IInv
<1> QED BY <1>1, <1>2, EngineKeeps

(* ---------------------------- the environment ------------------------- *)

\* A pod keeps its number and its files for as long as it is there.
PodStays(r) ==
    cluster'[r] # Absent =>
        /\ cluster[r] # Absent /\ cluster'[r].born = cluster[r].born
        /\ cluster[r].filled => cluster'[r].filled

LEMMA OthersKeep ==
  ASSUME IInv, UNCHANGED <<spec, stored, at, passVars, taskVars, files, copyError>>,
         ObjectsInv',
         \A r \in Resources : Kind[r] = "plain" => Stays(r),
         \A r \in Resources : Kind[r] = "pod" => PodStays(r)
  PROVE  IInv'
<1> USE DEF spec, passVars, taskVars
<1>1. PassInv'
  BY DEF IInv, PassInv
<1>2. KeptInv'
  <2>1. ASSUME NEW i \in DOMAIN plan, NEW k \in DOMAIN plan[i],
               plan[i][k].kind = "Pipe", Passed(i, k)'
        PROVE  Passed(i, k) /\ \A r \in Range(plan[i][k].artifacts) : Stays(r)
    BY <2>1, PipeParts DEF IInv, Passed, Completed
  <2> QED BY <2>1, KeptStays DEF IInv
<1>3. TaskInv'
  <2>1. Task' = Task
    BY DEF Task, Tasks
  <2>2. CASE at \in PipePlaces
    <3>1. /\ step \in DOMAIN plan /\ task \in DOMAIN plan[step]
          /\ Task = plan[step][task] /\ Task.kind = "Pipe"
      BY <2>2 DEF IInv, PassInv, TaskInv, Task, Tasks
    <3>2. /\ Task.pod \in Resources /\ Kind[Task.pod] = "pod"
          /\ \A r \in Range(Task.artifacts) : r \in Resources /\ Kind[r] = "plain"
      BY <3>1, PipeParts DEF IInv
    <3>3. PodStays(Task.pod)
      BY <3>2
    <3>4. PodIsFilled => PodIsFilled'
      BY <2>1, <3>3 DEF PodIsFilled, PodStays
    <3>5. \A n \in PodNumbers : CopiesOf(n) => CopiesOf(n)'
      BY <2>1, <3>3 DEF CopiesOf, PodStays
    <3>6. CopyInv => CopyInv'
      BY <2>1, <3>4, <3>5 DEF CopyInv
    <3>7. ArtifactsInv => ArtifactsInv'
      <4> HAVE ArtifactsInv
      <4>1. PICK n \in PodNumbers : /\ \A r \in DOMAIN objs : objs[r].data = n
                                    /\ \A r \in DOMAIN objs \ todo : Holds(r, n)
        BY DEF ArtifactsInv
      <4>2. \A r \in DOMAIN objs : Stays(r)
        BY <3>2 DEF ArtifactsInv
      <4>3. \A r \in DOMAIN objs \ todo : Holds(r, n)'
        BY <4>1, <4>2 DEF Stays
      <4> QED BY <2>1, <4>1, <4>3 DEF ArtifactsInv
    <3> QED BY <2>1, <2>2, <3>4, <3>6, <3>7 DEF IInv, TaskInv
  <2>3. CASE at \notin PipePlaces
    BY <2>1, <2>3 DEF IInv, TaskInv, PipePlaces
  <2> QED BY <2>2, <2>3
<1> QED BY <1>1, <1>2, <1>3 DEF IInv

\* One object changes: what the others are does not.
LEMMA ChangeKeeps ==
  ASSUME IInv, NEW r \in Resources, NEW o, Changes(r, o), CopyFrame,
         doubt' = doubt \/ \E why : Doubt(r, why),
         o # Absent => IsObject(o) /\ (Kind[r] = "pod" => IsPod(o)),
         Kind[r] = "plain" => Stays(r),
         Kind[r] = "pod" => PodStays(r)
  PROVE  IInv'
<1>1. cluster' = [cluster EXCEPT ![r] = o] /\ pods' = pods
  BY DEF Changes
<1>2. /\ cluster'[r] = o /\ \A q \in Resources \ {r} : cluster'[q] = cluster[q]
      /\ cluster' = [q \in Resources |-> cluster'[q]]
  BY <1>1 DEF IInv, ObjectsInv
<1>3. /\ \A q \in Resources \ {r} : doubt'[q] = doubt[q]
      /\ doubt' = [q \in Resources |-> doubt'[q]]
  BY DEF IInv, ObjectsInv, Doubt
<1>4. ObjectsInv'
  BY <1>1, <1>2, <1>3 DEF IInv, ObjectsInv, IsObject, IsPod
<1>5. \A q \in Resources : Kind[q] = "plain" => Stays(q)
  BY <1>2, <1>3, Untouched
<1>6. \A q \in Resources : Kind[q] = "pod" => PodStays(q)
  BY <1>2 DEF PodStays
<1> QED BY <1>4, <1>5, <1>6, OthersKeep DEF Changes, CopyFrame, PassFrame

LEMMA TriggerKeeps ==
  ASSUME IInv, NEW v, Trigger(v), CopyFrame
  PROVE  IInv'
<1> USE DEF Trigger, CopyFrame, PassFrame, passVars, taskVars, store, history
<1>1. /\ execution \in Nat /\ execution' = execution + 1 /\ stored' = stored
      /\ stored.uid # execution'
  BY DEF IInv, PassInv
<1>2. PassInv'
  BY <1>1 DEF IInv, PassInv
<1>3. ObjectsInv'
  BY DEF IInv, ObjectsInv, IsObject, IsPod
<1>4. TaskInv'
  BY DEF IInv, TaskInv, CopyInv, PodIsFilled, CopiesOf, ArtifactsInv, Holds, Task, Tasks, Writes
<1>5. ASSUME NEW i \in DOMAIN plan, NEW k \in DOMAIN plan[i], Passed(i, k)'
      PROVE  Passed(i, k)
  <2>1. i \in Nat \ {0}
    <3>1. DOMAIN plan = 1 .. Len(plan)
      BY PlanParts DEF IInv
    <3> QED BY <3>1, PlanParts DEF IInv
  <2>2. Completed' = 0
    BY <1>1 DEF Completed
  <2>3. at # "idle"
    BY <1>5, <2>1, <2>2 DEF Passed
  <2> QED BY <1>5, <2>3 DEF Passed
<1>6. KeptInv'
  BY <1>5, KeptStays, Untouched DEF IInv
<1> QED BY <1>2, <1>3, <1>4, <1>6 DEF IInv

\* Others change an object in what no pipe relies on, or in doubt.
LEMMA UpdateKeeps ==
  ASSUME IInv, NEW r \in Resources, cluster[r] # Absent, NEW o, Changes(r, o), CopyFrame,
         doubt' = doubt \/ \E why : Doubt(r, why),
         IsObject(o), o.born = cluster[r].born, cluster[r].filled => o.filled,
         o.status = "ready" /\ Kind[r] = "pod" => o.filled,
         Kind[r] = "plain" =>
            \/ doubt'[r] # "none"
            \/ /\ doubt'[r] = doubt[r] /\ o.deleting = cluster[r].deleting
               /\ o.fields = cluster[r].fields
  PROVE  IInv'
<1>1. cluster'[r] = o
  BY DEF Changes, IInv, ObjectsInv
<1>2. Kind[r] = "pod" => IsPod(o)
  BY DEF IInv, ObjectsInv, IsPod
<1>3. Kind[r] = "plain" => Stays(r)
  BY <1>1 DEF Stays, Holds
<1>4. Kind[r] = "pod" => PodStays(r)
  BY <1>1 DEF PodStays
<1> QED BY <1>2, <1>3, <1>4, ChangeKeeps

LEMMA InterferedDoubts ==
  ASSUME IInv, NEW r \in Resources, Interfered(r)
  PROVE  doubt'[r] # "none" /\ \E why : Doubt(r, why)
BY DEF IInv, ObjectsInv, Interfered, Doubt

\* What a change of some of its fields makes of an object.
LEMMA EditedObject ==
  ASSUME NEW c, IsObject(c), NEW x, NEW o, o = [c EXCEPT !.fields = x]
  PROVE  /\ IsObject(o) /\ o.fields = x /\ o.born = c.born /\ o.filled = c.filled
         /\ o.status = c.status /\ o.deleting = c.deleting
BY DEF IsObject, ObjectFields

LEMMA AppliedObject ==
  ASSUME NEW c, IsObject(c), NEW x, NEW o, o = [c EXCEPT !.applied = x]
  PROVE  /\ IsObject(o) /\ o.fields = c.fields /\ o.born = c.born /\ o.filled = c.filled
         /\ o.status = c.status /\ o.deleting = c.deleting
BY DEF IsObject, ObjectFields

LEMMA CreatedObject ==
  ASSUME NEW r, NEW m, NEW n
  PROVE  /\ IsObject(Created(r, m, n))
         /\ Created(r, m, n).fields = m /\ ~ Created(r, m, n).deleting
         /\ Kind[r] = "pod" => /\ Created(r, m, n).born = n
                               /\ Created(r, m, n).status # "ready"
<1> DEFINE y == IF Kind[r] = "plain" THEN "ready" ELSE "pending"
           z == IF Kind[r] = "pod" THEN n ELSE 0
           c == Created(r, m, n)
<1>1. c = [fields |-> m, applied |-> m, observed |-> Absent, status |-> y,
           deleting |-> FALSE, born |-> z, filled |-> FALSE]
  BY DEF Created
<1>2. Kind[r] = "pod" => z = n /\ y # "ready"
  OBVIOUS
<1> HIDE DEF c, y, z
<1>3. IsObject(c) /\ c.fields = m /\ ~ c.deleting /\ c.born = z /\ c.status = y
  BY <1>1 DEF IsObject, ObjectFields
<1> QED BY <1>2, <1>3 DEF c

LEMMA ProgressKeeps ==
  ASSUME IInv, NEW r \in Resources, Progress(r), CopyFrame
  PROVE  IInv'
<1> DEFINE c == cluster[r]
           o == [c EXCEPT !.status = "ready",
                          !.observed = IF Kind[r] = "rollout" THEN Template(c.fields) ELSE @,
                          !.filled = Kind[r] = "pod"]
<1>1. Changes(r, o) /\ c # Absent /\ ~ c.deleting /\ doubt' = doubt
  BY DEF Progress
<1>2. IsObject(c)
  BY <1>1 DEF IInv, ObjectsInv
<1>3. /\ IsObject(o) /\ o.born = c.born /\ o.deleting = c.deleting /\ o.fields = c.fields
      /\ o.filled = (Kind[r] = "pod")
  <2> DEFINE y == IF Kind[r] = "rollout" THEN Template(c.fields) ELSE c.observed
  <2>1. o = [c EXCEPT !.status = "ready", !.observed = y, !.filled = Kind[r] = "pod"]
    OBVIOUS
  <2> HIDE DEF c, o, y
  <2> QED BY <1>2, <2>1 DEF IsObject, ObjectFields
<1>5. CASE Kind[r] = "pod"
  <2>1. Kind[r] # "plain"
    BY <1>5
  <2> HIDE DEF o
  <2> QED BY <1>1, <1>3, <1>5, <2>1, UpdateKeeps
<1>6. CASE Kind[r] # "pod"
  <2>1. cluster'[r] = o
    BY <1>1 DEF Changes, IInv, ObjectsInv
  <2>2. Stays(r)
    BY <1>1, <1>3, <2>1 DEF Stays, Holds
  <2> HIDE DEF o
  <2> QED BY <1>1, <1>3, <1>6, <2>2, ChangeKeeps
<1> QED BY <1>5, <1>6

LEMMA DegradeKeeps ==
  ASSUME IInv, NEW r \in Resources, Degrade(r), CopyFrame
  PROVE  IInv'
<1> DEFINE c == cluster[r]
           o == [c EXCEPT !.status = IF Kind[r] = "job" THEN "failed" ELSE "pending"]
<1>1. Changes(r, o) /\ c # Absent /\ doubt' = doubt
  BY DEF Degrade
<1>2. IsObject(c)
  BY <1>1 DEF IInv, ObjectsInv
<1>3. /\ IsObject(o) /\ o.born = c.born /\ o.deleting = c.deleting /\ o.fields = c.fields
      /\ o.filled = c.filled /\ o.status # "ready"
  BY <1>2 DEF IsObject, ObjectFields
<1> HIDE DEF o
<1> QED BY <1>1, <1>3, UpdateKeeps

LEMMA OthersDeleteKeeps ==
  ASSUME IInv, NEW r \in Resources, OthersDelete(r), CopyFrame
  PROVE  IInv'
<1> DEFINE c == cluster[r]
           o == [c EXCEPT !.deleting = TRUE]
<1>1. Changes(r, o) /\ c # Absent /\ Interfered(r)
  BY DEF OthersDelete
<1>2. IsObject(c) /\ (Kind[r] = "pod" => IsPod(c))
  BY <1>1 DEF IInv, ObjectsInv
<1>3. /\ IsObject(o) /\ o.born = c.born /\ o.filled = c.filled /\ o.status = c.status
  BY <1>2 DEF IsObject, ObjectFields
<1>4. doubt'[r] # "none" /\ \E why : Doubt(r, why)
  BY <1>1, InterferedDoubts
<1> HIDE DEF o
<1> QED BY <1>1, <1>2, <1>3, <1>4, UpdateKeeps DEF IsPod

LEMMA OthersEditKeeps ==
  ASSUME IInv, NEW r \in Resources, NEW f \in {"data", "note"}, OthersEdit(r, f), CopyFrame
  PROVE  IInv'
<1> DEFINE c == cluster[r]
           o == [c EXCEPT !.fields = [@ EXCEPT ![f] = Foreign]]
<1>1. Changes(r, o) /\ c # Absent /\ Kind[r] # "pod" /\ (f = "note" => Kind[r] = "rollout")
  BY DEF OthersEdit, Immutable
<1>2. IsObject(c)
  BY <1>1 DEF IInv, ObjectsInv
<1>3. IsObject(o) /\ o.born = c.born /\ o.filled = c.filled
  <2> DEFINE x == [c.fields EXCEPT ![f] = Foreign]
  <2>1. o = [c EXCEPT !.fields = x]
    OBVIOUS
  <2> HIDE DEF o, x
  <2> QED BY <1>2, <2>1, EditedObject
<1>4. CASE f = "note"
  <2>1. doubt' = doubt /\ Kind[r] # "plain"
    BY <1>1, <1>4 DEF OthersEdit
  <2> HIDE DEF o
  <2> QED BY <1>1, <1>3, <2>1, UpdateKeeps
<1>5. CASE f # "note"
  <2>1. doubt'[r] # "none" /\ \E why : Doubt(r, why)
    BY <1>5, InterferedDoubts DEF OthersEdit
  <2> HIDE DEF o
  <2> QED BY <1>1, <1>3, <2>1, UpdateKeeps
<1> QED BY <1>4, <1>5

LEMMA OthersCreateKeeps ==
  ASSUME IInv, NEW r \in Resources, NEW applied, OthersCreate(r, applied), CopyFrame
  PROVE  IInv'
<1> DEFINE o == [Created(r, [NoConfiguration EXCEPT !.data = Foreign], 0)
                    EXCEPT !.applied = applied]
<1>1. Changes(r, o) /\ Kind[r] # "pod" /\ Interfered(r)
  BY DEF OthersCreate
<1>2. IsObject(o)
  <2> DEFINE c == Created(r, [NoConfiguration EXCEPT !.data = Foreign], 0)
  <2>1. IsObject(c) /\ o = [c EXCEPT !.applied = applied]
    BY CreatedObject
  <2> HIDE DEF o, c
  <2> QED BY <2>1, AppliedObject
<1>3. doubt'[r] # "none" /\ \E why : Doubt(r, why)
  BY <1>1, InterferedDoubts
<1> HIDE DEF o
<1> QED BY <1>1, <1>2, <1>3, Doubted, ChangeKeeps

LEMMA FinalizeKeeps ==
  ASSUME IInv, NEW r \in Resources, Finalize(r), CopyFrame
  PROVE  IInv'
<1>1. Changes(r, Absent) /\ cluster[r].deleting /\ doubt' = doubt
  BY DEF Finalize
<1>2. Stays(r)
  BY <1>1 DEF Stays, Holds
<1>3. PodStays(r)
  BY <1>1 DEF PodStays, Changes, IInv, ObjectsInv
<1> QED BY <1>1, <1>2, <1>3, ChangeKeeps

LEMMA WatchKeeps ==
  ASSUME IInv, NEW r \in Resources, Watch(r), CopyFrame
  PROVE  IInv'
<1> USE DEF Watch, CopyFrame, PassFrame, history
<1>1. ObjectsInv'
  BY DEF IInv, ObjectsInv, IsObject, IsPod
<1> QED BY <1>1, OthersKeep, Untouched DEF PodStays

LEMMA EnvironmentKeeps ==
  ASSUME IInv, Others, CopyFrame
  PROVE  IInv'
BY TriggerKeeps, WatchKeeps, ProgressKeeps, DegradeKeeps, FinalizeKeeps, OthersDeleteKeeps,
   OthersEditKeeps, OthersCreateKeeps DEF Others

(* ------------------------------- the tasks ---------------------------- *)

LEMMA TaskParts ==
  ASSUME IInv
  PROVE  /\ step \in DOMAIN plan /\ task \in DOMAIN plan[step] /\ Task = plan[step][task]
         /\ Task.kind = "Pipe" =>
               /\ Task.pod \in Resources /\ Kind[Task.pod] = "pod"
               /\ \A r \in Range(Task.artifacts) : r \in Resources /\ Kind[r] = "plain"
               /\ Writes(Task) = {Task.pod} \cup Range(Task.artifacts)
BY PipeParts DEF IInv, PassInv, Task, Tasks

\* A task ends without a change of the cluster, and a pipe not yet.
LEMMA EndKeeps ==
  ASSUME IInv, at \in Running, NEW result, Finish(result), TaskFrame,
         UNCHANGED <<store, history>>, result = "done" => Task.kind # "Pipe"
  PROVE  IInv'
<1>1. ObjectsInv'
  BY DEF IInv, ObjectsInv, IsObject, IsPod, store, history
<1>2. \A r \in Resources : Stays(r)
  BY Untouched DEF store, history
<1> QED BY <1>1, <1>2, FinishKeeps

\* A task starts to write its objects, or turns from one thing to the next.
LEMMA StartKeeps ==
  ASSUME IInv, at \in Running, at' \in Running, TaskFrame, UNCHANGED <<step, task, stepDone>>,
         UNCHANGED <<store, history>>, TaskInv'
  PROVE  IInv'
<1>1. ObjectsInv'
  BY DEF IInv, ObjectsInv, IsObject, IsPod, store, history
<1>2. \A r \in Resources : Stays(r)
  BY Untouched DEF store, history
<1> QED BY <1>1, <1>2, MoveKeeps

LEMMA KindlyMeans ==
  ASSUME NEW kind, Kindly(kind)
  PROVE  /\ at = "task" /\ at \in Running
         /\ kind \in {"Dummy", "Pipe"} => Task.kind = kind
         /\ kind \in {"Apply", "Delete"} => Task.kind \notin {"Pipe", "Dummy"}
                                            /\ Writes(Task) = Task.resources
BY DEF Kindly, Delegate, Running, Writes

LEMMA EnhancedDomain ==
  ASSUME NEW os, NEW cl
  PROVE  DOMAIN Enhanced(os, cl) = DOMAIN os
BY DEF Enhanced

LEMMA BeginKeeps ==
  ASSUME IInv, BeginApply \/ BeginDelete, CopyFrame
  PROVE  IInv'
<1>1. /\ at = "task" /\ at \in Running
      /\ Task.kind \notin {"Pipe", "Dummy"} /\ Writes(Task) = Task.resources
  BY KindlyMeans DEF BeginApply, BeginDelete
<1>2. PICK rs \in SUBSET Task.resources, where \in {"apply", "delete"} :
         Start(RenderAll(rs), where)
  BY DEF BeginApply, BeginDelete
<1>3. /\ TaskFrame /\ UNCHANGED <<step, task, stepDone>> /\ UNCHANGED <<store, history>>
      /\ at' = where /\ todo' = rs /\ DOMAIN objs' = rs
  BY <1>2, EnhancedDomain DEF Start, BeginApply, BeginDelete, RenderAll
<1>4. Task' = Task
  BY <1>3 DEF Task, Tasks, TaskFrame, spec
<1>5. TaskInv'
  BY <1>1, <1>3, <1>4 DEF TaskInv, PipePlaces, Writes
<1> QED BY <1>1, <1>3, <1>5, StartKeeps DEF Running

LEMMA BeginPipeKeeps ==
  ASSUME IInv, BeginPipe
  PROVE  IInv'
<1>1. at \in Running /\ Task.kind = "Pipe"
  BY KindlyMeans DEF BeginPipe
<1>2. /\ TaskFrame /\ UNCHANGED <<step, task, stepDone>> /\ UNCHANGED <<store, history>>
      /\ at' = "pipe" /\ todo' = {Task.pod} /\ DOMAIN objs' = {Task.pod}
  BY EnhancedDomain DEF Start, BeginPipe, RenderAll
<1>3. Task' = Task
  BY <1>2 DEF Task, Tasks, TaskFrame, spec
<1>4. TaskInv'
  BY <1>1, <1>2, <1>3 DEF TaskInv, PipePlaces
<1> QED BY <1>1, <1>2, <1>4, StartKeeps DEF Running, PipePlaces

LEMMA EndsKeep ==
  ASSUME IInv, NotBuilt \/ InvalidToggle \/ RunDummy \/ ApplyUnknown \/ EndApply
  PROVE  IInv'
<1>1. CASE NotBuilt \/ InvalidToggle \/ ApplyUnknown
  <2>1. /\ at \in Running /\ Finish("fatal") /\ TaskFrame /\ UNCHANGED <<store, history>>
    BY <1>1, KindlyMeans DEF NotBuilt, InvalidToggle, ApplyUnknown, Running, Kindly
  <2> QED BY <2>1, EndKeeps
<1>2. CASE RunDummy
  <2>1. at \in Running /\ Task.kind = "Dummy"
    BY <1>2, KindlyMeans DEF RunDummy
  <2> QED BY <1>2, <2>1, EndKeeps DEF RunDummy
<1>3. CASE EndApply
  <2>1. at \in Running /\ Task.kind # "Pipe"
    BY <1>3 DEF EndApply, Running, IInv, TaskInv
  <2>2. PICK result : Finish(result)
    BY <1>3 DEF EndApply
  <2> QED BY <1>3, <2>1, <2>2, EndKeeps DEF EndApply
<1> QED BY <1>1, <1>2, <1>3

\* The objects that a task writes are its own.
LEMMA ObjectsAreOwn ==
  ASSUME IInv, at \in {"apply", "delete", "pipe", "artifacts"}
  PROVE  /\ todo \subseteq Writes(Task) /\ DOMAIN objs \subseteq Writes(Task)
         /\ at \in Running
BY TaskParts DEF IInv, TaskInv, ArtifactsInv, PipePlaces, Running

\* A write of an object: one that counts has the content that was asked for.
LEMMA WriteKeeps ==
  ASSUME IInv, NEW r \in Resources, NEW o, NEW why, Applying, r \in todo, Written(r, o),
         Doubt(r, why), TaskFrame, CopyFrame, pods' \in Nat,
         IsObject(o), Kind[r] = "pod" => IsPod(o),
         why = "none" /\ objs[r].data \in Nat => ~ o.deleting /\ o.fields.data = objs[r].data
  PROVE  IInv'
<1>1. /\ cluster' = [cluster EXCEPT ![r] = o] /\ todo' = todo \ {r}
      /\ verdict' = Judged(r, o) /\ UNCHANGED <<objs, at, step, task, stepDone>>
      /\ doubt' = [doubt EXCEPT ![r] = why]
  BY DEF Written, Doubt
<1>2. /\ cluster'[r] = o /\ \A q \in Resources \ {r} : cluster'[q] = cluster[q]
      /\ cluster' = [q \in Resources |-> cluster'[q]]
      /\ doubt'[r] = why /\ \A q \in Resources \ {r} : doubt'[q] = doubt[q]
      /\ doubt' = [q \in Resources |-> doubt'[q]]
  BY <1>1 DEF IInv, ObjectsInv
<1>3. at \in {"apply", "pipe", "artifacts"}
  BY DEF Applying
<1>4. r \in Writes(Task) /\ at \in Running
  BY <1>3, ObjectsAreOwn
<1>5. ObjectsInv'
  BY <1>2 DEF IInv, ObjectsInv, IsObject, IsPod
<1>6. \A q \in Resources : q \notin Writes(Task) => Stays(q)
  BY <1>2, <1>4, Untouched
<1>7. Task' = Task
  BY <1>1 DEF Task, Tasks, TaskFrame, spec
<1>8. TaskInv'
  <2>1. todo \subseteq DOMAIN objs /\ todo' \subseteq DOMAIN objs'
    BY <1>1 DEF IInv, TaskInv
  <2>2. CASE at = "apply"
    BY <1>1, <1>7, <2>1, <2>2 DEF IInv, TaskInv, PipePlaces
  <2>3. CASE at = "pipe"
    <3>1. r = Task.pod /\ DOMAIN objs = {Task.pod} /\ Task.kind = "Pipe"
      BY <2>1, <2>3 DEF IInv, TaskInv, PipePlaces
    <3>2. verdict' = "healthy" => o.status = "ready"
      BY <1>1 DEF Judged, Health, IsHealthy
    <3>3. IsPod(o)
      BY <3>1, TaskParts
    <3>4. verdict' = "healthy" => PodIsFilled'
      BY <1>2, <1>7, <3>1, <3>2, <3>3 DEF PodIsFilled, IsPod
    <3> QED BY <1>1, <1>7, <2>1, <2>3, <3>1, <3>4 DEF TaskInv, PipePlaces
  <2>4. CASE at = "artifacts"
    <3>1. ArtifactsInv /\ Task.kind = "Pipe"
      BY <2>4 DEF IInv, TaskInv, PipePlaces
    <3>2. DOMAIN objs = Range(Task.artifacts)
      BY <3>1 DEF ArtifactsInv
    <3>3. PICK n \in PodNumbers : /\ \A q \in DOMAIN objs : objs[q].data = n
                                  /\ \A q \in DOMAIN objs \ todo : Holds(q, n)
      BY <3>1 DEF ArtifactsInv
    <3>4. objs[r].data = n /\ n \in Nat
      BY <2>1, <3>3 DEF PodNumbers
    <3>5. Holds(r, n)'
      BY <1>2, <3>4 DEF Holds
    <3>6. ASSUME NEW q \in DOMAIN objs \ todo, q # r
          PROVE  Holds(q, n)'
      <4>1. q \in Resources
        BY <3>1, <3>2, TaskParts
      <4>2. Holds(q, n)
        BY <3>3
      <4> QED BY <1>2, <3>6, <4>1, <4>2 DEF Holds
    <3>7. \A q \in DOMAIN objs \ todo' : Holds(q, n)'
      BY <1>1, <3>5, <3>6
    <3>8. ArtifactsInv'
      BY <1>1, <1>7, <2>4, <3>2, <3>3, <3>7 DEF ArtifactsInv
    <3> QED BY <1>1, <1>7, <2>1, <2>4, <3>1, <3>8 DEF TaskInv, PipePlaces
  <2> QED BY <1>3, <2>2, <2>3, <2>4
<1> QED BY <1>1, <1>4, <1>5, <1>6, <1>8, MoveKeeps

LEMMA CreateKeeps ==
  ASSUME IInv, NEW r \in Resources, CreateObject(r), CopyFrame
  PROVE  IInv'
<1> DEFINE n == pods + 1
           o == Created(r, objs[r], n)
<1>1. pods \in Nat /\ n \in PodNumbers /\ pods' \in Nat
  BY DEF CreateObject, IInv, ObjectsInv, PodNumbers
<1>2. /\ IsObject(o) /\ (Kind[r] = "pod" => IsPod(o))
      /\ o.fields = objs[r] /\ ~ o.deleting
  <2>1. /\ IsObject(o) /\ o.fields = objs[r] /\ ~ o.deleting
        /\ Kind[r] = "pod" => o.born = n /\ o.status # "ready"
    <3> HIDE DEF n
    <3> QED BY CreatedObject
  <2> HIDE DEF o
  <2> QED BY <1>1, <2>1 DEF IsPod
<1>3. /\ Applying /\ r \in todo /\ Written(r, o) /\ Doubt(r, "none") /\ TaskFrame
  BY DEF CreateObject
<1> HIDE DEF o
<1>4. ~ o.deleting /\ o.fields.data = objs[r].data
  BY <1>2
<1> QED BY <1>1, <1>2, <1>3, <1>4, WriteKeeps

LEMMA PatchKeeps ==
  ASSUME IInv, NEW r \in Resources, PatchObject(r), CopyFrame
  PROVE  IInv'
<1> DEFINE c == cluster[r]
           x == Merged(cache[r].applied, objs[r], cache[r].fields, c.fields)
           y == IF cache[r].applied = objs[r] THEN c.applied ELSE objs[r]
           o == Patched(c, cache[r], objs[r])
           why == IF doubt[r] = "stale" \/ ~ UpToDate(r) THEN "stale"
                  ELSE IF c.deleting THEN "changed" ELSE "none"
<1>1. /\ Applying /\ r \in todo /\ Written(r, o) /\ Doubt(r, why) /\ TaskFrame
      /\ c # Absent /\ pods' = pods
  BY DEF PatchObject
<1>2. IsObject(c) /\ (Kind[r] = "pod" => IsPod(c)) /\ pods \in Nat
  BY <1>1 DEF IInv, ObjectsInv
<1>3. /\ IsObject(o) /\ o.fields = x /\ o.born = c.born /\ o.filled = c.filled
      /\ o.status = c.status /\ o.deleting = c.deleting
  <2> DEFINE e == [c EXCEPT !.fields = x]
  <2>1. /\ IsObject(e) /\ e.fields = x /\ e.born = c.born /\ e.filled = c.filled
        /\ e.status = c.status /\ e.deleting = c.deleting
    BY <1>2, EditedObject
  <2>2. o = [e EXCEPT !.applied = y]
    BY DEF Patched
  <2> HIDE DEF e, x, y, o
  <2> QED BY <2>1, <2>2, AppliedObject
<1>4. ASSUME why = "none", objs[r].data \in Nat
      PROVE  ~ o.deleting /\ o.fields.data = objs[r].data
  <2>1. UpToDate(r) /\ ~ c.deleting
    BY <1>4
  <2>2. cache[r].fields = c.fields
    BY <1>1, <2>1 DEF UpToDate, Cached
  <2>3. objs[r].data # Absent
    BY <1>4, PipeAssumption
  <2>4. x["data"] = objs[r]["data"]
    BY <2>2, <2>3 DEF Merged, Fields
  <2> QED BY <1>3, <2>1, <2>4
<1>5. Kind[r] = "pod" => IsPod(o)
  BY <1>2, <1>3 DEF IsPod
<1> HIDE DEF c, o, why, x, y
<1> QED BY <1>1, <1>2, <1>3, <1>4, <1>5, WriteKeeps

LEMMA RefusedKeeps ==
  ASSUME IInv, NEW r, OriginalMissing(r) \/ WriteRefused(r)
  PROVE  IInv'
<1>1. at \in Running
  BY ObjectsAreOwn DEF OriginalMissing, WriteRefused, Applying
<1>2. /\ Finish("fatal") \/ Finish("error")
      /\ TaskFrame /\ UNCHANGED <<store, history>>
  BY DEF OriginalMissing, WriteRefused
<1> QED BY <1>1, <1>2, EndKeeps

\* The deletion of an object that no pipe has made, or that is a pod.
LEMMA DeletedKeeps ==
  ASSUME IInv, NEW r \in Resources, Deleted(r), pods' = pods,
         doubt' = doubt \/ \E why : Doubt(r, why)
  PROVE  /\ ObjectsInv'
         /\ \A q \in Resources \ {r} : Stays(q)
         /\ \A q \in Resources : PodStays(q)
<1>1. CASE cluster[r] = Absent
  <2>1. cluster' = cluster
    BY <1>1 DEF Deleted
  <2>2. /\ \A q \in Resources \ {r} : doubt'[q] = doubt[q]
        /\ doubt' = [q \in Resources |-> doubt'[q]]
    BY DEF IInv, ObjectsInv, Doubt
  <2>3. ObjectsInv'
    BY <2>1, <2>2 DEF IInv, ObjectsInv, IsObject, IsPod
  <2> QED BY <2>1, <2>2, <2>3, Untouched DEF PodStays
<1>2. CASE cluster[r] # Absent
  <2> DEFINE c == cluster[r]
             o == [c EXCEPT !.deleting = TRUE]
  <2>1. cluster' = [cluster EXCEPT ![r] = o]
    BY <1>2 DEF Deleted
  <2>2. IsObject(c) /\ (Kind[r] = "pod" => IsPod(c))
    BY <1>2 DEF IInv, ObjectsInv
  <2>3. IsObject(o) /\ o.born = c.born /\ o.filled = c.filled /\ o.status = c.status
    BY <2>2 DEF IsObject, ObjectFields
  <2> HIDE DEF o
  <2>4. /\ cluster'[r] = o /\ \A q \in Resources \ {r} : cluster'[q] = cluster[q]
        /\ cluster' = [q \in Resources |-> cluster'[q]]
    BY <2>1 DEF IInv, ObjectsInv
  <2>5. /\ \A q \in Resources \ {r} : doubt'[q] = doubt[q]
        /\ doubt' = [q \in Resources |-> doubt'[q]]
    BY DEF IInv, ObjectsInv, Doubt
  <2>6. Kind[r] = "pod" => IsPod(o)
    BY <2>2, <2>3 DEF IsPod
  <2>7. ObjectsInv'
    BY <2>3, <2>4, <2>5, <2>6 DEF IInv, ObjectsInv, IsObject, IsPod
  <2>8. \A q \in Resources : PodStays(q)
    BY <1>2, <2>3, <2>4 DEF PodStays
  <2> QED BY <2>4, <2>5, <2>7, <2>8, Untouched
<1> QED BY <1>1, <1>2

LEMMA DeleteKeeps ==
  ASSUME IInv, NEW r \in Resources, DeleteObject(r), CopyFrame
  PROVE  IInv'
<1>1. /\ at = "delete" /\ r \in todo /\ todo' = todo \ {r} /\ pods' = pods /\ objs' = objs
      /\ TaskFrame /\ UNCHANGED <<at, step, task, stepDone>> /\ \E why : Doubt(r, why)
  BY DEF DeleteObject
<1>2. r \in Writes(Task) /\ at \in Running
  BY <1>1, ObjectsAreOwn
<1>3. ObjectsInv' /\ \A q \in Resources \ {r} : Stays(q)
  BY <1>1, DeletedKeeps DEF DeleteObject
<1>4. Task' = Task
  BY <1>1 DEF Task, Tasks, TaskFrame, spec
<1>5. TaskInv'
  BY <1>1, <1>4 DEF IInv, TaskInv, PipePlaces, Writes
<1> QED BY <1>1, <1>2, <1>3, <1>5, MoveKeeps

LEMMA EndDeleteKeeps ==
  ASSUME IInv, EndDelete, CopyFrame
  PROVE  IInv'
<1>1. /\ at = "delete" /\ TaskFrame /\ cluster' = cluster /\ pods' = pods
      /\ \A r \in Resources : doubt'[r] = doubt[r] \/ doubt'[r] = "stale"
      /\ doubt' = [r \in Resources |-> doubt'[r]]
  BY DEF EndDelete, store
<1>2. PICK result : Finish(result)
  BY DEF EndDelete
<1>3. at \in Running /\ Task.kind # "Pipe"
  BY <1>1 DEF IInv, TaskInv, Running
<1>4. ObjectsInv'
  BY <1>1 DEF IInv, ObjectsInv, IsObject, IsPod
<1>5. \A r \in Resources : Stays(r)
  BY <1>1, Untouched, Doubted
<1> QED BY <1>1, <1>2, <1>3, <1>4, <1>5, FinishKeeps

LEMMA TaskKeeps ==
  ASSUME IInv, TaskStep, CopyFrame
  PROVE  IInv'
BY EndsKeep, BeginKeeps, EndDeleteKeeps, CreateKeeps, PatchKeeps, RefusedKeeps, DeleteKeeps
   DEF TaskStep

(* ----------------------------- the pipe task -------------------------- *)

LEMMA PipeEndsKeep ==
  ASSUME IInv, ErrorTyped, InvalidPod \/ PodNotReady \/ CopiesFailed
  PROVE  IInv'
<1>1. at \in Running
  BY KindlyMeans DEF InvalidPod, PodNotReady, CopiesFailed, Running, PipePlaces
<1>2. CASE InvalidPod
  BY <1>1, <1>2, EndKeeps DEF InvalidPod
<1>3. CASE PodNotReady
  BY <1>1, <1>3, EndKeeps DEF PodNotReady
<1>4. CASE CopiesFailed
  <2>1. copyError # "done"
    BY DEF ErrorTyped
  <2> QED BY <1>1, <1>4, <2>1, EndKeeps DEF CopiesFailed
<1> QED BY <1>2, <1>3, <1>4

LEMMA PodReadyKeeps ==
  ASSUME IInv, PodReady
  PROVE  IInv'
<1> USE DEF PodReady, passVars, taskVars, spec, store, history
<1>1. at \in Running /\ at' = "copy" /\ Task.kind = "Pipe" /\ PodIsFilled
  BY DEF IInv, TaskInv, Running, PipePlaces
<1>2. Task' = Task /\ cluster' = cluster
  BY DEF Task, Tasks
<1>3. Absent # 0
  BY PipeAssumption
<1>4. \E n \in PodNumbers : CopiesOf(n)'
  <2>1. CASE cluster[Task.pod] = Absent
    <3>1. CopiesOf(1)'
      BY <1>2, <2>1 DEF CopiesOf
    <3> QED BY <3>1 DEF PodNumbers
  <2>2. CASE cluster[Task.pod] # Absent
    <3>1. PICK n \in PodNumbers : n = cluster[Task.pod].born
      BY <1>1, <2>2, TaskParts DEF IInv, ObjectsInv, IsPod
    <3>2. CopiesOf(n)'
      BY <1>2, <3>1 DEF CopiesOf
    <3> QED BY <3>2
  <2> QED BY <2>1, <2>2
<1>5. CopyInv'
  BY <1>1, <1>2, <1>3, <1>4 DEF CopyInv, PodIsFilled
<1>6. TaskInv'
  BY <1>1, <1>2, <1>5 DEF IInv, TaskInv, PipePlaces
<1> QED BY <1>1, <1>6, StartKeeps DEF TaskFrame, Running, PipePlaces

\* One copy after the other: of the pod, or a failure.
LEMMA CopyKeeps ==
  ASSUME IInv, NEW f \in DOMAIN files, CopyStep(f), NEW x,
         files' = [files EXCEPT ![f] = x],
         x \in {0} \cup PodNumbers,
         x \in PodNumbers => cluster[Task.pod] # Absent /\ x = cluster[Task.pod].born,
         x = 0 => copyError' # "none", copyError # "none" => copyError' # "none"
  PROVE  IInv'
<1> USE DEF CopyStep, passVars, taskVars, spec, store, history
<1>1. /\ at = "copy" /\ at' = "copy" /\ at \in Running /\ cluster' = cluster
      /\ Task.kind = "Pipe" /\ CopyInv
  BY DEF IInv, TaskInv, Running, PipePlaces
<1>2. Task' = Task
  BY DEF Task, Tasks
<1>3. PICK n \in PodNumbers : CopiesOf(n)
  BY <1>1 DEF CopyInv
<1>4. /\ DOMAIN files' = DOMAIN files /\ files'[f] = x
      /\ \A g \in DOMAIN files : g # f => files'[g] = files[g]
      /\ files' = [g \in DOMAIN Task.artifacts |-> files'[g]]
  BY <1>1 DEF CopyInv
<1>5. CopiesOf(n)'
  BY <1>1, <1>2, <1>3, <1>4 DEF CopiesOf
<1>6. CopyInv'
  BY <1>1, <1>2, <1>4, <1>5 DEF CopyInv, PodIsFilled
<1>7. TaskInv'
  BY <1>1, <1>2, <1>6 DEF IInv, TaskInv, PipePlaces
<1> QED BY <1>1, <1>7, StartKeeps DEF TaskFrame, Running, PipePlaces

LEMMA CopiesKeep ==
  ASSUME IInv, NEW f \in DOMAIN files,
         CopyFile(f) \/ PodGone(f) \/ \E error \in {"fatal", "error"} : CopyFails(f, error)
  PROVE  IInv'
<1>1. CASE CopyFile(f)
  <2>1. at = "copy" /\ cluster[Task.pod] # Absent
    BY <1>1 DEF CopyFile, CopyStep
  <2>2. CopyInv /\ Task.kind = "Pipe"
    BY <2>1 DEF IInv, TaskInv, PipePlaces
  <2>3. cluster[Task.pod].filled /\ cluster[Task.pod].born \in PodNumbers
    BY <2>1, <2>2, TaskParts DEF IInv, ObjectsInv, IsPod, CopyInv, PodIsFilled
  <2>4. files' = [files EXCEPT ![f] = cluster[Task.pod].born] /\ copyError' = copyError
    BY <1>1, <2>3 DEF CopyFile
  <2>5. cluster[Task.pod].born # 0
    BY <2>3 DEF PodNumbers
  <2> QED BY <1>1, <2>1, <2>3, <2>4, <2>5, CopyKeeps DEF CopyFile
<1>2. CASE PodGone(f) \/ \E error \in {"fatal", "error"} : CopyFails(f, error)
  <2>1. PICK error \in {"fatal", "error"} : CopyStep(f) /\ CopyFailed(f, error)
    BY <1>2 DEF PodGone, CopyFails
  <2>2. files' = [files EXCEPT ![f] = 0] /\ copyError' # "none"
    BY <2>1 DEF CopyFailed
  <2>3. 0 \notin PodNumbers
    BY DEF PodNumbers
  <2> QED BY <2>1, <2>2, <2>3, CopyKeeps
<1> QED BY <1>1, <1>2

LEMMA BeginArtifactsKeeps ==
  ASSUME IInv, BeginArtifacts
  PROVE  IInv'
<1> DEFINE rs == {Task.artifacts[f] : f \in DOMAIN files}
           fileOf(r) == CHOOSE f \in DOMAIN files : Task.artifacts[f] = r
           configurations == [r \in rs |-> Artifact(files[fileOf(r)], uid)]
<1>1. /\ at = "copy" /\ at \in Running /\ Task.kind = "Pipe" /\ CopyInv
      /\ copyError = "none" /\ \A f \in DOMAIN files : files[f] # Absent
  BY DEF BeginArtifacts, CopiesSucceeded, IInv, TaskInv, Running, PipePlaces
<1>2. Start(configurations, "artifacts")
  BY DEF BeginArtifacts
<1>3. rs = Range(Task.artifacts)
  BY <1>1 DEF CopyInv, Range
<1>4. PICK n \in PodNumbers : CopiesOf(n)
  BY <1>1 DEF CopyInv
<1>5. \A f \in DOMAIN files : files[f] = n
  BY <1>1, <1>4 DEF CopiesOf, CopyInv
<1>6. ASSUME NEW r \in rs PROVE configurations[r].data = n
  <2>1. fileOf(r) \in DOMAIN files
    OBVIOUS
  <2>2. \A content, u : Artifact(content, u).data = content
    BY DEF Artifact, Rendered
  <2> HIDE DEF fileOf
  <2> QED BY <1>5, <2>1, <2>2
<1>7. ASSUME NEW r \in rs
      PROVE  Enhanced(configurations, cluster)[r].data = configurations[r].data
  <2>1. \A content, u, h : [Artifact(content, u) EXCEPT !.hash = h].data = content
    BY DEF Artifact, Rendered
  <2>2. \A content, u : Artifact(content, u).data = content
    BY DEF Artifact, Rendered
  <2> HIDE DEF fileOf
  <2>3. \A h : [configurations[r] EXCEPT !.hash = h].data = configurations[r].data
    BY <2>1, <2>2
  <2>4. DOMAIN configurations = rs
    OBVIOUS
  <2> HIDE DEF configurations
  <2> QED BY <2>3, <2>4 DEF Enhanced
<1>8. DOMAIN configurations = rs
  OBVIOUS
<1> HIDE DEF configurations, rs
<1>9. /\ DOMAIN objs' = rs /\ todo' = rs /\ at' = "artifacts"
      /\ UNCHANGED <<step, task, stepDone>> /\ TaskFrame /\ UNCHANGED <<store, history>>
      /\ \A r \in rs : objs'[r].data = n
  BY <1>2, <1>6, <1>7, <1>8, EnhancedDomain DEF Start, BeginArtifacts
<1>10. Task' = Task
  BY <1>9 DEF Task, Tasks, TaskFrame, spec
<1>11. ArtifactsInv'
  BY <1>3, <1>9, <1>10 DEF ArtifactsInv
<1>12. TaskInv'
  BY <1>1, <1>9, <1>10, <1>11 DEF TaskInv, PipePlaces
<1> QED BY <1>1, <1>9, <1>12, StartKeeps DEF Running, PipePlaces

LEMMA EndArtifactsKeeps ==
  ASSUME IInv, EndArtifacts
  PROVE  IInv'
<1> USE DEF EndArtifacts, passVars, taskVars, spec, store, history
<1>1. at \in Running /\ at' \in Running /\ Task.kind = "Pipe" /\ ArtifactsInv
  BY DEF IInv, TaskInv, Running, PipePlaces
<1>2. Task' = Task
  BY DEF Task, Tasks
<1>3. ArtifactsInv'
  BY <1>1, <1>2 DEF ArtifactsInv, Holds
<1>4. TaskInv'
  BY <1>1, <1>2, <1>3 DEF IInv, TaskInv, PipePlaces
<1> QED BY <1>1, <1>4, StartKeeps DEF TaskFrame

LEMMA DeletePodKeeps ==
  ASSUME IInv, DeletePod
  PROVE  IInv'
<1>1. /\ at = "remove" /\ at \in Running /\ Task.kind = "Pipe" /\ ArtifactsInv
      /\ Finish("done") /\ TaskFrame /\ Deleted(Task.pod) /\ doubt' = doubt /\ pods' = pods
  BY DEF DeletePod, IInv, TaskInv, Running, PipePlaces, history
<1>2. Task.pod \in Resources /\ Kind[Task.pod] = "pod"
  BY <1>1, TaskParts
<1>3. ObjectsInv' /\ \A q \in Resources : Kind[q] = "plain" => Stays(q)
  BY <1>1, <1>2, DeletedKeeps
<1>4. OnePod(Task)
  BY <1>1 DEF ArtifactsInv, OnePod
<1> QED BY <1>1, <1>3, <1>4, FinishKeeps

LEMMA ApiErrorKeeps ==
  ASSUME IInv, ApiError
  PROVE  IInv'
<1>1. at \in Running
  BY DEF ApiError, Running, PipePlaces
<1> QED BY <1>1, EndKeeps DEF ApiError

(* ------------------------------ theorems ------------------------------ *)

\* The error of the copies is no result that ends a task well.
LEMMA ErrorStaysTyped ==
  ASSUME ErrorTyped, [Next]_vars
  PROVE  ErrorTyped'
<1> USE DEF ErrorTyped, CopyFrame, ForgetCopies
<1>1. CASE PipeStep
  BY <1>1 DEF PipeStep, InvalidPod, BeginPipe, PodNotReady, PodReady, CopiesFailed,
              BeginArtifacts, EndArtifacts, DeletePod, CopyFile, PodGone, CopyFailed
<1>2. CASE PipeFaults
  BY <1>2 DEF PipeFaults, CopyFails, CopyFailed
<1>3. CASE UNCHANGED vars
  BY <1>3 DEF vars
<1> QED BY <1>1, <1>2, <1>3 DEF Next

LEMMA StepKeeps ==
  ASSUME IInv, ErrorTyped, [Next]_vars
  PROVE  IInv'
<1>1. CASE Engine /\ CopyFrame
  <2>1. ASSUME EndPassInVain PROVE IInv'
    BY <2>1, ForgetPassKeeps DEF EndPassInVain, Outcomes
  <2> QED BY <1>1, <2>1, StartPassKeeps, EndPassKeeps DEF Engine
<1>2. CASE TaskStep /\ CopyFrame
  BY <1>2, TaskKeeps
<1>3. CASE PipeStep
  BY <1>3, PipeEndsKeep, BeginPipeKeeps, PodReadyKeeps, BeginArtifactsKeeps, EndArtifactsKeeps,
     DeletePodKeeps, CopiesKeep DEF PipeStep
<1>4. CASE PipeFaults
  <2>1. ASSUME PassLost PROVE IInv'
    BY <2>1, ForgetPassKeeps DEF PassLost
  <2> QED BY <1>4, <2>1, ApiErrorKeeps, CopiesKeep DEF PipeFaults
<1>5. CASE Others /\ CopyFrame
  BY <1>5, EnvironmentKeeps
<1>6. CASE UNCHANGED vars
  <2> USE <1>6 DEF vars, spec, store, passVars, taskVars, history
  <2>1. ObjectsInv'
    BY DEF IInv, ObjectsInv, IsObject, IsPod
  <2> QED BY <2>1, OthersKeep, Untouched DEF PodStays
<1> QED BY <1>1, <1>2, <1>3, <1>4, <1>5, <1>6 DEF Next

\* The invariant gives the property.
LEMMA KeptIsOnePod ==
  ASSUME IInv
  PROVE  ArtifactsOfOnePod
<1> SUFFICES ASSUME NEW i \in 1 .. Completed, NEW k \in DOMAIN plan[i],
                    plan[i][k].kind = "Pipe"
             PROVE  LET a == plan[i][k].artifacts
                        contents == {cluster[a[f]].fields.data :
                                        f \in {g \in DOMAIN a : a[g] \notin unsettled}}
                    IN  Cardinality(contents) <= 1 /\ 0 \notin contents
  BY DEF ArtifactsOfOnePod
<1> DEFINE a == plan[i][k].artifacts
           contents == {cluster[a[f]].fields.data :
                           f \in {g \in DOMAIN a : a[g] \notin unsettled}}
<1>1. i \in DOMAIN plan /\ i <= Completed
  <2>1. /\ DOMAIN plan = 1 .. Len(plan) /\ Len(plan) \in Nat
        /\ stored.step \in 1 .. Len(plan)
    BY PlanParts DEF IInv, PassInv
  <2>2. Completed \in Nat /\ Completed <= Len(plan)
    BY <2>1 DEF Completed
  <2> QED BY <2>1, <2>2
<1>2. Passed(i, k)
  BY <1>1, CompletedPassed DEF IInv
<1>3. PICK n \in PodNumbers : \A r \in Range(a) : Holds(r, n)
  BY <1>1, <1>2 DEF IInv, KeptInv, OnePod
<1>4. ASSUME NEW f \in DOMAIN a, a[f] \notin unsettled
      PROVE  cluster[a[f]].fields.data = n
  <2>1. a[f] \in Range(a)
    BY DEF Range
  <2>2. a[f] \in Resources
    BY <1>1, <2>1, PipeParts DEF IInv
  <2>3. doubt[a[f]] = "none"
    BY <1>4, <2>2 DEF unsettled
  <2> QED BY <1>3, <2>1, <2>3 DEF Holds
<1>5. contents \subseteq {n} /\ n # 0
  BY <1>4 DEF PodNumbers
<1> HIDE DEF contents
<1>6. Cardinality(contents) <= 1
  <2>1. IsFiniteSet({n}) /\ Cardinality({n}) = 1
    BY FS_Singleton
  <2> QED BY <1>5, <2>1, FS_Subset
<1> QED BY <1>5, <1>6 DEF contents

\* The inductive invariant of the pipe task.
THEOREM PipeSafe == Spec => [](IInv /\ ErrorTyped)
<1>1. PipeInit => IInv /\ ErrorTyped
  BY Initially DEF PipeInit, NoCopies, ErrorTyped
<1>2. (IInv /\ ErrorTyped) /\ [Next]_vars => (IInv /\ ErrorTyped)'
  BY StepKeeps, ErrorStaysTyped
<1> QED BY <1>1, <1>2, PTL DEF Spec

\* task_pipe.go: when the task is done, the config maps and secrets are of the
\* files of one pod, complete, whatever passes and calls failed in between.
THEOREM FilesOfOnePod == Spec => []ArtifactsOfOnePod
<1>1. IInv => ArtifactsOfOnePod
  BY KeptIsOnePod
<1> QED BY <1>1, PipeSafe, PTL

(* ------------------- what a plan leaves in the cluster ---------------- *)

\* The parameters that the passed tasks have rendered.
Parameters == IF at = "idle" THEN parameters ELSE value

ValuesInv ==
    /\ value \in Values /\ parameters \in Values
    /\ at # "idle" /\ uid = execution => value = parameters

\* KUDO's annotation tells what fields it has set; no template renders a note.
Annotated(r) ==
    /\ cluster[r] # Absent /\ cluster[r].applied # Foreign =>
          /\ cluster[r].applied.note = Absent
          /\ doubt[r] # "stale" =>
                /\ cluster[r].fields.extra = cluster[r].applied.extra
                /\ cluster[r].fields.hash = cluster[r].applied.hash
    /\ cache[r] # Absent /\ cache[r].applied # Foreign => cache[r].applied.note = Absent

IsHash(r, h) ==
    IF DependsOn[r] = {} THEN h = Absent ELSE h = [d \in DependsOn[r] |-> h[d]]

\* Nobody but KUDO has made the object.
Own(r) ==
    doubt[r] = "none" /\ cluster[r] # Absent =>
        r \in Known /\ (~ cluster[r].deleting => IsHash(r, cluster[r].fields.hash))

Typed(r) == cluster[r] # Absent => cluster[r] \in Objects

ObjectInv(r) == Typed(r) /\ Annotated(r) /\ Own(r)

StoreInv == \A r \in Resources : ObjectInv(r)

\* Where a task has rendered objects.
TaskPlaces == {"apply", "delete"} \cup PipePlaces

\* The task knows the content of a dependency that nobody else has touched, unless
\* it has been removed since.  It has not if all tasks that manage it are through.
LastNow(d) == at = "apply" /\ stepDone /\ LastToManage(step, task, d)

Looked(r, d) ==
    \/ objs[r].hash[d] = ContentNow(d)
    \/ d \notin DOMAIN objs /\ cluster[d] = Absent /\ ~ LastNow(d)

RolledOut(r) ==
    /\ Kind[r] = "rollout" => cluster[r].observed = Template(cluster[r].fields)
    /\ Kind[r] = "job" => cluster[r].status = "ready"

\* The object is as the task has rendered it.
AsWritten(r) ==
    /\ cluster[r] # Absent /\ ~ cluster[r].deleting
    /\ cluster[r].fields.data = objs[r].data
    /\ cluster[r].fields.extra = objs[r].extra
    /\ cluster[r].fields.hash = objs[r].hash
    /\ cluster[r].applied = objs[r]
    /\ verdict = "healthy" => RolledOut(r)

ApplyInv ==
    /\ Delegate(Task, value) = "Apply"
    /\ DOMAIN objs = Task.resources
    /\ \A r \in DOMAIN objs : objs[r].data = value.data /\ objs[r].extra = value.extra
    /\ \A r \in DOMAIN objs \ todo : doubt[r] = "none" => AsWritten(r)

DeleteInv == Delegate(Task, value) = "Delete" /\ DOMAIN objs = Task.resources \cap Known

RenderedInv ==
    /\ at \in TaskPlaces => DOMAIN objs \subseteq Known \cap Writes(Task)
    /\ at \notin TaskPlaces => DOMAIN objs = {}
    /\ \A r \in DOMAIN objs : objs[r] \in Configurations
    /\ Applying => \A r \in DOMAIN objs :
          /\ objs[r].note = Absent /\ IsHash(r, objs[r].hash)
          /\ \A d \in DependsOn[r] : doubt[d] = "none" \/ d \in DOMAIN objs => Looked(r, d)
    /\ at = "apply" => ApplyInv
    /\ at = "delete" => DeleteInv

\* What an object is to be once a task is done that is the last to manage it.
Intended(i, k, r, v) ==
    /\ cluster[r] # Absent /\ ~ cluster[r].deleting
    /\ cluster[r].fields.data = v.data /\ cluster[r].fields.extra = v.extra
    /\ RolledOut(r)
    /\ \A d \in DependsOn[r] : doubt[d] = "none" /\ LastToManage(i, k, d) =>
          cluster[r].fields.hash[d] = DependencyContent(d, NoObjects, cluster)

FitsObject(i, k, r, v) ==
    doubt[r] = "none" /\ Manages(plan[i][k], r) /\ LastToManage(i, k, r) =>
        /\ Delegate(plan[i][k], v) = "Apply" => Intended(i, k, r, v)
        /\ Delegate(plan[i][k], v) = "Delete" => cluster[r] = Absent

Fits(i, k, v) == \A r \in Resources : FitsObject(i, k, r, v)

FitsInv ==
    \A i \in DOMAIN plan : \A k \in DOMAIN plan[i] : Passed(i, k) => Fits(i, k, Parameters)

\* All tasks that manage r are through.
AllPassed(r) ==
    \A j \in DOMAIN plan : \A l \in DOMAIN plan[j] : Manages(plan[j][l], r) => Passed(j, l)

\* It is not about to disappear, then.
Firm(r) == doubt[r] = "none" /\ cluster[r] # Absent => ~ cluster[r].deleting

FirmInv == \A r \in Resources : Kind[r] = "plain" /\ AllPassed(r) => Firm(r)

PlanInv == ValuesInv /\ StoreInv /\ RenderedInv /\ FitsInv /\ FirmInv

(* ------------------------- what is passed, and after ------------------ *)

LEMMA Positions ==
  ASSUME PassInv, NEW i \in DOMAIN plan, NEW k \in DOMAIN plan[i]
  PROVE  i \in Nat \ {0} /\ k \in Nat \ {0}
<1>1. /\ DOMAIN plan = 1 .. Len(plan) /\ Len(plan) \in Nat
      /\ DOMAIN plan[i] = 1 .. Len(plan[i]) /\ Len(plan[i]) \in Nat
  BY PlanParts
<1> QED BY <1>1

\* While a task runs, what is passed is before it.
LEMMA PassedBefore ==
  ASSUME PassInv, at \in Running, NEW i \in DOMAIN plan, NEW k \in DOMAIN plan[i], Passed(i, k)
  PROVE  /\ step > i \/ (step = i /\ task > k)
         /\ <<i, k>> # <<step, task>>
<1>1. i \in Nat /\ k \in Nat /\ step \in Nat /\ task \in Nat
  BY Positions DEF PassInv
<1>2. i < step \/ (i = step /\ k < task)
  BY DEF Passed, Running, PipePlaces
<1> QED BY <1>1, <1>2

LEMMA ManagesWrites ==
  ASSUME NEW t, NEW r, Manages(t, r)
  PROVE  r \in Writes(t)
BY DEF Manages, Writes, Range

\* What the task writes and does not manage is the pod of a pipe.
LEMMA WritesManages ==
  ASSUME IInv, NEW r \in Writes(Task)
  PROVE  Manages(Task, r) \/ (Task.kind = "Pipe" /\ r = Task.pod /\ Kind[r] = "pod")
<1>1. CASE Task.kind = "Pipe"
  <2>1. r = Task.pod \/ r \in Range(Task.artifacts)
    BY <1>1 DEF Writes
  <2>2. r \in Range(Task.artifacts) => Manages(Task, r)
    BY <1>1 DEF Manages, Range
  <2> QED BY <1>1, <2>1, <2>2, TaskParts
<1>2. CASE Task.kind # "Pipe"
  BY <1>2 DEF Writes, Manages
<1> QED BY <1>1, <1>2

\* What a pipe writes has a type that the API server knows.
LEMMA PipeKnown ==
  ASSUME IInv, Task.kind = "Pipe"
  PROVE  Writes(Task) \subseteq Known
BY TaskParts, PipeAssumption DEF IInv, PassInv

\* What the running task writes is not settled by a task before it.
LEMMA WrittenLater ==
  ASSUME IInv, at \in Running, NEW i \in DOMAIN plan, NEW k \in DOMAIN plan[i], Passed(i, k),
         NEW r \in Writes(Task), Manages(plan[i][k], r) \/ Kind[r] = "plain"
  PROVE  ~ LastToManage(i, k, r)
<1>1. /\ step > i \/ (step = i /\ task > k)
      /\ <<i, k>> # <<step, task>>
      /\ step \in DOMAIN plan /\ task \in DOMAIN plan[step] /\ Task = plan[step][task]
  BY PassedBefore, TaskParts DEF IInv
<1>2. CASE Manages(Task, r)
  BY <1>1, <1>2 DEF LastToManage
<1>3. CASE ~ Manages(Task, r)
  <2>1. Task.kind = "Pipe" /\ Kind[r] # "plain"
    BY <1>3, WritesManages
  <2>2. Writes(plan[i][k]) \cap Writes(plan[step][task]) = {}
    BY <1>1, <2>1, PipeAssumption DEF IInv, PassInv
  <2> QED BY <1>1, <2>1, <2>2, ManagesWrites
<1> QED BY <1>2, <1>3

LEMMA PassedDown ==
  ASSUME PassInv, NEW i \in DOMAIN plan, NEW k \in DOMAIN plan[i], Passed(i, k),
         NEW j \in DOMAIN plan, NEW l \in DOMAIN plan[j],
         ~ (j > i \/ (j = i /\ l > k))
  PROVE  Passed(j, l)
<1>1. /\ i \in Nat /\ k \in Nat /\ j \in Nat /\ l \in Nat /\ step \in Nat /\ task \in Nat
      /\ Completed \in Int
  <2>1. Completed \in Int
    BY Positions, PlanParts DEF Completed, PassInv
  <2> QED BY <2>1, Positions DEF PassInv
<1>2. j < i \/ (j = i /\ l <= k)
  BY <1>1
<1>3. CASE at = "idle"
  BY <1>1, <1>2, <1>3 DEF Passed
<1>4. CASE at # "idle"
  BY <1>1, <1>2, <1>4 DEF Passed
<1> QED BY <1>3, <1>4

LEMMA AllPassedThen ==
  ASSUME PassInv, NEW i \in DOMAIN plan, NEW k \in DOMAIN plan[i], Passed(i, k),
         NEW r, LastToManage(i, k, r)
  PROVE  AllPassed(r)
BY PassedDown DEF AllPassed, LastToManage

LEMMA AllPassedNow ==
  ASSUME IInv, at \in Running, stepDone, NEW r, LastToManage(step, task, r), ~ Manages(Task, r)
  PROVE  AllPassed(r)
<1> SUFFICES ASSUME NEW j \in DOMAIN plan, NEW l \in DOMAIN plan[j], Manages(plan[j][l], r)
             PROVE  Passed(j, l)
  BY DEF AllPassed
<1>1. j \in Nat /\ l \in Nat /\ step \in Nat /\ task \in Nat
  BY Positions DEF IInv, PassInv
<1>2. ~ (j > step \/ (j = step /\ l > task))
  BY DEF LastToManage
<1>3. <<j, l>> # <<step, task>>
  BY DEF Task, Tasks
<1>4. j < step \/ (j = step /\ l < task)
  BY <1>1, <1>2, <1>3
<1> QED BY <1>4 DEF Passed, Running, PipePlaces

(* --------------------- what a step leaves as it is -------------------- *)

\* If the object counts, the step has not touched what KUDO has set, nor is it behind;
\* unless it was about to disappear, and has.
Quiet(r) ==
    doubt'[r] = "none" =>
        /\ doubt[r] = "none"
        /\ \/ cluster[r] = Absent /\ cluster'[r] = Absent
           \/ cluster[r] # Absent /\ cluster[r].deleting /\ cluster'[r] = Absent
           \/ /\ cluster[r] # Absent /\ cluster'[r] # Absent
              /\ ~ cluster[r].deleting => ~ cluster'[r].deleting
              /\ cluster'[r].fields.data = cluster[r].fields.data
              /\ cluster'[r].fields.extra = cluster[r].fields.extra
              /\ cluster'[r].fields.hash = cluster[r].fields.hash
              /\ cluster'[r].applied = cluster[r].applied
              /\ RolledOut(r) => RolledOut(r)'

LEMMA SameIsQuiet ==
  ASSUME NEW r, cluster'[r] = cluster[r], doubt'[r] = doubt[r] \/ doubt'[r] # "none"
  PROVE  Quiet(r)
BY DEF Quiet, RolledOut

LEMMA QuietIsFirm ==
  ASSUME NEW r, Quiet(r), Firm(r)
  PROVE  Firm(r)'
BY DEF Quiet, Firm

LEMMA QuietContent ==
  ASSUME NEW r, Quiet(r), Firm(r), doubt'[r] = "none", NEW os
  PROVE  DependencyContent(r, os, cluster)' = DependencyContent(r, os, cluster)
<1>1. CASE cluster[r] = Absent
  BY <1>1 DEF Quiet, DependencyContent
<1>2. CASE cluster[r] # Absent
  <2>1. /\ cluster'[r] # Absent
        /\ cluster'[r].fields.data = cluster[r].fields.data
        /\ cluster'[r].fields.extra = cluster[r].fields.extra
        /\ cluster'[r].applied = cluster[r].applied
    BY <1>2 DEF Quiet, Firm
  <2>2. AppliedContent(cluster'[r]) = AppliedContent(cluster[r])
    BY <2>1 DEF AppliedContent, Content
  <2> QED BY <1>2, <2>1, <2>2 DEF DependencyContent
<1> QED BY <1>1, <1>2

LEMMA QuietFits ==
  ASSUME NEW i \in DOMAIN plan, NEW k \in DOMAIN plan[i], NEW v, NEW r \in Resources,
         FitsObject(i, k, r, v), plan' = plan,
         Manages(plan[i][k], r) /\ LastToManage(i, k, r) => Quiet(r),
         \A d \in DependsOn[r] : LastToManage(i, k, d) => Quiet(d) /\ Firm(d)
  PROVE  FitsObject(i, k, r, v)'
<1> SUFFICES ASSUME doubt'[r] = "none", Manages(plan[i][k], r), LastToManage(i, k, r)
             PROVE  /\ Delegate(plan[i][k], v) = "Apply" => Intended(i, k, r, v)'
                    /\ Delegate(plan[i][k], v) = "Delete" => cluster'[r] = Absent
  BY DEF FitsObject, LastToManage
<1>1. Quiet(r) /\ doubt[r] = "none"
  BY DEF Quiet
<1>2. ASSUME Delegate(plan[i][k], v) = "Delete"
      PROVE  cluster'[r] = Absent
  BY <1>1, <1>2 DEF FitsObject, Quiet
<1>3. ASSUME Delegate(plan[i][k], v) = "Apply"
      PROVE  Intended(i, k, r, v)'
  <2>1. Intended(i, k, r, v)
    BY <1>1, <1>3 DEF FitsObject
  <2>2. /\ cluster'[r] # Absent /\ ~ cluster'[r].deleting
        /\ cluster'[r].fields.data = v.data /\ cluster'[r].fields.extra = v.extra
        /\ cluster'[r].fields.hash = cluster[r].fields.hash
        /\ RolledOut(r)'
    BY <1>1, <2>1 DEF Intended, Quiet
  <2>3. ASSUME NEW d \in DependsOn[r], doubt'[d] = "none", LastToManage(i, k, d)
        PROVE  cluster[r].fields.hash[d] = DependencyContent(d, NoObjects, cluster)'
    <3>1. Quiet(d) /\ Firm(d) /\ doubt[d] = "none"
      BY <2>3 DEF Quiet
    <3>2. cluster[r].fields.hash[d] = DependencyContent(d, NoObjects, cluster)
      BY <2>1, <2>3, <3>1 DEF Intended
    <3>3. NoObjects' = NoObjects
      BY DEF NoObjects, NoConfiguration
    <3>4. PICK os : os = NoObjects
      OBVIOUS
    <3> QED BY <2>3, <3>1, <3>2, <3>3, <3>4, QuietContent
  <2> QED BY <2>2, <2>3 DEF Intended, LastToManage
<1> QED BY <1>2, <1>3

\* What is passed stays as it is, whatever a step does to what the task writes.
LEMMA FitsFirmStay ==
  ASSUME IInv, PlanInv, plan' = plan,
         \A i \in DOMAIN plan : \A k \in DOMAIN plan[i] : Passed(i, k)' =>
            /\ Parameters' = Parameters
            /\ \/ Passed(i, k)
               \/ /\ i = step /\ k = task
                  /\ \A v : v = Parameters => Fits(i, k, v)'
                  /\ \A r \in Resources :
                        Kind[r] = "plain" /\ Manages(plan[i][k], r) => Firm(r)',
         \A r \in Resources : Quiet(r) \/ (at \in Running /\ r \in Writes(Task))
  PROVE  FitsInv' /\ FirmInv'
<1>1. FitsInv'
  <2> SUFFICES ASSUME NEW i \in DOMAIN plan, NEW k \in DOMAIN plan[i], Passed(i, k)'
               PROVE  Fits(i, k, Parameters)'
    BY DEF FitsInv
  <2>1. PICK v : v = Parameters
    OBVIOUS
  <2>2. Parameters' = v
    BY <2>1
  <2>3. CASE Passed(i, k)
    <3>1. Fits(i, k, v)
      BY <2>1, <2>3 DEF PlanInv, FitsInv
    <3>2. ASSUME NEW r \in Resources, LastToManage(i, k, r),
                 Manages(plan[i][k], r) \/ Kind[r] = "plain"
          PROVE  Quiet(r)
      BY <2>3, <3>2, WrittenLater
    <3>3. ASSUME NEW r \in Resources PROVE FitsObject(i, k, r, v)'
      <4>1. FitsObject(i, k, r, v)
        BY <3>1 DEF Fits
      <4>2. ASSUME NEW d \in DependsOn[r], LastToManage(i, k, d)
            PROVE  Quiet(d) /\ Firm(d)
        <5>1. d \in Resources /\ Kind[d] = "plain"
          BY ResourcesAssumption
        <5>2. AllPassed(d)
          BY <2>3, <4>2, AllPassedThen DEF IInv
        <5> QED BY <3>2, <4>2, <5>1, <5>2 DEF PlanInv, FirmInv
      <4> QED BY <3>2, <4>1, <4>2, QuietFits
    <3>4. Fits(i, k, v)'
      BY <3>3 DEF Fits
    <3> QED BY <2>2, <3>4
  <2>4. CASE ~ Passed(i, k)
    <3>1. Fits(i, k, v)'
      BY <2>1, <2>4
    <3> QED BY <2>2, <3>1
  <2> QED BY <2>3, <2>4
<1>2. FirmInv'
  <2> SUFFICES ASSUME NEW r \in Resources, Kind[r] = "plain", AllPassed(r)'
               PROVE  Firm(r)'
    BY DEF FirmInv
  <2>1. ASSUME NEW j \in DOMAIN plan, NEW l \in DOMAIN plan[j], Manages(plan[j][l], r)
        PROVE  Passed(j, l) \/ Firm(r)'
    <3>1. Passed(j, l)'
      BY <2>1 DEF AllPassed
    <3> QED BY <2>1, <3>1
  <2>2. CASE \A j \in DOMAIN plan : \A l \in DOMAIN plan[j] :
                Manages(plan[j][l], r) => Passed(j, l)
    <3>1. Firm(r)
      BY <2>2 DEF PlanInv, FirmInv, AllPassed
    <3>2. ~ (at \in Running /\ r \in Writes(Task))
      <4> SUFFICES ASSUME at \in Running, r \in Writes(Task) PROVE FALSE
        OBVIOUS
      <4>1. Manages(Task, r)
        BY WritesManages
      <4>2. Passed(step, task) /\ step \in DOMAIN plan /\ task \in DOMAIN plan[step]
        BY <2>2, <4>1, TaskParts
      <4> QED BY <4>2, PassedBefore DEF IInv
    <3> QED BY <3>1, <3>2, QuietIsFirm
  <2>3. CASE Firm(r)'
    BY <2>3
  <2> QED BY <2>1, <2>2, <2>3
<1> QED BY <1>1, <1>2

(* ----------------------- the objects, one by one ---------------------- *)

LEMMA ObjectParts ==
  ASSUME NEW o \in Objects
  PROVE  IsObject(o) /\ o # Absent
BY AbsentAssumption DEF Objects, IsObject, ObjectFields

LEMMA TemplateTyped ==
  ASSUME NEW x \in Configurations
  PROVE  Template(x) \in Datum \X Datum \X Hashes
BY DEF Configurations, Template

LEMMA ObjectSame ==
  ASSUME NEW r, ObjectInv(r), cluster'[r] = cluster[r], cache'[r] = cache[r],
         doubt'[r] = doubt[r] \/ doubt'[r] = "stale"
  PROVE  ObjectInv(r)'
BY DEF ObjectInv, Typed, Annotated, Own

\* An object changes in what KUDO does not set, or in doubt.
LEMMA ObjectStays ==
  ASSUME NEW r, ObjectInv(r), cluster[r] # Absent, NEW o \in Objects,
         cluster'[r] = o, cache'[r] = cache[r],
         o.applied = cluster[r].applied,
         o.fields.extra = cluster[r].fields.extra, o.fields.hash = cluster[r].fields.hash,
         doubt[r] = "stale" => doubt'[r] = "stale",
         doubt'[r] = "none" => doubt[r] = "none" /\ (~ o.deleting => ~ cluster[r].deleting)
  PROVE  ObjectInv(r)'
<1>1. Typed(r)'
  BY DEF Typed
<1>2. Annotated(r)'
  BY DEF ObjectInv, Annotated
<1>3. Own(r)'
  BY DEF ObjectInv, Own
<1> QED BY <1>1, <1>2, <1>3 DEF ObjectInv

\* What a change of its status, or its deletion, makes of an object.
LEMMA StatusObject ==
  ASSUME NEW c \in Objects, NEW s \in {"ready", "pending", "failed"}, NEW o,
         o = [c EXCEPT !.status = s]
  PROVE  /\ o \in Objects /\ o.fields = c.fields /\ o.applied = c.applied
         /\ o.observed = c.observed /\ o.deleting = c.deleting /\ o.status = s
BY DEF Objects

LEMMA DeletedObject ==
  ASSUME NEW c \in Objects, NEW o, o = [c EXCEPT !.deleting = TRUE]
  PROVE  /\ o \in Objects /\ o.fields = c.fields /\ o.applied = c.applied
         /\ o.observed = c.observed /\ o.deleting /\ o.status = c.status
BY DEF Objects

LEMMA FieldsObject ==
  ASSUME NEW c \in Objects, NEW x \in Configurations, NEW o, o = [c EXCEPT !.fields = x]
  PROVE  /\ o \in Objects /\ o.fields = x /\ o.applied = c.applied
         /\ o.observed = c.observed /\ o.deleting = c.deleting /\ o.status = c.status
BY DEF Objects

LEMMA AppliedTyped ==
  ASSUME NEW c \in Objects, NEW x \in Configurations \cup {Foreign}, NEW o,
         o = [c EXCEPT !.applied = x]
  PROVE  /\ o \in Objects /\ o.fields = c.fields /\ o.applied = x
         /\ o.observed = c.observed /\ o.deleting = c.deleting /\ o.status = c.status
BY DEF Objects

LEMMA CreatedTyped ==
  ASSUME NEW r, NEW m \in Configurations, NEW n \in Nat, NEW o, o = Created(r, m, n)
  PROVE  /\ o \in Objects /\ o.fields = m /\ o.applied = m /\ ~ o.deleting
<1> DEFINE y == IF Kind[r] = "plain" THEN "ready" ELSE "pending"
           z == IF Kind[r] = "pod" THEN n ELSE 0
<1>1. o = [fields |-> m, applied |-> m, observed |-> Absent, status |-> y,
           deleting |-> FALSE, born |-> z, filled |-> FALSE]
  BY DEF Created
<1>2. z \in Nat /\ y \in {"ready", "pending", "failed"}
  OBVIOUS
<1> HIDE DEF y, z
<1> QED BY <1>1, <1>2 DEF Objects

LEMMA NothingTyped ==
  /\ NoConfiguration \in Configurations
  /\ NoConfiguration.note = Absent /\ NoConfiguration.extra = Absent
  /\ NoConfiguration.hash = Absent
BY DEF NoConfiguration, Configurations, Fields, Datum, Hashes

(* --------------------- others leave what is settled ------------------- *)

\* A step of others.
LEMMA OthersLeave ==
  ASSUME IInv, PlanInv, UNCHANGED <<spec, stored, at, passVars, taskVars>>,
         \A r \in Resources : Quiet(r) /\ ObjectInv(r)'
  PROVE  PlanInv'
<1> USE DEF spec, passVars, taskVars
<1>1. ValuesInv' /\ StoreInv'
  BY DEF PlanInv, ValuesInv, StoreInv
<1>2. Parameters' = Parameters
  BY DEF Parameters
<1>3. FitsInv' /\ FirmInv'
  <2>1. ASSUME NEW i \in DOMAIN plan, NEW k \in DOMAIN plan[i], Passed(i, k)'
        PROVE  Passed(i, k)
    BY <2>1 DEF Passed, Completed
  <2> QED BY <1>2, <2>1, FitsFirmStay
<1>4. RenderedInv'
  <2>1. Task' = Task
    BY DEF Task, Tasks
  <2>2. DOMAIN objs \subseteq Resources
    BY ResourcesAssumption DEF PlanInv, RenderedInv, TaskPlaces
  <2>3. ASSUME Applying, NEW r \in DOMAIN objs, NEW d \in DependsOn[r],
               doubt'[d] = "none" \/ d \in DOMAIN objs
        PROVE  Looked(r, d)'
    <3>1. d \in Resources /\ Kind[d] = "plain"
      BY <2>2, ResourcesAssumption
    <3>2. Quiet(d) /\ (doubt'[d] = "none" => doubt[d] = "none")
      BY <3>1 DEF Quiet
    <3>3. LastNow(d)' = LastNow(d)
      BY DEF LastNow, LastToManage
    <3>4. Looked(r, d)
      BY <2>3, <3>2 DEF PlanInv, RenderedInv
    <3>5. CASE d \in DOMAIN objs
      BY <3>4, <3>5 DEF Looked, ContentNow, DependencyContent
    <3>6. CASE d \notin DOMAIN objs /\ cluster[d] = Absent
      <4>1. cluster'[d] = Absent
        BY <2>3, <3>2, <3>6 DEF Quiet
      <4> QED BY <3>3, <3>4, <3>6, <4>1 DEF Looked, ContentNow, DependencyContent
    <3>7. CASE d \notin DOMAIN objs /\ cluster[d] # Absent /\ cluster'[d] = Absent
      <4>1. ~ Firm(d)
        BY <2>3, <3>2, <3>7 DEF Quiet, Firm
      <4>2. ~ AllPassed(d)
        BY <3>1, <4>1 DEF PlanInv, FirmInv
      <4>3. ~ LastNow(d)
        <5> SUFFICES ASSUME LastNow(d) PROVE FALSE
          OBVIOUS
        <5>1. at = "apply" /\ DOMAIN objs = Task.resources /\ Task.kind \notin {"Pipe", "Dummy"}
          BY DEF LastNow, PlanInv, RenderedInv, ApplyInv, IInv, TaskInv
        <5>2. ~ Manages(Task, d)
          BY <3>7, <5>1 DEF Manages
        <5> QED BY <4>2, <5>1, <5>2, AllPassedNow DEF LastNow, Running
      <4> QED BY <3>3, <3>7, <4>3 DEF Looked
    <3>8. CASE d \notin DOMAIN objs /\ cluster[d] # Absent /\ cluster'[d] # Absent
      <4>1. objs[r].hash[d] = DependencyContent(d, objs, cluster)
        BY <3>4, <3>8 DEF Looked, ContentNow
      <4>2. AppliedContent(cluster'[d]) = AppliedContent(cluster[d])
        BY <2>3, <3>2, <3>8 DEF Quiet, AppliedContent, Content
      <4> QED BY <3>8, <4>1, <4>2 DEF Looked, ContentNow, DependencyContent
    <3> QED BY <3>5, <3>6, <3>7, <3>8
  <2>4. ApplyInv /\ at = "apply" => ApplyInv'
    <3> HAVE ApplyInv /\ at = "apply"
    <3>1. ASSUME NEW r \in DOMAIN objs \ todo, doubt'[r] = "none"
          PROVE  AsWritten(r)'
      <4>1. Quiet(r)
        BY <2>2
      <4>2. AsWritten(r)
        BY <3>1, <4>1 DEF Quiet, ApplyInv
      <4> QED BY <3>1, <4>1, <4>2 DEF Quiet, AsWritten
    <3> QED BY <2>1, <3>1 DEF ApplyInv
  <2>5. DeleteInv' = DeleteInv
    BY <2>1 DEF DeleteInv
  <2>6. Writes(Task)' = Writes(Task) /\ Applying' = Applying
    BY <2>1 DEF Applying
  <2> QED BY <2>3, <2>4, <2>5, <2>6 DEF PlanInv, RenderedInv
<1> QED BY <1>1, <1>3, <1>4 DEF PlanInv

LEMMA ChangeLeaves ==
  ASSUME IInv, PlanInv, NEW r \in Resources, NEW o, Changes(r, o),
         doubt' = doubt \/ \E why : Doubt(r, why),
         Quiet(r), ObjectInv(r)'
  PROVE  PlanInv'
<1>1. /\ \A q \in Resources \ {r} : cluster'[q] = cluster[q] /\ doubt'[q] = doubt[q]
      /\ cache' = cache
  BY DEF IInv, ObjectsInv, Changes, Doubt
<1>2. \A q \in Resources : Quiet(q) /\ ObjectInv(q)'
  <2> TAKE q \in Resources
  <2>1. CASE q # r
    <3>1. cluster'[q] = cluster[q] /\ doubt'[q] = doubt[q] /\ cache'[q] = cache[q]
      BY <1>1, <2>1
    <3>2. ObjectInv(q)
      BY DEF PlanInv, StoreInv
    <3> QED BY <3>1, <3>2, SameIsQuiet, ObjectSame
  <2> QED BY <2>1
<1> QED BY <1>2, OthersLeave DEF Changes, PassFrame

LEMMA TriggerLeaves ==
  ASSUME IInv, PlanInv, NEW v \in Values, Trigger(v)
  PROVE  PlanInv'
<1> USE DEF Trigger, PassFrame, passVars, taskVars, store, history
<1>1. /\ execution \in Nat /\ execution' = execution + 1 /\ stored' = stored
      /\ stored.uid # execution' /\ uid # execution'
  BY DEF IInv, PassInv
<1>2. ValuesInv'
  BY <1>1 DEF PlanInv, ValuesInv
<1>3. StoreInv'
  BY ObjectSame DEF PlanInv, StoreInv
<1>4. RenderedInv'
  <2>1. Task' = Task /\ (\A i, k, r : LastToManage(i, k, r)' = LastToManage(i, k, r))
    BY DEF Task, Tasks, LastToManage
  <2>2. /\ \A r \in Resources : AsWritten(r)' = AsWritten(r)
        /\ \A d : LastNow(d)' = LastNow(d) /\ ContentNow(d)' = ContentNow(d)
    BY <2>1 DEF AsWritten, RolledOut, LastNow, ContentNow, LastToManage
  <2>3. \A r, d : Looked(r, d)' = Looked(r, d)
    BY <2>2 DEF Looked
  <2>4. ApplyInv => ApplyInv'
    BY <2>1 DEF ApplyInv, AsWritten, RolledOut
  <2>5. DeleteInv => DeleteInv'
    BY <2>1 DEF DeleteInv
  <2>6. Writes(Task)' = Writes(Task) /\ Applying' = Applying
    BY <2>1 DEF Applying
  <2> QED BY <2>3, <2>4, <2>5, <2>6 DEF PlanInv, RenderedInv
<1>5. ASSUME NEW i \in DOMAIN plan, NEW k \in DOMAIN plan[i], Passed(i, k)'
      PROVE  Passed(i, k) /\ Parameters' = Parameters
  <2>1. i \in Nat \ {0}
    BY Positions DEF IInv
  <2>2. Completed' = 0
    BY <1>1 DEF Completed
  <2>3. at # "idle"
    BY <1>5, <2>1, <2>2 DEF Passed
  <2> QED BY <1>5, <2>3 DEF Passed, Parameters
<1>6. \A r \in Resources : Quiet(r)
  BY SameIsQuiet
<1>7. FitsInv' /\ FirmInv'
  BY <1>5, <1>6, FitsFirmStay
<1> QED BY <1>2, <1>3, <1>4, <1>7 DEF PlanInv

LEMMA ProgressLeaves ==
  ASSUME IInv, PlanInv, NEW r \in Resources, Progress(r)
  PROVE  PlanInv'
<1> DEFINE c == cluster[r]
           y == IF Kind[r] = "rollout" THEN Template(c.fields) ELSE c.observed
           z == Kind[r] = "pod"
           o == [c EXCEPT !.status = "ready", !.observed = y, !.filled = z]
<1>1. Changes(r, o) /\ c # Absent /\ ~ c.deleting /\ doubt' = doubt
  BY DEF Progress
<1>2. c \in Objects /\ c.fields \in Configurations /\ ObjectInv(r)
  BY <1>1 DEF PlanInv, StoreInv, ObjectInv, Typed, Objects
<1>3. y \in (Datum \X Datum \X Hashes) \cup {Absent} /\ z \in BOOLEAN
  BY <1>2, TemplateTyped DEF Objects
<1>4. Kind[r] = "rollout" => y = Template(c.fields)
  OBVIOUS
<1> HIDE DEF y, z
<1>5. /\ o \in Objects /\ o.fields = c.fields /\ o.applied = c.applied
      /\ o.observed = y /\ o.deleting = c.deleting /\ o.status = "ready"
  <2> HIDE DEF c
  <2> QED BY <1>2, <1>3 DEF Objects
<1> HIDE DEF o
<1>6. cluster'[r] = o /\ cache' = cache /\ o # Absent
  BY <1>1, <1>5, ObjectParts DEF Changes, IInv, ObjectsInv
<1>7. ObjectInv(r)'
  BY <1>1, <1>2, <1>5, <1>6, ObjectStays
<1>8. RolledOut(r)'
  BY <1>4, <1>5, <1>6 DEF RolledOut
<1>9. Quiet(r)
  BY <1>1, <1>5, <1>6, <1>8 DEF Quiet
<1> QED BY <1>1, <1>7, <1>9, ChangeLeaves

LEMMA DegradeLeaves ==
  ASSUME IInv, PlanInv, NEW r \in Resources, Degrade(r)
  PROVE  PlanInv'
<1> DEFINE c == cluster[r]
           s == IF Kind[r] = "job" THEN "failed" ELSE "pending"
           o == [c EXCEPT !.status = s]
<1>1. /\ Changes(r, o) /\ c # Absent /\ doubt' = doubt
      /\ Kind[r] = "job" => c.status = "pending"
  BY DEF Degrade
<1>2. c \in Objects /\ c.fields \in Configurations /\ ObjectInv(r)
  BY <1>1 DEF PlanInv, StoreInv, ObjectInv, Typed, Objects
<1>3. s \in {"ready", "pending", "failed"}
  OBVIOUS
<1> HIDE DEF s
<1>5. /\ o \in Objects /\ o.fields = c.fields /\ o.applied = c.applied
      /\ o.observed = c.observed /\ o.deleting = c.deleting
  BY <1>2, <1>3, StatusObject
<1> HIDE DEF o
<1>6. cluster'[r] = o /\ cache' = cache /\ o # Absent
  BY <1>1, <1>5, ObjectParts DEF Changes, IInv, ObjectsInv
<1>7. ObjectInv(r)'
  BY <1>1, <1>2, <1>5, <1>6, ObjectStays
<1>8. RolledOut(r) => RolledOut(r)'
  BY <1>1, <1>5, <1>6 DEF RolledOut
<1>9. Quiet(r)
  BY <1>1, <1>5, <1>6, <1>8 DEF Quiet
<1> QED BY <1>1, <1>7, <1>9, ChangeLeaves

LEMMA OthersDeleteLeaves ==
  ASSUME IInv, PlanInv, NEW r \in Resources, OthersDelete(r)
  PROVE  PlanInv'
<1> DEFINE c == cluster[r]
           o == [c EXCEPT !.deleting = TRUE]
<1>1. Changes(r, o) /\ c # Absent /\ Interfered(r)
  BY DEF OthersDelete
<1>2. c \in Objects /\ c.fields \in Configurations /\ ObjectInv(r)
  BY <1>1 DEF PlanInv, StoreInv, ObjectInv, Typed, Objects
<1>3. /\ o \in Objects /\ o.fields = c.fields /\ o.applied = c.applied
  BY <1>2, DeletedObject
<1> HIDE DEF o
<1>4. cluster'[r] = o /\ cache' = cache
  BY <1>1 DEF Changes, IInv, ObjectsInv
<1>5. /\ doubt'[r] # "none" /\ \E why : Doubt(r, why)
      /\ doubt[r] = "stale" => doubt'[r] = "stale"
  BY <1>1, InterferedDoubts DEF Interfered, Doubt, IInv, ObjectsInv
<1>6. ObjectInv(r)'
  BY <1>1, <1>2, <1>3, <1>4, <1>5, ObjectStays
<1>7. Quiet(r)
  BY <1>5 DEF Quiet
<1> QED BY <1>1, <1>5, <1>6, <1>7, ChangeLeaves

LEMMA OthersEditLeaves ==
  ASSUME IInv, PlanInv, NEW r \in Resources, NEW f \in {"data", "note"}, OthersEdit(r, f)
  PROVE  PlanInv'
<1> DEFINE c == cluster[r]
           x == [c.fields EXCEPT ![f] = Foreign]
           o == [c EXCEPT !.fields = x]
<1>1. /\ Changes(r, o) /\ c # Absent
      /\ IF f = "note" THEN doubt' = doubt ELSE Interfered(r)
  BY DEF OthersEdit
<1>2. c \in Objects /\ c.fields \in Configurations /\ ObjectInv(r)
  BY <1>1 DEF PlanInv, StoreInv, ObjectInv, Typed, Objects
<1>3. /\ x \in Configurations /\ x.extra = c.fields.extra /\ x.hash = c.fields.hash
      /\ f = "note" => x.data = c.fields.data
  BY <1>2 DEF Configurations, Datum
<1> HIDE DEF x
<1>4. /\ o \in Objects /\ o.fields = x /\ o.applied = c.applied
      /\ o.observed = c.observed /\ o.deleting = c.deleting /\ o.status = c.status
  BY <1>2, <1>3, FieldsObject
<1> HIDE DEF o
<1>5. cluster'[r] = o /\ cache' = cache /\ o # Absent
  BY <1>1, <1>4, ObjectParts DEF Changes, IInv, ObjectsInv
<1>6. /\ f # "note" => doubt'[r] # "none"
      /\ doubt' = doubt \/ \E why : Doubt(r, why)
      /\ doubt[r] = "stale" => doubt'[r] = "stale"
      /\ f = "note" => doubt' = doubt
  BY <1>1, InterferedDoubts DEF Interfered, Doubt, IInv, ObjectsInv
<1>7. ObjectInv(r)'
  BY <1>1, <1>2, <1>3, <1>4, <1>5, <1>6, ObjectStays
<1>8. Quiet(r)
  <2>1. CASE f # "note"
    BY <1>6, <2>1 DEF Quiet
  <2>2. CASE f = "note"
    <3>1. RolledOut(r) => RolledOut(r)'
      BY <1>3, <1>4, <1>5, <2>2 DEF RolledOut, Template
    <3> QED BY <1>1, <1>3, <1>4, <1>5, <1>6, <2>2, <3>1 DEF Quiet
  <2> QED BY <2>1, <2>2
<1> QED BY <1>1, <1>6, <1>7, <1>8, ChangeLeaves

LEMMA OthersCreateLeaves ==
  ASSUME IInv, PlanInv, NEW r \in Resources, NEW applied \in {Foreign, NoConfiguration},
         OthersCreate(r, applied)
  PROVE  PlanInv'
<1> DEFINE x == [NoConfiguration EXCEPT !.data = Foreign]
           c == Created(r, x, 0)
           o == [c EXCEPT !.applied = applied]
<1>1. Changes(r, o) /\ Interfered(r)
  BY DEF OthersCreate
<1>2. x \in Configurations /\ x.extra = Absent /\ x.hash = Absent
  BY NothingTyped DEF Configurations, Datum
<1> HIDE DEF x
<1>3. c \in Objects /\ c.fields = x
  BY <1>2, CreatedTyped
<1> HIDE DEF c
<1>4. o \in Objects /\ o.fields = x /\ o.applied = applied
  BY <1>3, NothingTyped, AppliedTyped
<1> HIDE DEF o
<1>5. cluster'[r] = o /\ cache' = cache
  BY <1>1 DEF Changes, IInv, ObjectsInv
<1>6. doubt'[r] # "none" /\ \E why : Doubt(r, why)
  BY <1>1, InterferedDoubts
<1>7. ObjectInv(r)'
  <2>1. Typed(r)'
    BY <1>2, <1>4, <1>5 DEF Typed
  <2>2. Annotated(r)
    BY DEF PlanInv, StoreInv, ObjectInv
  <2>3. Annotated(r)'
    BY <1>2, <1>4, <1>5, <2>2, NothingTyped DEF Annotated
  <2>4. Own(r)'
    BY <1>6 DEF Own
  <2> QED BY <2>1, <2>3, <2>4 DEF ObjectInv
<1>8. Quiet(r)
  BY <1>6 DEF Quiet
<1> QED BY <1>1, <1>6, <1>7, <1>8, ChangeLeaves

LEMMA FinalizeLeaves ==
  ASSUME IInv, PlanInv, NEW r \in Resources, Finalize(r)
  PROVE  PlanInv'
<1>1. /\ Changes(r, Absent) /\ cluster[r] # Absent /\ cluster[r].deleting /\ doubt' = doubt
  BY DEF Finalize
<1>2. cluster'[r] = Absent /\ cache' = cache
  BY <1>1 DEF Changes, IInv, ObjectsInv
<1>3. ObjectInv(r)'
  BY <1>2 DEF PlanInv, StoreInv, ObjectInv, Typed, Annotated, Own
<1>4. Quiet(r)
  BY <1>1, <1>2 DEF Quiet
<1> QED BY <1>1, <1>3, <1>4, ChangeLeaves

LEMMA WatchLeaves ==
  ASSUME IInv, PlanInv, NEW r \in Resources, Watch(r)
  PROVE  PlanInv'
<1> USE DEF Watch, PassFrame, history
<1>1. cache' = [cache EXCEPT ![r] = Cached(cluster[r])] /\ cluster' = cluster /\ doubt' = doubt
  OBVIOUS
<1>2. ASSUME NEW q \in Resources PROVE ObjectInv(q)'
  <2>1. ObjectInv(q)
    BY DEF PlanInv, StoreInv
  <2>2. cache'[q] = cache[q] \/ (cache'[q] = Cached(cluster[q]))
    BY <1>1
  <2>3. CASE cache'[q] = Cached(cluster[q])
    <3>1. cache'[q] # Absent => cluster[q] # Absent /\ cache'[q].applied = cluster[q].applied
      BY <2>3 DEF Cached
    <3> QED BY <1>1, <2>1, <3>1 DEF ObjectInv, Typed, Annotated, Own
  <2>4. CASE cache'[q] = cache[q]
    BY <1>1, <2>1, <2>4, ObjectSame
  <2> QED BY <2>2, <2>3, <2>4
<1>3. \A q \in Resources : Quiet(q)
  BY <1>1, SameIsQuiet
<1> QED BY <1>2, <1>3, OthersLeave

LEMMA EnvironmentLeaves ==
  ASSUME IInv, PlanInv, Others
  PROVE  PlanInv'
BY TriggerLeaves, WatchLeaves, ProgressLeaves, DegradeLeaves, FinalizeLeaves,
   OthersDeleteLeaves, OthersEditLeaves, OthersCreateLeaves DEF Others

(* ------------------------------ the engine ---------------------------- *)

LEMMA StoreSame ==
  ASSUME PlanInv, UNCHANGED store, \A r \in Resources : doubt'[r] = doubt[r] \/ doubt'[r] = "stale"
  PROVE  StoreInv' /\ \A r \in Resources : Quiet(r)
BY ObjectSame, SameIsQuiet DEF PlanInv, StoreInv, store

\* A step that leaves the objects, and the tasks.
LEMMA EngineLeaves ==
  ASSUME IInv, PlanInv, plan' = plan, UNCHANGED <<store, history>>, at' \in {"idle", "task"},
         DOMAIN objs' = {}, ValuesInv',
         \A i \in DOMAIN plan : \A k \in DOMAIN plan[i] :
            Passed(i, k)' => Passed(i, k) /\ Parameters' = Parameters
  PROVE  PlanInv'
<1>1. StoreInv' /\ \A r \in Resources : Quiet(r)
  BY StoreSame DEF history
<1>2. FitsInv' /\ FirmInv'
  BY <1>1, FitsFirmStay
<1>3. RenderedInv'
  BY DEF RenderedInv, TaskPlaces, PipePlaces, Applying, NoObjects
<1> QED BY <1>1, <1>2, <1>3 DEF PlanInv

LEMMA StartPassLeaves ==
  ASSUME IInv, PlanInv, StartPass
  PROVE  PlanInv'
<1> USE DEF StartPass, spec, taskVars
<1>1. ValuesInv' /\ Parameters' = Parameters
  BY DEF PlanInv, ValuesInv, Parameters
<1>2. \A i \in DOMAIN plan : \A k \in DOMAIN plan[i] : Passed(i, k)' => Passed(i, k)
  BY StartPassed DEF IInv
<1>3. DOMAIN objs' = {}
  BY DEF PlanInv, RenderedInv, TaskPlaces, PipePlaces
<1> QED BY <1>1, <1>2, <1>3, EngineLeaves

\* What was passed is, of the execution that the status shows, with its parameters.
LEMMA SameParameters ==
  ASSUME IInv, PlanInv, at # "idle", at' = "idle", UNCHANGED spec, stored' = stored \/ uid = execution,
         NEW i \in DOMAIN plan, NEW k \in DOMAIN plan[i], Passed(i, k)'
  PROVE  Parameters' = Parameters
<1> USE DEF spec
<1>1. uid = execution
  <2>1. CASE stored' = stored
    <3>1. i \in Nat \ {0} /\ i <= Completed
      BY <2>1, Positions DEF Passed, Completed, IInv
    <3>2. stored.uid = execution
      BY <3>1 DEF Completed
    <3> QED BY <3>2 DEF IInv, PassInv
  <2> QED BY <2>1
<1> QED BY <1>1 DEF Parameters, PlanInv, ValuesInv

LEMMA ForgetPassLeaves ==
  ASSUME IInv, PlanInv, at # "idle", ForgetPass, UNCHANGED <<spec, stored, store, history>>
  PROVE  PlanInv'
<1>1. ValuesInv'
  BY DEF PlanInv, ValuesInv, ForgetPass, spec
<1>2. \A i \in DOMAIN plan : \A k \in DOMAIN plan[i] :
         Passed(i, k)' => Passed(i, k) /\ Parameters' = Parameters
  BY ForgetPassed, SameParameters DEF IInv, ForgetPass
<1>3. at' = "idle" /\ DOMAIN objs' = {} /\ plan' = plan
  BY DEF ForgetPass, ForgetTask, NoObjects, spec
<1> QED BY <1>1, <1>2, <1>3, EngineLeaves

LEMMA EndPassLeaves ==
  ASSUME IInv, PlanInv, EndPass
  PROVE  PlanInv'
<1>1. ValuesInv'
  BY DEF PlanInv, ValuesInv, EndPass, ForgetPass, spec
<1>2. at # "idle" /\ at' = "idle" /\ DOMAIN objs' = {} /\ plan' = plan /\ uid = execution
  BY DEF EndPass, ForgetPass, ForgetTask, NoObjects, spec, Outcomes
<1>3. \A i \in DOMAIN plan : \A k \in DOMAIN plan[i] :
         Passed(i, k)' => Passed(i, k) /\ Parameters' = Parameters
  BY <1>2, EndPassed, SameParameters DEF IInv, EndPass
<1> QED BY <1>1, <1>2, <1>3, EngineLeaves DEF EndPass

(* ---------------------- the beginning and the end --------------------- *)

\* The end of a task: what it manages is as it is to be.
LEMMA FinishLeaves ==
  ASSUME IInv, PlanInv, at \in Running, NEW result, Finish(result), TaskFrame, StoreInv',
         \A r \in Resources : Quiet(r) \/ r \in Writes(Task),
         NEW v, v = value,
         result = "done" /\ stepDone =>
            \A i \in DOMAIN plan : \A k \in DOMAIN plan[i] : i = step /\ k = task =>
               /\ Fits(i, k, v)'
               /\ \A r \in Resources :
                     Kind[r] = "plain" /\ Manages(plan[i][k], r) => Firm(r)'
  PROVE  PlanInv'
<1>1. /\ at # "idle" /\ at' # "idle" /\ at' \in {"task", "complete", "stopped", "fatal"}
      /\ plan' = plan /\ value' = value /\ uid' = uid /\ execution' = execution
      /\ parameters' = parameters /\ objs' = NoObjects
  BY FinishPass DEF Running, PipePlaces, IInv, TaskFrame, spec, Finish, ForgetTask
<1>2. ValuesInv'
  BY <1>1 DEF PlanInv, ValuesInv
<1>3. Parameters' = Parameters /\ Parameters = v
  BY <1>1 DEF Parameters
<1>4. RenderedInv'
  BY <1>1 DEF RenderedInv, TaskPlaces, PipePlaces, Applying, NoObjects
<1>5. ASSUME NEW i \in DOMAIN plan, NEW k \in DOMAIN plan[i], Passed(i, k)', ~ Passed(i, k)
      PROVE  /\ i = step /\ k = task
             /\ \A w : w = Parameters => Fits(i, k, w)'
             /\ \A r \in Resources : Kind[r] = "plain" /\ Manages(plan[i][k], r) => Firm(r)'
  <2>1. result = "done" /\ stepDone /\ i = step /\ k = task
    BY <1>5, FinishPass DEF IInv
  <2>2. Fits(i, k, v)'
    BY <2>1
  <2>3. ASSUME NEW w, w = Parameters PROVE Fits(i, k, w)'
    BY <1>3, <2>2, <2>3
  <2> QED BY <2>1, <2>3
<1>6. FitsInv' /\ FirmInv'
  BY <1>1, <1>3, <1>5, FitsFirmStay
<1> QED BY <1>2, <1>4, <1>6 DEF PlanInv

\* A task ends without having done something, or having nothing to do.
LEMMA EndLeaves ==
  ASSUME IInv, PlanInv, at \in Running, NEW result, Finish(result), TaskFrame,
         UNCHANGED <<store, history>>, result = "done" => Task.kind = "Dummy"
  PROVE  PlanInv'
<1>1. StoreInv' /\ \A r \in Resources : Quiet(r)
  BY StoreSame DEF history
<1>2. PICK v : v = value
  OBVIOUS
<1>3. ASSUME result = "done", NEW i \in DOMAIN plan, NEW k \in DOMAIN plan[i], i = step, k = task
      PROVE  /\ Fits(i, k, v)'
             /\ \A r \in Resources : ~ Manages(plan[i][k], r)
  <2>1. \A r \in Resources : ~ Manages(plan[i][k], r)
    BY <1>3 DEF Manages, Task, Tasks
  <2>2. plan' = plan
    BY DEF TaskFrame, spec
  <2> QED BY <2>1, <2>2 DEF Fits, FitsObject
<1> QED BY <1>1, <1>2, <1>3, FinishLeaves

\* A task goes on with other objects, or another part of its work.
LEMMA TurnLeaves ==
  ASSUME IInv, PlanInv, at \in Running, at' \in Running, TaskFrame,
         UNCHANGED <<step, task, stepDone>>, UNCHANGED <<store, history>>, RenderedInv'
  PROVE  PlanInv'
<1>1. StoreInv' /\ \A r \in Resources : Quiet(r)
  BY StoreSame DEF history
<1>2. /\ at # "idle" /\ at' # "idle" /\ at # "complete" /\ at' # "complete"
      /\ plan' = plan /\ value' = value /\ uid' = uid /\ execution' = execution
      /\ parameters' = parameters
  BY DEF Running, PipePlaces, TaskFrame, spec
<1>3. ValuesInv' /\ Parameters' = Parameters
  BY <1>2 DEF PlanInv, ValuesInv, Parameters
<1>4. ASSUME NEW i \in DOMAIN plan, NEW k \in DOMAIN plan[i], Passed(i, k)'
      PROVE  Passed(i, k)
  BY <1>2, <1>4 DEF Passed
<1>5. FitsInv' /\ FirmInv'
  BY <1>1, <1>2, <1>3, <1>4, FitsFirmStay
<1> QED BY <1>1, <1>3, <1>5 DEF PlanInv

(* ------------------------- what a task renders ------------------------ *)

LEMMA ContentTyped ==
  /\ \A c \in Configurations : Content(c) \in Datum \X Datum
  /\ \A o \in Objects : AppliedContent(o) \in Datum \X Datum
<1>1. \A c \in Configurations : Content(c) \in Datum \X Datum
  BY DEF Configurations, Content
<1>2. ASSUME NEW o \in Objects
      PROVE  AppliedContent(o) \in Datum \X Datum
  <2>1. o.fields \in Configurations /\ (o.applied # Foreign => o.applied \in Configurations)
    BY DEF Objects
  <2>2. CASE o.applied \in {Foreign, NoConfiguration}
    BY <1>1, <2>1, <2>2 DEF AppliedContent
  <2>3. CASE o.applied \notin {Foreign, NoConfiguration}
    BY <1>1, <2>1, <2>3 DEF AppliedContent
  <2> QED BY <2>2, <2>3
<1> QED BY <1>1, <1>2

LEMMA RenderedParts ==
  ASSUME NEW r, NEW v \in Values, NEW u \in Nat, NEW c, c = Rendered(r, v, u)
  PROVE  /\ c \in Configurations /\ c.data = v.data /\ c.extra = v.extra /\ c.note = Absent
BY DEF Rendered, Configurations, Datum, Hashes

LEMMA ArtifactTyped ==
  ASSUME PlanInv, IInv, NEW n \in Nat, NEW u \in Nat, NEW c, c = Artifact(n, u)
  PROVE  c \in Configurations /\ c.note = Absent /\ c.data = n
<1> DEFINE x == Rendered(Task.pod, value, u)
<1>1. x \in Configurations /\ x.note = Absent
  BY RenderedParts DEF PlanInv, ValuesInv
<1>2. c = [x EXCEPT !.data = n, !.extra = Absent]
  BY DEF Artifact
<1> HIDE DEF x
<1> QED BY <1>1, <1>2 DEF Configurations, Datum

LEMMA EnhancedParts ==
  ASSUME StoreInv, NEW cs, DOMAIN cs \subseteq Resources,
         \A r \in DOMAIN cs : cs[r] \in Configurations,
         NEW r \in DOMAIN cs, NEW e, e = Enhanced(cs, cluster)[r]
  PROVE  /\ e \in Configurations
         /\ e.data = cs[r].data /\ e.extra = cs[r].extra /\ e.note = cs[r].note
         /\ IsHash(r, e.hash)
         /\ \A d \in DependsOn[r] : e.hash[d] = DependencyContent(d, cs, cluster)
<1> DEFINE h == DependencyHash(r, cs, cluster)
<1>1. e = [cs[r] EXCEPT !.hash = h]
  BY DEF Enhanced
<1>2. h \in Hashes
  <2>1. CASE DependsOn[r] = {}
    BY <2>1 DEF DependencyHash, Hashes
  <2>2. CASE DependsOn[r] # {}
    <3>1. ASSUME NEW d \in DependsOn[r]
          PROVE  DependencyContent(d, cs, cluster) \in (Datum \X Datum) \cup {Absent}
      <4>1. d \in Resources
        BY ResourcesAssumption
      <4>2. cluster[d] # Absent => cluster[d] \in Objects
        BY <4>1 DEF StoreInv, ObjectInv, Typed
      <4> QED BY <4>2, ContentTyped DEF DependencyContent
    <3>2. h = [d \in DependsOn[r] |-> DependencyContent(d, cs, cluster)]
      BY <2>2 DEF DependencyHash
    <3>3. h \in [DependsOn[r] -> (Datum \X Datum) \cup {Absent}]
      BY <3>1, <3>2
    <3>4. DependsOn[r] \in SUBSET Resources
      BY ResourcesAssumption
    <3> HIDE DEF h
    <3> QED BY <3>3, <3>4 DEF Hashes
  <2> QED BY <2>1, <2>2
<1>3. IsHash(r, h) /\ \A d \in DependsOn[r] : h[d] = DependencyContent(d, cs, cluster)
  BY DEF IsHash, DependencyHash
<1> HIDE DEF h
<1>4. /\ e \in Configurations /\ e.hash = h
      /\ e.data = cs[r].data /\ e.extra = cs[r].extra /\ e.note = cs[r].note
  <2>1. cs[r] \in Configurations
    OBVIOUS
  <2> QED BY <1>1, <1>2, <2>1 DEF Configurations
<1> QED BY <1>3, <1>4

\* The objects when a task has begun.
LEMMA StartRenders ==
  ASSUME PlanInv, NEW cs, DOMAIN cs \subseteq Resources,
         \A r \in DOMAIN cs : cs[r] \in Configurations /\ cs[r].note = Absent,
         NEW where, Start(cs, where), UNCHANGED store
  PROVE  /\ DOMAIN objs' = DOMAIN cs /\ todo' = DOMAIN cs /\ at' = where
         /\ \A r \in DOMAIN cs :
               /\ objs'[r] \in Configurations /\ objs'[r].note = Absent
               /\ objs'[r].data = cs[r].data /\ objs'[r].extra = cs[r].extra
               /\ IsHash(r, objs'[r].hash)
               /\ \A d \in DependsOn[r] : Looked(r, d)'
<1>1. /\ objs' = Enhanced(cs, cluster) /\ todo' = DOMAIN cs /\ at' = where
      /\ DOMAIN objs' = DOMAIN cs
  BY EnhancedDomain DEF Start
<1>2. ASSUME NEW r \in DOMAIN cs
      PROVE  /\ objs'[r] \in Configurations /\ objs'[r].note = Absent
             /\ objs'[r].data = cs[r].data /\ objs'[r].extra = cs[r].extra
             /\ IsHash(r, objs'[r].hash)
             /\ \A d \in DependsOn[r] : objs'[r].hash[d] = DependencyContent(d, cs, cluster)
  <2>1. PICK e : e = Enhanced(cs, cluster)[r]
    OBVIOUS
  <2>2. /\ e \in Configurations
        /\ e.data = cs[r].data /\ e.extra = cs[r].extra /\ e.note = cs[r].note
        /\ IsHash(r, e.hash)
        /\ \A d \in DependsOn[r] : e.hash[d] = DependencyContent(d, cs, cluster)
    BY <2>1, EnhancedParts DEF PlanInv
  <2>3. objs'[r] = e
    BY <1>1, <2>1
  <2> QED BY <2>2, <2>3
<1>3. ASSUME NEW r \in DOMAIN cs, NEW d \in DependsOn[r]
      PROVE  Looked(r, d)'
  <2>1. cluster' = cluster
    BY DEF store
  <2>2. d \in DOMAIN cs => Content(objs'[d]) = Content(cs[d])
    BY <1>2 DEF Content
  <2>3. ContentNow(d)' = DependencyContent(d, cs, cluster)
    BY <1>1, <2>1, <2>2 DEF ContentNow, DependencyContent
  <2> QED BY <1>2, <2>3 DEF Looked
<1> QED BY <1>1, <1>2, <1>3

LEMMA RenderAllParts ==
  ASSUME IInv, PlanInv, NEW rs
  PROVE  /\ DOMAIN RenderAll(rs) = rs
         /\ \A r \in rs : /\ RenderAll(rs)[r] \in Configurations
                          /\ RenderAll(rs)[r].note = Absent
                          /\ RenderAll(rs)[r].data = value.data
                          /\ RenderAll(rs)[r].extra = value.extra
<1>1. value \in Values /\ uid \in Nat
  BY DEF PlanInv, ValuesInv, IInv, PassInv
<1> QED BY <1>1, RenderedParts DEF RenderAll

LEMMA BeginLeaves ==
  ASSUME IInv, PlanInv, BeginApply \/ BeginDelete
  PROVE  PlanInv'
<1>1. /\ at = "task" /\ at \in Running
      /\ Task.kind \notin {"Pipe", "Dummy"} /\ Writes(Task) = Task.resources
  BY KindlyMeans DEF BeginApply, BeginDelete
<1>2. /\ TaskFrame /\ UNCHANGED <<store, history>> /\ UNCHANGED <<step, task, stepDone>>
  BY DEF BeginApply, BeginDelete, Start
<1>3. PICK rs, where :
         /\ Start(RenderAll(rs), where)
         /\ rs \subseteq Known \cap Task.resources
         /\ \/ where = "apply" /\ rs = Task.resources /\ Delegate(Task, value) = "Apply"
            \/ where = "delete" /\ rs = Task.resources \cap Known
                                /\ Delegate(Task, value) = "Delete"
  <2>1. CASE BeginApply
    BY <2>1 DEF BeginApply, Kindly
  <2>2. CASE BeginDelete
    BY <2>2 DEF BeginDelete, Kindly
  <2> QED BY <2>1, <2>2
<1>4. rs \subseteq Resources
  BY <1>3, ResourcesAssumption
<1> DEFINE cs == RenderAll(rs)
<1>5. /\ DOMAIN cs = rs
      /\ \A r \in rs : /\ cs[r] \in Configurations /\ cs[r].note = Absent
                       /\ cs[r].data = value.data /\ cs[r].extra = value.extra
  BY RenderAllParts
<1> HIDE DEF cs
<1>6. Start(cs, where) /\ UNCHANGED store
  BY <1>2, <1>3 DEF cs
<1>7. /\ DOMAIN objs' = rs /\ todo' = rs /\ at' = where
      /\ \A r \in rs :
            /\ objs'[r] \in Configurations /\ objs'[r].note = Absent
            /\ objs'[r].data = value.data /\ objs'[r].extra = value.extra
            /\ IsHash(r, objs'[r].hash)
            /\ \A d \in DependsOn[r] : Looked(r, d)'
  BY <1>4, <1>5, <1>6, StartRenders
<1>8. Task' = Task /\ value' = value
  BY <1>2 DEF Task, Tasks, TaskFrame, spec
<1>9. at' = "apply" => ApplyInv'
  BY <1>3, <1>7, <1>8 DEF ApplyInv
<1>10. at' = "delete" => DeleteInv'
  BY <1>3, <1>7, <1>8 DEF DeleteInv
<1>11. Writes(Task)' = Task.resources /\ at' \in {"apply", "delete"}
  BY <1>1, <1>3, <1>7, <1>8
<1>12. RenderedInv'
  BY <1>3, <1>7, <1>9, <1>10, <1>11 DEF RenderedInv, TaskPlaces
<1> QED BY <1>1, <1>2, <1>11, <1>12, TurnLeaves DEF Running

LEMMA BeginPipeLeaves ==
  ASSUME IInv, PlanInv, BeginPipe
  PROVE  PlanInv'
<1>1. at \in Running /\ Task.kind = "Pipe"
  BY KindlyMeans DEF BeginPipe
<1>2. /\ TaskFrame /\ UNCHANGED <<store, history>> /\ UNCHANGED <<step, task, stepDone>>
      /\ Start(RenderAll({Task.pod}), "pipe")
  BY DEF BeginPipe, Start
<1>3. PICK pod : pod = Task.pod
  OBVIOUS
<1>4. pod \in Known /\ pod \in Resources /\ pod \in Writes(Task)
  BY <1>1, <1>3, TaskParts, PipeKnown
<1> DEFINE cs == RenderAll({pod})
<1>5. /\ DOMAIN cs = {pod}
      /\ \A r \in {pod} : cs[r] \in Configurations /\ cs[r].note = Absent
  BY RenderAllParts
<1> HIDE DEF cs
<1>6. Start(cs, "pipe") /\ UNCHANGED store
  BY <1>2, <1>3 DEF cs
<1>7. /\ DOMAIN objs' = {pod} /\ at' = "pipe"
      /\ \A r \in {pod} : /\ objs'[r] \in Configurations /\ objs'[r].note = Absent
                          /\ IsHash(r, objs'[r].hash)
                          /\ \A d \in DependsOn[r] : Looked(r, d)'
  BY <1>4, <1>5, <1>6, StartRenders
<1>8. Writes(Task)' = Writes(Task)
  BY <1>2 DEF Task, Tasks, TaskFrame, spec
<1>9. RenderedInv'
  BY <1>4, <1>7, <1>8 DEF RenderedInv, TaskPlaces, PipePlaces
<1> QED BY <1>1, <1>2, <1>7, <1>9, TurnLeaves DEF Running, PipePlaces

LEMMA BeginArtifactsLeaves ==
  ASSUME IInv, IInv', PlanInv, BeginArtifacts
  PROVE  PlanInv'
<1> DEFINE rs == {Task.artifacts[f] : f \in DOMAIN files}
           fileOf(r) == CHOOSE f \in DOMAIN files : Task.artifacts[f] = r
           cs == [r \in rs |-> Artifact(files[fileOf(r)], uid)]
<1>1. /\ at = "copy" /\ at \in Running /\ Task.kind = "Pipe" /\ CopyInv
      /\ \A f \in DOMAIN files : files[f] # Absent
  BY DEF BeginArtifacts, IInv, TaskInv, Running, PipePlaces
<1>2. /\ TaskFrame /\ UNCHANGED <<store, history>> /\ UNCHANGED <<step, task, stepDone>>
      /\ Start(cs, "artifacts")
  BY DEF BeginArtifacts, Start
<1>3. \A f \in DOMAIN files : files[f] \in Nat
  BY <1>1 DEF CopyInv, CopiesOf, PodNumbers
<1>4. ASSUME NEW r \in rs PROVE cs[r] \in Configurations /\ cs[r].note = Absent
  <2>1. fileOf(r) \in DOMAIN files
    OBVIOUS
  <2>2. uid \in Nat
    BY DEF IInv, PassInv
  <2> HIDE DEF fileOf
  <2> QED BY <1>3, <2>1, <2>2, ArtifactTyped
<1>5. DOMAIN cs = rs
  OBVIOUS
<1>6. rs \subseteq Known /\ rs \subseteq Writes(Task) /\ rs \subseteq Resources
  <2>1. rs \subseteq Range(Task.artifacts)
    BY <1>1 DEF CopyInv, Range
  <2> HIDE DEF rs
  <2> QED BY <1>1, <2>1, TaskParts, PipeKnown
<1> HIDE DEF cs, rs
<1>7. /\ DOMAIN objs' = rs /\ at' = "artifacts"
      /\ \A r \in rs : /\ objs'[r] \in Configurations /\ objs'[r].note = Absent
                       /\ IsHash(r, objs'[r].hash)
                       /\ \A d \in DependsOn[r] : Looked(r, d)'
  BY <1>2, <1>4, <1>5, <1>6, StartRenders
<1>8. Writes(Task)' = Writes(Task)
  BY <1>2 DEF Task, Tasks, TaskFrame, spec
<1>9. RenderedInv'
  BY <1>6, <1>7, <1>8 DEF RenderedInv, TaskPlaces, PipePlaces
<1> QED BY <1>1, <1>2, <1>7, <1>9, TurnLeaves DEF Running, PipePlaces

(* ------------------------- ends, and what goes on --------------------- *)

LEMMA EndsLeave ==
  ASSUME IInv, PlanInv, NotBuilt \/ InvalidToggle \/ RunDummy \/ ApplyUnknown
  PROVE  PlanInv'
<1>1. CASE NotBuilt \/ InvalidToggle \/ ApplyUnknown
  <2>1. /\ at \in Running /\ Finish("fatal") /\ TaskFrame /\ UNCHANGED <<store, history>>
    BY <1>1, KindlyMeans DEF NotBuilt, InvalidToggle, ApplyUnknown, Running, Kindly
  <2> QED BY <2>1, EndLeaves
<1>2. CASE RunDummy
  <2>1. at \in Running /\ Task.kind = "Dummy"
    BY <1>2, KindlyMeans DEF RunDummy
  <2> QED BY <1>2, <2>1, EndLeaves DEF RunDummy
<1> QED BY <1>1, <1>2

LEMMA RefusedLeaves ==
  ASSUME IInv, PlanInv, NEW r, OriginalMissing(r) \/ WriteRefused(r)
  PROVE  PlanInv'
<1>1. at \in Running
  BY ObjectsAreOwn DEF OriginalMissing, WriteRefused, Applying
<1>2. /\ Finish("fatal") \/ Finish("error")
      /\ TaskFrame /\ UNCHANGED <<store, history>>
  BY DEF OriginalMissing, WriteRefused
<1> QED BY <1>1, <1>2, EndLeaves

LEMMA ApiErrorLeaves ==
  ASSUME IInv, PlanInv, ApiError
  PROVE  PlanInv'
<1>1. at \in Running
  BY DEF ApiError, Running, PipePlaces
<1> QED BY <1>1, EndLeaves DEF ApiError

LEMMA PipeEndsLeave ==
  ASSUME IInv, ErrorTyped, PlanInv, InvalidPod \/ PodNotReady \/ CopiesFailed
  PROVE  PlanInv'
<1>1. at \in Running
  BY KindlyMeans DEF InvalidPod, PodNotReady, CopiesFailed, Running, PipePlaces
<1>2. CASE InvalidPod
  BY <1>1, <1>2, EndLeaves DEF InvalidPod
<1>3. CASE PodNotReady
  BY <1>1, <1>3, EndLeaves DEF PodNotReady
<1>4. CASE CopiesFailed
  <2>1. copyError # "done"
    BY DEF ErrorTyped
  <2> QED BY <1>1, <1>4, <2>1, EndLeaves DEF CopiesFailed
<1> QED BY <1>2, <1>3, <1>4

\* A pipe goes on: its pod is ready, a file is copied, its artifacts are applied.
LEMMA PipeGoesOn ==
  ASSUME IInv, PlanInv,
         PodReady \/ EndArtifacts \/
         \E f \in DOMAIN files :
            CopyFile(f) \/ PodGone(f) \/ \E error \in {"fatal", "error"} : CopyFails(f, error)
  PROVE  PlanInv'
<1>1. /\ at \in {"pipe", "copy", "artifacts"} /\ at' \in {"copy", "remove"}
      /\ UNCHANGED <<spec, stored, passVars, taskVars, store, history>>
  BY DEF PodReady, EndArtifacts, CopyFile, PodGone, CopyFails, CopyStep
<1>2. Task' = Task /\ objs' = objs
  BY <1>1 DEF Task, Tasks, spec, passVars, taskVars
<1>3. RenderedInv'
  BY <1>1, <1>2 DEF PlanInv, RenderedInv, TaskPlaces, PipePlaces, Applying
<1>4. at \in Running /\ at' \in Running
  BY <1>1 DEF Running, PipePlaces
<1> QED BY <1>1, <1>3, <1>4, TurnLeaves DEF TaskFrame, spec, passVars, taskVars

(* ------------------------------- writes ------------------------------- *)

\* An object is written as it is rendered, unless its write does not count.
LEMMA WriteLeaves ==
  ASSUME IInv, PlanInv, NEW r \in Resources, NEW o \in Objects, NEW why,
         Applying, r \in todo, Written(r, o), Doubt(r, why), TaskFrame, Annotated(r)',
         why = "none" =>
            /\ ~ o.deleting /\ o.fields.extra = objs[r].extra /\ o.fields.hash = objs[r].hash
            /\ o.applied = objs[r] /\ (at = "apply" => o.fields.data = objs[r].data)
  PROVE  PlanInv'
<1>1. /\ cluster' = [cluster EXCEPT ![r] = o] /\ todo' = todo \ {r} /\ cache' = cache
      /\ verdict' = Judged(r, o) /\ UNCHANGED <<objs, at, step, task, stepDone>>
      /\ doubt' = [doubt EXCEPT ![r] = why]
  BY DEF Written, Doubt
<1>2. /\ cluster'[r] = o /\ o # Absent
      /\ \A q \in Resources \ {r} : cluster'[q] = cluster[q]
      /\ doubt'[r] = why /\ \A q \in Resources \ {r} : doubt'[q] = doubt[q]
  BY <1>1, ObjectParts DEF IInv, ObjectsInv
<1>3. /\ at \in {"apply", "pipe", "artifacts"} /\ at' = at /\ at \in TaskPlaces /\ at \in Running
      /\ at # "idle" /\ at # "complete"
  BY <1>1 DEF Applying, TaskPlaces, PipePlaces, Running
<1>4. /\ r \in DOMAIN objs /\ r \in Writes(Task) /\ r \in Known
      /\ DOMAIN objs \subseteq Resources /\ IsHash(r, objs[r].hash)
  BY <1>3, ResourcesAssumption DEF IInv, TaskInv, PlanInv, RenderedInv
<1>5. /\ Task' = Task /\ plan' = plan /\ value' = value
      /\ \A i, k, q : LastToManage(i, k, q)' = LastToManage(i, k, q)
  BY <1>1 DEF Task, Tasks, TaskFrame, spec, LastToManage
<1>6. ValuesInv' /\ Parameters' = Parameters
  BY <1>1, <1>3 DEF PlanInv, ValuesInv, Parameters, TaskFrame, spec
<1>7. ObjectInv(r)'
  <2>1. Typed(r)'
    BY <1>2 DEF Typed
  <2>2. Own(r)'
    BY <1>2, <1>4 DEF Own
  <2> QED BY <2>1, <2>2 DEF ObjectInv
<1>8. ASSUME NEW q \in Resources \ {r} PROVE ObjectInv(q)' /\ Quiet(q)
  <2>1. cluster'[q] = cluster[q] /\ doubt'[q] = doubt[q] /\ cache'[q] = cache[q]
    BY <1>1, <1>2
  <2>2. ObjectInv(q)
    BY DEF PlanInv, StoreInv
  <2> QED BY <2>1, <2>2, ObjectSame, SameIsQuiet
<1>9. StoreInv'
  BY <1>7, <1>8 DEF StoreInv
<1>10. FitsInv' /\ FirmInv'
  <2>1. ASSUME NEW i \in DOMAIN plan, NEW k \in DOMAIN plan[i], Passed(i, k)'
        PROVE  Passed(i, k)
    BY <1>1, <1>3, <2>1 DEF Passed
  <2> QED BY <1>3, <1>4, <1>5, <1>6, <1>8, <2>1, FitsFirmStay
<1>11. RenderedInv'
  <2>1. ASSUME NEW q \in DOMAIN objs, NEW d \in DependsOn[q],
               doubt'[d] = "none" \/ d \in DOMAIN objs
        PROVE  Looked(q, d)'
    <3>1. d \in Resources
      BY <1>4, ResourcesAssumption
    <3>2. d \in DOMAIN objs \/ d # r
      BY <1>4
    <3>3. Looked(q, d)
      BY <1>2, <2>1, <3>1, <3>2 DEF PlanInv, RenderedInv
    <3>4. LastNow(d)' = LastNow(d)
      BY <1>1, <1>5 DEF LastNow
    <3>5. CASE d \in DOMAIN objs
      BY <1>1, <3>3, <3>5 DEF Looked, ContentNow, DependencyContent
    <3>6. CASE d # r
      <4>1. cluster'[d] = cluster[d]
        BY <1>2, <3>1, <3>6
      <4> QED BY <1>1, <3>3, <3>4, <4>1 DEF Looked, ContentNow, DependencyContent
    <3> QED BY <3>2, <3>5, <3>6
  <2>2. verdict' = "healthy" => verdict = "healthy" /\ IsHealthy(r, o)
    BY <1>1 DEF Judged, Health
  <2>3. ASSUME at = "apply" PROVE ApplyInv'
    <3>1. ApplyInv
      BY <2>3 DEF PlanInv, RenderedInv
    <3>2. ASSUME why = "none" PROVE AsWritten(r)'
      <4>1. verdict' = "healthy" => RolledOut(r)'
        BY <1>2, <2>2 DEF RolledOut, IsHealthy
      <4> QED BY <1>1, <1>2, <2>3, <3>2, <4>1 DEF AsWritten
    <3>3. ASSUME NEW q \in DOMAIN objs \ todo, q # r, doubt'[q] = "none" PROVE AsWritten(q)'
      <4>1. cluster'[q] = cluster[q] /\ doubt'[q] = doubt[q]
        BY <1>2, <1>4, <3>3
      <4>2. AsWritten(q)
        BY <3>1, <3>3, <4>1 DEF ApplyInv
      <4> QED BY <1>1, <2>2, <4>1, <4>2 DEF AsWritten, RolledOut
    <3>4. \A q \in DOMAIN objs \ todo' : doubt'[q] = "none" => AsWritten(q)'
      BY <1>1, <1>2, <3>2, <3>3
    <3> QED BY <1>1, <1>5, <3>1, <3>4 DEF ApplyInv
  <2>4. Writes(Task)' = Writes(Task) /\ Applying' /\ at # "delete"
    BY <1>1, <1>3, <1>5 DEF Applying
  <2> QED BY <1>1, <1>3, <2>1, <2>3, <2>4 DEF PlanInv, RenderedInv
<1> QED BY <1>6, <1>9, <1>10, <1>11 DEF PlanInv

LEMMA RenderedObject ==
  ASSUME IInv, PlanInv, Applying, NEW r \in todo
  PROVE  objs[r] \in Configurations /\ objs[r].note = Absent
BY DEF IInv, TaskInv, PlanInv, RenderedInv

LEMMA CreateLeaves ==
  ASSUME IInv, PlanInv, NEW r \in Resources, CreateObject(r)
  PROVE  PlanInv'
<1> DEFINE n == pods + 1
           o == Created(r, objs[r], n)
<1>1. /\ Applying /\ r \in todo /\ Written(r, o) /\ Doubt(r, "none") /\ TaskFrame
      /\ cache[r] = Absent
  BY DEF CreateObject
<1>2. n \in Nat
  BY DEF IInv, ObjectsInv
<1>3. objs[r] \in Configurations /\ objs[r].note = Absent
  BY <1>1, RenderedObject
<1> HIDE DEF n
<1>4. o \in Objects /\ o.fields = objs[r] /\ o.applied = objs[r] /\ ~ o.deleting
  BY <1>2, <1>3, CreatedTyped
<1> HIDE DEF o
<1>5. cluster'[r] = o /\ cache' = cache
  BY <1>1 DEF Written, IInv, ObjectsInv
<1>6. Annotated(r)'
  BY <1>1, <1>3, <1>4, <1>5 DEF Annotated
<1> QED BY <1>1, <1>4, <1>6, WriteLeaves

LEMMA MergedTyped ==
  ASSUME NEW m \in Configurations, NEW s \in Configurations, NEW original, NEW current
  PROVE  Merged(original, m, current, s) \in Configurations
<1>1. Absent \in Datum /\ Absent \in Hashes
  BY DEF Datum, Hashes
<1> QED BY <1>1 DEF Configurations, Merged, Fields

\* The merge of what KUDO has set itself, and nobody else has touched.
LEMMA MergedFields ==
  ASSUME NEW original, NEW m, NEW s, NEW x, x = Merged(original, m, s, s)
  PROVE  /\ m.data # Absent => x.data = m.data
         /\ s.extra = original.extra => x.extra = m.extra
         /\ s.hash = original.hash => x.hash = m.hash
BY DEF Merged, Fields

LEMMA PatchLeaves ==
  ASSUME IInv, PlanInv, NEW r \in Resources, PatchObject(r)
  PROVE  PlanInv'
<1> DEFINE c == cluster[r]
           x == Merged(cache[r].applied, objs[r], cache[r].fields, c.fields)
           y == IF cache[r].applied = objs[r] THEN c.applied ELSE objs[r]
           o == Patched(c, cache[r], objs[r])
           why == IF doubt[r] = "stale" \/ ~ UpToDate(r) THEN "stale"
                  ELSE IF c.deleting THEN "changed" ELSE "none"
<1>1. /\ Applying /\ r \in todo /\ Written(r, o) /\ Doubt(r, why) /\ TaskFrame
      /\ c # Absent /\ cache[r] # Absent /\ cache[r].applied # Foreign
  BY DEF PatchObject, OriginalReadable
<1>2. /\ c \in Objects /\ Annotated(r) /\ c.fields \in Configurations
      /\ c.applied \in Configurations \cup {Foreign}
  BY <1>1 DEF PlanInv, StoreInv, ObjectInv, Typed, Objects
<1>3. objs[r] \in Configurations /\ objs[r].note = Absent
  BY <1>1, RenderedObject
<1>4. x \in Configurations /\ y \in Configurations \cup {Foreign}
  BY <1>2, <1>3, MergedTyped
<1>5. o \in Objects /\ o.fields = x /\ o.applied = y /\ o.deleting = c.deleting
  <2> DEFINE e == [c EXCEPT !.fields = x]
  <2>1. e \in Objects /\ e.fields = x /\ e.deleting = c.deleting
    <3> HIDE DEF c, x
    <3> QED BY <1>2, <1>4, FieldsObject
  <2>2. o = [e EXCEPT !.applied = y]
    BY DEF Patched
  <2> HIDE DEF e, x, y, o
  <2> QED BY <1>4, <2>1, <2>2, AppliedTyped
<1>6. cluster'[r] = o /\ cache' = cache /\ doubt'[r] = why
  BY <1>1 DEF Written, Doubt, IInv, ObjectsInv
<1>7. y # Foreign => y.note = Absent
  BY <1>1, <1>2, <1>3 DEF Annotated
<1>8. ASSUME why # "stale"
      PROVE  y = objs[r] /\ x.extra = objs[r].extra /\ x.hash = objs[r].hash
             /\ (objs[r].data # Absent => x.data = objs[r].data)
  <2>1. UpToDate(r) /\ doubt[r] # "stale"
    BY <1>8
  <2>2. cache[r].fields = c.fields /\ cache[r].applied = c.applied
    BY <1>1, <2>1 DEF UpToDate, Cached
  <2>3. c.fields.extra = c.applied.extra /\ c.fields.hash = c.applied.hash
    BY <1>1, <1>2, <2>1, <2>2 DEF Annotated
  <2>4. x = Merged(c.applied, objs[r], c.fields, c.fields)
    BY <2>2
  <2>5. y = objs[r]
    BY <2>2
  <2> HIDE DEF x, c, y
  <2> QED BY <2>3, <2>4, <2>5, MergedFields
<1>9. why = "none" => ~ c.deleting
  OBVIOUS
<1> HIDE DEF x, y, o, why
<1>10. Annotated(r)'
  BY <1>1, <1>2, <1>5, <1>6, <1>7, <1>8 DEF Annotated
<1>11. at = "apply" => objs[r].data # Absent
  BY <1>1, ResourcesAssumption DEF PlanInv, RenderedInv, ApplyInv, IInv, TaskInv, ValuesInv
<1> QED BY <1>1, <1>5, <1>8, <1>9, <1>10, <1>11, WriteLeaves

(* ---------------------- deletions, and work done ---------------------- *)

\* An object is deleted by a task.
LEMMA DeletedLeaves ==
  ASSUME IInv, PlanInv, NEW r \in Known, Deleted(r), cache' = cache,
         \A q \in Resources : q # r => doubt'[q] = doubt[q],
         doubt[r] = "stale" => doubt'[r] = "stale"
  PROVE  /\ StoreInv' /\ \A q \in Resources : q # r => Quiet(q) /\ cluster'[q] = cluster[q]
<1>1. r \in Resources
  BY ResourcesAssumption
<1>2. \A q \in Resources : q # r => cluster'[q] = cluster[q]
  BY <1>1 DEF Deleted, IInv, ObjectsInv
<1>3. ASSUME NEW q \in Resources, q # r PROVE ObjectInv(q)' /\ Quiet(q)
  <2>1. cluster'[q] = cluster[q] /\ doubt'[q] = doubt[q] /\ cache'[q] = cache[q]
    BY <1>2, <1>3
  <2>2. ObjectInv(q)
    BY DEF PlanInv, StoreInv
  <2> QED BY <2>1, <2>2, ObjectSame, SameIsQuiet
<1>4. ObjectInv(r)
  BY <1>1 DEF PlanInv, StoreInv
<1>5. ObjectInv(r)'
  <2>1. CASE cluster[r] = Absent
    <3>1. cluster'[r] = Absent
      BY <2>1 DEF Deleted
    <3> QED BY <1>4, <3>1 DEF ObjectInv, Typed, Annotated, Own
  <2>2. CASE cluster[r] # Absent
    <3> DEFINE c == cluster[r]
               o == [c EXCEPT !.deleting = TRUE]
    <3>1. c \in Objects
      BY <1>4, <2>2 DEF ObjectInv, Typed
    <3>2. /\ o \in Objects /\ o.fields = c.fields /\ o.applied = c.applied /\ o.deleting
      <4> HIDE DEF c
      <4> QED BY <3>1, DeletedObject
    <3>3. cluster' = [cluster EXCEPT ![r] = o]
      BY <2>2 DEF Deleted
    <3> HIDE DEF o
    <3>4. cluster'[r] = o
      BY <1>1, <3>3 DEF IInv, ObjectsInv
    <3> QED BY <1>4, <2>2, <3>2, <3>4 DEF ObjectInv, Typed, Annotated, Own
  <2> QED BY <2>1, <2>2
<1> QED BY <1>2, <1>3, <1>5 DEF StoreInv

LEMMA DeleteLeaves ==
  ASSUME IInv, PlanInv, NEW r \in Resources, DeleteObject(r)
  PROVE  PlanInv'
<1>1. /\ at = "delete" /\ at' = "delete" /\ at \in Running /\ r \in todo /\ todo' = todo \ {r}
      /\ objs' = objs /\ cache' = cache /\ TaskFrame
      /\ UNCHANGED <<step, task, stepDone>> /\ Deleted(r)
  BY DEF DeleteObject, Running
<1>2. r \in Known /\ r \in Writes(Task) /\ DeleteInv
  BY <1>1 DEF IInv, TaskInv, PlanInv, RenderedInv, TaskPlaces
<1>3. /\ \A q \in Resources : q # r => doubt'[q] = doubt[q]
      /\ doubt[r] = "stale" => doubt'[r] = "stale"
  BY DEF DeleteObject, Doubt, IInv, ObjectsInv
<1>4. StoreInv' /\ \A q \in Resources : q # r => Quiet(q)
  BY <1>1, <1>2, <1>3, DeletedLeaves
<1>5. /\ Task' = Task /\ plan' = plan /\ value' = value /\ at # "idle" /\ at # "complete"
  BY <1>1 DEF Task, Tasks, TaskFrame, spec
<1>6. ValuesInv' /\ Parameters' = Parameters
  BY <1>1, <1>5 DEF PlanInv, ValuesInv, Parameters, TaskFrame, spec
<1>7. FitsInv' /\ FirmInv'
  <2>1. ASSUME NEW i \in DOMAIN plan, NEW k \in DOMAIN plan[i], Passed(i, k)'
        PROVE  Passed(i, k)
    BY <1>1, <1>5, <2>1 DEF Passed
  <2> QED BY <1>1, <1>2, <1>4, <1>5, <1>6, <2>1, FitsFirmStay
<1>8. RenderedInv'
  BY <1>1, <1>2, <1>5 DEF PlanInv, RenderedInv, DeleteInv, Applying, TaskPlaces
<1> QED BY <1>4, <1>6, <1>7, <1>8 DEF PlanInv

\* The objects of a task that deletes are gone, in the cache; if that is behind, nobody
\* counts on it.
LEMMA EndDeleteLeaves ==
  ASSUME IInv, PlanInv, EndDelete
  PROVE  PlanInv'
<1> DEFINE rs == DOMAIN objs
           gone == \A r \in rs : cache[r] = Absent
           result == IF gone THEN "done" ELSE "waiting"
<1>1. /\ at = "delete" /\ at \in Running /\ Finish(result) /\ TaskFrame /\ UNCHANGED store
      /\ \A r \in Resources :
            doubt'[r] = IF gone /\ r \in rs /\ cluster[r] # Absent THEN "stale" ELSE doubt[r]
  BY DEF EndDelete, Running
<1>2. StoreInv' /\ \A r \in Resources : Quiet(r)
  BY <1>1, StoreSame
<1>3. DeleteInv /\ Task.kind \notin {"Pipe", "Dummy"}
  BY <1>1 DEF PlanInv, RenderedInv, IInv, TaskInv
<1>4. PICK v : v = value
  OBVIOUS
<1>5. ASSUME result = "done", NEW i \in DOMAIN plan, NEW k \in DOMAIN plan[i], i = step, k = task
      PROVE  /\ Fits(i, k, v)'
             /\ \A r \in Resources : Kind[r] = "plain" /\ Manages(plan[i][k], r) => Firm(r)'
  <2>1. plan' = plan /\ cluster' = cluster /\ plan[i][k] = Task
    BY <1>1, <1>5 DEF TaskFrame, spec, store, Task, Tasks
  <2>2. ASSUME NEW r \in Resources, Manages(Task, r), doubt'[r] = "none"
        PROVE  cluster'[r] = Absent
    <3>1. r \in Task.resources
      BY <1>3, <2>2 DEF Manages
    <3>2. CASE r \in Known
      BY <1>1, <1>3, <1>5, <2>1, <2>2, <3>1, <3>2 DEF DeleteInv
    <3>3. CASE r \notin Known
      <4>1. doubt[r] = "none" /\ Own(r)
        BY <1>1, <2>2 DEF PlanInv, StoreInv, ObjectInv
      <4> QED BY <2>1, <3>3, <4>1 DEF Own
    <3> QED BY <3>2, <3>3
  <2>3. Delegate(plan[i][k], v) = "Delete"
    BY <1>3, <1>4, <2>1 DEF DeleteInv
  <2>4. Fits(i, k, v)'
    BY <2>1, <2>2, <2>3 DEF Fits, FitsObject
  <2> QED BY <2>1, <2>2, <2>4 DEF Firm
<1> HIDE DEF result
<1> QED BY <1>1, <1>2, <1>4, <1>5, FinishLeaves

\* What is applied and healthy is as it is to be.
LEMMA AppliedIsIntended ==
  ASSUME PlanInv, IInv, at = "apply", todo = {}, verdict = "healthy", stepDone,
         NEW r \in DOMAIN objs, doubt[r] = "none"
  PROVE  Intended(step, task, r, value)
<1>1. ApplyInv /\ RenderedInv /\ DOMAIN objs \subseteq Resources /\ Applying
  BY ResourcesAssumption DEF PlanInv, RenderedInv, TaskPlaces, Applying
<1>2. \A q \in DOMAIN objs : doubt[q] = "none" => AsWritten(q)
  BY <1>1 DEF ApplyInv
<1>3. /\ cluster[r] # Absent /\ ~ cluster[r].deleting
      /\ cluster[r].fields.data = value.data /\ cluster[r].fields.extra = value.extra
      /\ cluster[r].fields.hash = objs[r].hash /\ RolledOut(r)
  BY <1>1, <1>2 DEF AsWritten, ApplyInv
<1>4. ASSUME NEW d \in DependsOn[r], doubt[d] = "none", LastToManage(step, task, d)
      PROVE  objs[r].hash[d] = DependencyContent(d, NoObjects, cluster)
  <2>1. objs[r].hash[d] = DependencyContent(d, objs, cluster)
    BY <1>1, <1>4 DEF RenderedInv, Looked, LastNow, ContentNow
  <2>2. CASE d \in DOMAIN objs
    <3>1. AsWritten(d)
      BY <1>2, <1>4, <2>2
    <3>2. cluster[d] # Absent /\ AppliedContent(cluster[d]) = Content(objs[d])
      BY <3>1 DEF AsWritten, AppliedContent, Content
    <3> QED BY <2>1, <2>2, <3>2 DEF DependencyContent, NoObjects
  <2>3. CASE d \notin DOMAIN objs
    BY <2>1, <2>3 DEF DependencyContent, NoObjects
  <2> QED BY <2>2, <2>3
<1> QED BY <1>3, <1>4 DEF Intended

LEMMA EndApplyLeaves ==
  ASSUME IInv, PlanInv, EndApply
  PROVE  PlanInv'
<1>1. PICK result :
         /\ Finish(result)
         /\ result = "done" => verdict = "healthy"
  BY DEF EndApply
<1>2. /\ at = "apply" /\ at \in Running /\ todo = {} /\ TaskFrame
      /\ UNCHANGED <<store, history>>
  BY DEF EndApply, Running
<1>3. StoreInv' /\ \A r \in Resources : Quiet(r)
  BY <1>2, StoreSame DEF history
<1>4. ApplyInv /\ Task.kind \notin {"Pipe", "Dummy"}
  BY <1>2 DEF PlanInv, RenderedInv, IInv, TaskInv
<1>5. PICK v : v = value
  OBVIOUS
<1>6. ASSUME result = "done", stepDone,
             NEW i \in DOMAIN plan, NEW k \in DOMAIN plan[i], i = step, k = task
      PROVE  /\ Fits(i, k, v)'
             /\ \A r \in Resources : Kind[r] = "plain" /\ Manages(plan[i][k], r) => Firm(r)'
  <2>1. plan' = plan /\ cluster' = cluster /\ doubt' = doubt /\ plan[i][k] = Task
    BY <1>2, <1>6 DEF TaskFrame, spec, store, history, Task, Tasks
  <2>2. ASSUME NEW r \in Resources, Manages(Task, r), doubt[r] = "none"
        PROVE  Intended(i, k, r, v)
    <3>1. r \in DOMAIN objs
      BY <1>4, <2>2 DEF Manages, ApplyInv
    <3> QED BY <1>1, <1>2, <1>5, <1>6, <2>2, <3>1, AppliedIsIntended
  <2>3. ASSUME NEW r \in Resources, Manages(Task, r), doubt[r] = "none"
        PROVE  Intended(i, k, r, v)' /\ ~ cluster[r].deleting
    <3>1. NoObjects' = NoObjects
      BY DEF NoObjects, NoConfiguration
    <3> QED BY <2>1, <2>2, <2>3, <3>1
            DEF Intended, RolledOut, LastToManage, DependencyContent
  <2>4. Delegate(plan[i][k], v) = "Apply"
    BY <1>4, <1>5, <2>1 DEF ApplyInv
  <2>5. Fits(i, k, v)'
    BY <2>1, <2>3, <2>4 DEF Fits, FitsObject
  <2> QED BY <2>1, <2>3, <2>5 DEF Firm
<1> QED BY <1>1, <1>2, <1>3, <1>5, <1>6, FinishLeaves

\* The pod of a pipe is deleted when its files are written.
LEMMA DeletePodLeaves ==
  ASSUME IInv, PlanInv, DeletePod
  PROVE  PlanInv'
<1>1. /\ at = "remove" /\ at \in Running /\ Task.kind = "Pipe" /\ ArtifactsInv /\ todo = {}
      /\ Finish("done") /\ TaskFrame /\ Deleted(Task.pod) /\ doubt' = doubt /\ cache' = cache
  BY DEF DeletePod, IInv, TaskInv, ArtifactsInv, Running, PipePlaces, history
<1>2. PICK pod : pod = Task.pod
  OBVIOUS
<1>3. pod \in Known /\ pod \in Writes(Task) /\ Kind[pod] = "pod" /\ Deleted(pod)
  BY <1>1, <1>2, TaskParts, PipeKnown
<1>4. StoreInv' /\ \A q \in Resources : q # pod => Quiet(q) /\ cluster'[q] = cluster[q]
  BY <1>1, <1>3, DeletedLeaves
<1>5. PICK v : v = value
  OBVIOUS
<1>6. ASSUME NEW i \in DOMAIN plan, NEW k \in DOMAIN plan[i], i = step, k = task
      PROVE  /\ Fits(i, k, v)'
             /\ \A r \in Resources : Kind[r] = "plain" /\ Manages(plan[i][k], r) => Firm(r)'
  <2>1. plan' = plan /\ plan[i][k] = Task
    BY <1>1, <1>6 DEF TaskFrame, spec, Task, Tasks
  <2>2. Delegate(Task, v) = "Pipe"
    BY <1>1 DEF Delegate
  <2>3. Fits(i, k, v)'
    BY <2>1, <2>2 DEF Fits, FitsObject
  <2>4. ASSUME NEW r \in Resources, Kind[r] = "plain", Manages(Task, r)
        PROVE  Firm(r)'
    <3>1. r \in DOMAIN objs \ todo
      BY <1>1, <2>4 DEF Manages, ArtifactsInv, Range
    <3>2. PICK n \in PodNumbers : Holds(r, n)
      BY <1>1, <3>1 DEF ArtifactsInv
    <3>3. cluster'[r] = cluster[r]
      BY <1>3, <1>4, <2>4
    <3> QED BY <1>1, <3>2, <3>3 DEF Firm, Holds
  <2> QED BY <2>1, <2>3, <2>4
<1> QED BY <1>1, <1>3, <1>4, <1>5, <1>6, FinishLeaves

(* ---------------------------- what a plan does ------------------------ *)

LEMMA NothingWritten == PipeInit => PlanInv
<1> SUFFICES ASSUME PipeInit PROVE PlanInv
  OBVIOUS
<1> USE DEF PipeInit, Init
<1>1. ValuesInv /\ StoreInv
  BY DEF ValuesInv, StoreInv, ObjectInv, Typed, Annotated, Own
<1>2. RenderedInv
  BY DEF RenderedInv, NoTask, NoObjects, TaskPlaces, PipePlaces, Applying
<1>3. FirmInv
  BY DEF FirmInv, Firm
<1>4. FitsInv
  <2>1. Completed = 0 /\ at = "idle"
    BY DEF Completed
  <2>2. \A i \in DOMAIN plan : ~ (i <= 0)
    BY PipeAssumption
  <2> QED BY <2>1, <2>2 DEF FitsInv, Passed
<1> QED BY <1>1, <1>2, <1>3, <1>4 DEF PlanInv

LEMMA StepLeaves ==
  ASSUME IInv, ErrorTyped, PlanInv, [Next]_vars
  PROVE  PlanInv'
<1>1. CASE Engine /\ CopyFrame
  <2>1. ASSUME EndPassInVain PROVE PlanInv'
    BY <2>1, ForgetPassLeaves DEF EndPassInVain, Outcomes
  <2> QED BY <1>1, <2>1, StartPassLeaves, EndPassLeaves DEF Engine
<1>2. CASE TaskStep /\ CopyFrame
  BY <1>2, EndsLeave, BeginLeaves, EndApplyLeaves, EndDeleteLeaves, CreateLeaves, PatchLeaves,
     RefusedLeaves, DeleteLeaves DEF TaskStep
<1>3. CASE PipeStep
  BY <1>3, StepKeeps, PipeEndsLeave, BeginPipeLeaves, BeginArtifactsLeaves, PipeGoesOn,
     DeletePodLeaves DEF PipeStep
<1>4. CASE PipeFaults
  <2>1. ASSUME PassLost PROVE PlanInv'
    BY <2>1, ForgetPassLeaves DEF PassLost
  <2> QED BY <1>4, <2>1, ApiErrorLeaves, PipeGoesOn DEF PipeFaults
<1>5. CASE Others /\ CopyFrame
  BY <1>5, EnvironmentLeaves
<1>6. CASE UNCHANGED vars
  <2>1. UNCHANGED <<spec, stored, at, passVars, taskVars, store, history>>
    BY <1>6 DEF vars
  <2>2. \A r \in Resources : Quiet(r) /\ ObjectInv(r)'
    <3>1. StoreInv' /\ \A r \in Resources : Quiet(r)
      BY <2>1, StoreSame DEF history
    <3> QED BY <3>1 DEF StoreInv
  <2> QED BY <2>1, <2>2, OthersLeave
<1> QED BY <1>1, <1>2, <1>3, <1>4, <1>5, <1>6 DEF Next

\* What counts as completed is a step of the plan, passed with the present parameters.
LEMMA CompletedParts ==
  ASSUME IInv, PlanInv, NEW i \in 1 .. Completed
  PROVE  /\ i \in DOMAIN plan /\ Parameters = parameters
         /\ \A k \in DOMAIN plan[i] : Passed(i, k)
<1>1. /\ DOMAIN plan = 1 .. Len(plan) /\ Len(plan) \in Nat /\ stored.step \in 1 .. Len(plan)
  BY PlanParts DEF IInv, PassInv
<1>2. Completed \in Nat /\ Completed <= Len(plan)
  BY <1>1 DEF Completed
<1>3. i \in DOMAIN plan /\ i <= Completed /\ 1 <= i
  BY <1>1, <1>2
<1>4. stored.uid = execution
  BY <1>2, <1>3 DEF Completed
<1>5. Parameters = parameters
  BY <1>4 DEF IInv, PassInv, PlanInv, ValuesInv, Parameters
<1> QED BY <1>3, <1>5, CompletedPassed DEF IInv

LEMMA FitsConverge ==
  ASSUME IInv, PlanInv
  PROVE  Converged
<1> SUFFICES ASSUME NEW i \in 1 .. Completed, NEW k \in DOMAIN plan[i],
                    NEW r \in Resources \ unsettled,
                    Manages(plan[i][k], r), LastToManage(i, k, r)
             PROVE  /\ Delegate(plan[i][k], parameters) = "Apply" => AsRendered(i, k, r)
                    /\ Delegate(plan[i][k], parameters) = "Delete" => cluster[r] = Absent
  BY DEF Converged
<1>1. i \in DOMAIN plan /\ Passed(i, k) /\ Parameters = parameters
  BY CompletedParts
<1>2. FitsObject(i, k, r, parameters) /\ doubt[r] = "none"
  BY <1>1 DEF PlanInv, FitsInv, Fits, unsettled
<1>3. ASSUME Intended(i, k, r, parameters) PROVE AsRendered(i, k, r)
  <2>1. ASSUME NEW d \in DependsOn[r] \ unsettled, LastToManage(i, k, d)
        PROVE  cluster[r].fields.hash[d] = ContentNow(d)
    <3>1. d \in Resources /\ Kind[d] = "plain" /\ doubt[d] = "none"
      BY <2>1, ResourcesAssumption DEF unsettled
    <3>2. cluster[r].fields.hash[d] = DependencyContent(d, NoObjects, cluster)
      BY <1>3, <2>1, <3>1 DEF Intended
    <3>3. d \notin DOMAIN objs
      <4> SUFFICES ASSUME d \in DOMAIN objs PROVE FALSE
        OBVIOUS
      <4>1. d \in Writes(Task) /\ at \in Running
        BY DEF PlanInv, RenderedInv, TaskPlaces, Running
      <4> QED BY <1>1, <2>1, <3>1, <4>1, WrittenLater
    <3> QED BY <3>2, <3>3 DEF ContentNow, DependencyContent, NoObjects
  <2> QED BY <1>3, <2>1 DEF Intended, AsRendered, RolledOut
<1> QED BY <1>2, <1>3 DEF FitsObject

(* ------------------------- what a step changes ------------------------ *)

LEMMA FieldsSame ==
  ASSUME NEW r, cluster'[r] = Absent \/ cluster[r] = Absent
                \/ cluster'[r].fields = cluster[r].fields
  PROVE  OnlyNeeded(r)
BY DEF OnlyNeeded

\* A task patches an object.
LEMMA PatchNeeded ==
  ASSUME IInv, PlanInv, NEW r \in Resources, PatchObject(r)
  PROVE  OnlyNeeded(r)
<1> DEFINE c == cluster[r]
           original == cache[r].applied
           x == Merged(original, objs[r], cache[r].fields, c.fields)
           y == IF original = objs[r] THEN c.applied ELSE objs[r]
           o == Patched(c, cache[r], objs[r])
           why == IF doubt[r] = "stale" \/ ~ UpToDate(r) THEN "stale"
                  ELSE IF c.deleting THEN "changed" ELSE "none"
<1>1. /\ Applying /\ r \in todo /\ Written(r, o) /\ Doubt(r, why)
      /\ c # Absent /\ cache[r] # Absent /\ original # Foreign
  BY DEF PatchObject, OriginalReadable
<1>2. c \in Objects /\ Annotated(r) /\ Own(r)
  BY <1>1 DEF PlanInv, StoreInv, ObjectInv, Typed
<1>3. o.fields = x
  BY <1>2 DEF Objects, Patched
<1>4. cluster'[r] = o /\ doubt'[r] = why
  BY <1>1 DEF Written, Doubt, IInv, ObjectsInv
<1>5. objs[r].note = Absent /\ original.note = Absent
  BY <1>1, <1>2, RenderedObject DEF Annotated
<1>6. x.note = c.fields.note
  BY <1>5 DEF Merged, Fields
<1>7. ASSUME r \notin unsettled \cup unsettled', Template(c.fields) # Template(x),
             Content(c.fields) = Content(x),
             \A d \in DependsOn[r] : /\ d \notin unsettled
                                     /\ cluster[d] # Absent \/ x.hash[d] = Absent
                                     /\ ContentNow(d) = c.fields.hash[d]
      PROVE  FALSE
  <2>1. why = "none" /\ doubt[r] = "none"
    BY <1>4, <1>7 DEF unsettled
  <2>2. UpToDate(r) /\ ~ c.deleting
    BY <2>1
  <2>3. cache[r].fields = c.fields /\ original = c.applied
    BY <1>1, <2>2 DEF UpToDate, Cached
  <2>4. c.fields.extra = c.applied.extra /\ c.fields.hash = c.applied.hash
    BY <1>1, <1>2, <2>1, <2>3 DEF Annotated
  <2>5. x = Merged(c.applied, objs[r], c.fields, c.fields)
    BY <2>3
  <2>6. IsHash(r, c.fields.hash)
    BY <1>1, <1>2, <2>1, <2>2 DEF Own
  <2>7. IsHash(r, objs[r].hash) /\ \A d \in DependsOn[r] : doubt[d] = "none" => Looked(r, d)
    BY <1>1 DEF PlanInv, RenderedInv, IInv, TaskInv
  <2>8. x.hash = objs[r].hash
    <3> HIDE DEF x, c
    <3> QED BY <2>4, <2>5, MergedFields
  <2> HIDE DEF x, c
  <2>9. ASSUME NEW d \in DependsOn[r] PROVE objs[r].hash[d] = c.fields.hash[d]
    <3>1. d \in Resources /\ doubt[d] = "none"
      BY <1>7, ResourcesAssumption DEF unsettled
    <3>2. Looked(r, d)
      BY <2>7, <3>1
    <3>3. d \notin DOMAIN objs /\ cluster[d] = Absent => ContentNow(d) = Absent
      BY DEF ContentNow, DependencyContent
    <3> QED BY <1>7, <2>8, <3>2, <3>3 DEF Looked
  <2>10. objs[r].hash = c.fields.hash
    BY <2>6, <2>7, <2>9 DEF IsHash
  <2> QED BY <1>7, <2>8, <2>10 DEF Template, Content
<1> HIDE DEF x, o, why
<1> QED BY <1>3, <1>4, <1>6, <1>7 DEF OnlyNeeded

LEMMA WrittenNeeded ==
  ASSUME IInv, PlanInv, NEW q \in Resources, CreateObject(q) \/ PatchObject(q),
         NEW r \in Resources
  PROVE  OnlyNeeded(r)
<1>1. CASE r # q
  <2>1. cluster'[r] = cluster[r]
    BY <1>1 DEF CreateObject, PatchObject, Written, IInv, ObjectsInv
  <2> QED BY <2>1, FieldsSame
<1>2. CASE r = q /\ CreateObject(q)
  BY <1>2, FieldsSame DEF CreateObject
<1>3. CASE r = q /\ PatchObject(q)
  BY <1>3, PatchNeeded
<1> QED BY <1>1, <1>2, <1>3

LEMMA DeletedNeeded ==
  ASSUME IInv, PlanInv, NEW q \in Resources, Deleted(q), NEW r \in Resources
  PROVE  OnlyNeeded(r)
<1>1. CASE cluster[q] = Absent \/ r # q
  <2>1. cluster'[r] = cluster[r]
    BY <1>1 DEF Deleted, IInv, ObjectsInv
  <2> QED BY <2>1, FieldsSame
<1>2. CASE cluster[q] # Absent /\ r = q
  <2> DEFINE c == cluster[q]
             o == [c EXCEPT !.deleting = TRUE]
  <2>1. c \in Objects
    BY <1>2 DEF PlanInv, StoreInv, ObjectInv, Typed
  <2>2. o.fields = c.fields
    <3> HIDE DEF c
    <3> QED BY <2>1, DeletedObject
  <2>3. cluster' = [cluster EXCEPT ![q] = o]
    BY <1>2 DEF Deleted
  <2> HIDE DEF o
  <2>4. cluster'[r] = o
    BY <1>2, <2>3 DEF IInv, ObjectsInv
  <2> QED BY <1>2, <2>2, <2>4, FieldsSame
<1> QED BY <1>1, <1>2

\* Others change objects too: their fields, the specifications, only when they edit.
LEMMA OthersNeeded ==
  ASSUME IInv, PlanInv, Others, NEW r \in Resources
  PROVE  OnlyNeeded(r)
<1>1. ASSUME NEW q \in Resources, NEW o, Changes(q, o),
             o = Absent \/ cluster[q] = Absent \/ o.fields = cluster[q].fields
      PROVE  OnlyNeeded(r)
  <2>1. cluster'[r] = IF r = q THEN o ELSE cluster[r]
    BY <1>1 DEF Changes, IInv, ObjectsInv
  <2> QED BY <1>1, <2>1, FieldsSame
<1>2. ASSUME NEW q \in Resources, Finalize(q) PROVE OnlyNeeded(r)
  BY <1>1, <1>2 DEF Finalize
<1>3. ASSUME NEW q \in Resources, NEW applied, OthersCreate(q, applied) PROVE OnlyNeeded(r)
  BY <1>1, <1>3 DEF OthersCreate
<1>4. ASSUME NEW q \in Resources, Progress(q) \/ Degrade(q) \/ OthersDelete(q)
      PROVE  OnlyNeeded(r)
  <2> DEFINE c == cluster[q]
  <2>1. c # Absent
    BY <1>4 DEF Progress, Degrade, OthersDelete
  <2>2. c \in Objects
    BY <2>1 DEF PlanInv, StoreInv, ObjectInv, Typed
  <2>3. PICK o : /\ Changes(q, o)
                 /\ \/ \E s, y, z : o = [c EXCEPT !.status = s, !.observed = y, !.filled = z]
                    \/ \E s : o = [c EXCEPT !.status = s]
                    \/ o = [c EXCEPT !.deleting = TRUE]
    <3>1. CASE Progress(q)
      <4> DEFINE w == [c EXCEPT !.status = "ready",
                                !.observed = IF Kind[q] = "rollout" THEN Template(c.fields) ELSE @,
                                !.filled = Kind[q] = "pod"]
      <4>1. Changes(q, w)
        BY <3>1 DEF Progress
      <4>2. \E s, y, z : w = [c EXCEPT !.status = s, !.observed = y, !.filled = z]
        <5> DEFINE y == IF Kind[q] = "rollout" THEN Template(c.fields) ELSE c.observed
                   z == Kind[q] = "pod"
        <5>1. w = [c EXCEPT !.status = "ready", !.observed = y, !.filled = z]
          OBVIOUS
        <5> HIDE DEF w, y, z, c
        <5> QED BY <5>1
      <4> HIDE DEF w, c
      <4> QED BY <4>1, <4>2
    <3>2. CASE Degrade(q)
      <4> DEFINE s == IF Kind[q] = "job" THEN "failed" ELSE "pending"
                 w == [c EXCEPT !.status = s]
      <4>1. Changes(q, w)
        BY <3>2 DEF Degrade
      <4> HIDE DEF s, c
      <4> QED BY <4>1
    <3>3. CASE OthersDelete(q)
      <4> DEFINE w == [c EXCEPT !.deleting = TRUE]
      <4>1. Changes(q, w)
        BY <3>3 DEF OthersDelete
      <4> HIDE DEF c
      <4> QED BY <4>1
    <3> QED BY <1>4, <3>1, <3>2, <3>3
  <2> HIDE DEF c
  <2>4. o.fields = c.fields
    BY <2>2, <2>3 DEF Objects
  <2> QED BY <1>1, <2>3, <2>4 DEF c
<1>5. ASSUME NEW q \in Resources, NEW f \in {"data", "note"}, OthersEdit(q, f)
      PROVE  OnlyNeeded(r)
  <2> DEFINE c == cluster[q]
             x == [c.fields EXCEPT ![f] = Foreign]
             o == [c EXCEPT !.fields = x]
  <2>1. /\ Changes(q, o) /\ c # Absent
        /\ IF f = "note" THEN doubt' = doubt ELSE Interfered(q)
    BY <1>5 DEF OthersEdit
  <2>2. c \in Objects /\ c.fields \in Configurations
    BY <2>1 DEF PlanInv, StoreInv, ObjectInv, Typed, Objects
  <2>3. /\ x.extra = c.fields.extra /\ x.hash = c.fields.hash
        /\ f = "note" => x.data = c.fields.data /\ x.note = Foreign
        /\ f # "note" => x.note = c.fields.note
    BY <2>2 DEF Configurations
  <2>4. o.fields = x
    BY <2>2 DEF Objects
  <2> HIDE DEF x, o
  <2>5. cluster'[r] = IF r = q THEN o ELSE cluster[r]
    BY <2>1 DEF Changes, IInv, ObjectsInv
  <2>6. CASE r # q
    BY <2>5, <2>6, FieldsSame
  <2>7. CASE r = q /\ f = "note"
    BY <2>3, <2>4, <2>5, <2>7 DEF OnlyNeeded, Template
  <2>8. CASE r = q /\ f # "note"
    <3>1. doubt'[q] # "none"
      BY <2>1, <2>8, InterferedDoubts
    <3>2. r \in unsettled'
      BY <2>8, <3>1 DEF unsettled
    <3> QED BY <2>3, <2>4, <2>5, <2>8, <3>2 DEF OnlyNeeded
  <2> QED BY <2>6, <2>7, <2>8
<1>6. ASSUME cluster' = cluster PROVE OnlyNeeded(r)
  BY <1>6, FieldsSame
<1>7. ASSUME (\E v \in Values : Trigger(v)) \/ (\E q \in Resources : Watch(q))
      PROVE  OnlyNeeded(r)
  <2>1. cluster' = cluster
    BY <1>7 DEF Trigger, Watch, store
  <2> QED BY <1>6, <2>1
<1> QED BY <1>2, <1>3, <1>4, <1>5, <1>7 DEF Others

LEMMA StepNeeded ==
  ASSUME IInv, PlanInv, [Next]_vars, NEW r \in Resources
  PROVE  OnlyNeeded(r)
<1>1. ASSUME UNCHANGED store PROVE OnlyNeeded(r)
  BY <1>1, FieldsSame DEF store
<1>2. CASE Engine
  <2>1. UNCHANGED store
    BY <1>2 DEF Engine, StartPass, EndPass, EndPassInVain
  <2> QED BY <1>1, <2>1
<1>3. CASE TaskStep
  <2>1. CASE \E q \in Resources : CreateObject(q) \/ PatchObject(q)
    BY <2>1, WrittenNeeded
  <2>2. CASE \E q \in Resources : DeleteObject(q)
    BY <2>2, DeletedNeeded DEF DeleteObject
  <2>3. CASE \/ NotBuilt \/ InvalidToggle \/ RunDummy \/ ApplyUnknown
             \/ BeginApply \/ EndApply \/ BeginDelete \/ EndDelete
             \/ \E q \in Resources : OriginalMissing(q) \/ WriteRefused(q)
    <3>1. UNCHANGED store
      BY <2>3 DEF NotBuilt, InvalidToggle, RunDummy, ApplyUnknown, BeginApply, EndApply,
                  BeginDelete, EndDelete, OriginalMissing, WriteRefused
    <3> QED BY <1>1, <3>1
  <2> QED BY <1>3, <2>1, <2>2, <2>3 DEF TaskStep
<1>4. CASE PipeStep
  <2>1. CASE DeletePod
    <3>1. Task.pod \in Resources /\ Deleted(Task.pod)
      BY <2>1, TaskParts DEF DeletePod, IInv, TaskInv, PipePlaces
    <3> QED BY <3>1, DeletedNeeded
  <2>2. CASE \/ InvalidPod \/ BeginPipe \/ PodNotReady \/ PodReady
             \/ CopiesFailed \/ BeginArtifacts \/ EndArtifacts
             \/ \E f \in DOMAIN files : CopyFile(f) \/ PodGone(f)
    <3>1. UNCHANGED store
      BY <2>2 DEF InvalidPod, BeginPipe, PodNotReady, PodReady, CopiesFailed, BeginArtifacts,
                  EndArtifacts, CopyFile, PodGone, CopyStep
    <3> QED BY <1>1, <3>1
  <2> QED BY <1>4, <2>1, <2>2 DEF PipeStep
<1>5. CASE PipeFaults
  <2>1. UNCHANGED store
    BY <1>5 DEF PipeFaults, PassLost, ApiError, CopyFails, CopyStep
  <2> QED BY <1>1, <2>1
<1>6. CASE Others
  BY <1>6, OthersNeeded
<1>7. CASE UNCHANGED vars
  BY <1>1, <1>7 DEF vars
<1> QED BY <1>2, <1>3, <1>4, <1>5, <1>6, <1>7 DEF Next

\* The second inductive invariant: what is rendered, written and settled.
THEOREM PlanSafe == Spec => []PlanInv
<1>1. PipeInit => PlanInv
  BY NothingWritten
<1>2. (IInv /\ ErrorTyped) /\ PlanInv /\ [Next]_vars => PlanInv'
  BY StepLeaves
<1> QED BY <1>1, <1>2, PipeSafe, PTL DEF Spec

\* task_apply.go, task_delete.go: when a step is complete, the objects that its tasks
\* manage are as the templates render them now, rolled out with the present content of
\* their dependencies, or gone - however the passes before have ended.
THEOREM PlanConverges == Spec => []Converged
<1>1. IInv /\ PlanInv => Converged
  BY FitsConverge
<1> QED BY <1>1, PipeSafe, PlanSafe, PTL

\* task_apply.go, renderer/dependencies.go: the pods of a workload are restarted only if
\* its template or a dependency has changed, and what others have set in fields that no
\* template renders stays.
THEOREM PodsKept == Spec => OnlyNeededChanges
<1>1. (IInv /\ PlanInv) /\ [Next]_vars => [\A r \in Resources : OnlyNeeded(r)]_vars
  BY StepNeeded
<1> QED BY <1>1, PipeSafe, PlanSafe, PTL DEF Spec, OnlyNeededChanges
=============================================================================
