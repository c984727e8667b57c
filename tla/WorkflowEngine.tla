--------------------------- MODULE WorkflowEngine ---------------------------
(***************************************************************************)
(* The execution of one plan of an Instance: workflow.Execute              *)
(* (pkg/engine/workflow/engine.go) and what Reconcile does with the plan   *)
(* status before and after it (ensurePlanStatusInitialized,                *)
(* resetPlanStatusIfPlanIsNew, updateInstance).                            *)
(*                                                                         *)
(* One reconciliation is one pass over the phases, steps and tasks of the  *)
(* plan.  It works on a copy of the plan status, which is stored at the    *)
(* end, or lost.  A task is run once per pass; it is done, or not yet, or  *)
(* it fails transiently or fatally.  Statuses are looked up by name, as in *)
(* the code, and a name that occurs twice stands for its first entry.      *)
(***************************************************************************)
EXTENDS Naturals, Sequences, SequencesExt

CONSTANTS
    PlanSpecs,       \* the plans; see PlanOrder for their structure
    Misconfigured,   \* the tasks that do not exist or that task.Build rejects
    MaxTroubles,     \* bound on unfinished and failed tasks and lost statuses
    MaxExecutions,   \* bound on the executions that are scheduled
    MaxEdits         \* bound on the changes of the plan in the cluster

VARIABLES
    plan,        \* the plan in the OperatorVersion
    scheduled,   \* the UID of the scheduled execution
    stored,      \* the plan status in the API server
    at,          \* where the pass is: "idle", "phase", "step", "task", "return"
    pl,          \* the plan that the pass executes
    status,      \* its copy of the plan status
    pos,         \* the phase, the step and the task it has come to
    left,        \* phasesLeft, stepsLeft and tasksLeft
    done,        \* history: the steps whose tasks were all done in one pass
    taskDone,    \* history: the tasks of the current step that were done
    troubles, executions, edits

pass    == <<at, pl, status, pos, left>>
history == <<done, taskDone>>
bounds  == <<troubles, executions, edits>>
vars    == <<plan, scheduled, stored, pass, history, bounds>>

\* A plan has lists of phases, steps and names of tasks.
ASSUME PlansAreLists ==
    \A p \in PlanSpecs :
        /\ p.phases \in Seq(ToSet(p.phases))
        /\ \A i \in DOMAIN p.phases :
              /\ p.phases[i].steps \in Seq(ToSet(p.phases[i].steps))
              /\ \A j \in DOMAIN p.phases[i].steps :
                    p.phases[i].steps[j].tasks \in Seq(ToSet(p.phases[i].steps[j].tasks))

IsTerminal(st) == st \in {"COMPLETE", "FATAL_ERROR"}
IsFinished(st) == st = "COMPLETE"
IsRunning(st)  == st \in {"IN_PROGRESS", "PENDING", "ERROR"}

Serial == "serial"

NamesOf(seq) == {seq[k].name : k \in 1 .. Len(seq)}

\* GetPhaseStatus and GetStepStatus: the first entry with that name, 0 if none.
IndexOf(name, seq) == SelectInSeq(seq, LAMBDA e : e.name = name)

(* ----------------------- before the plan is executed ------------------ *)

StepStatus(steps, name) ==
    IF IndexOf(name, steps) = 0
    THEN [name |-> name, status |-> "NEVER_RUN"]
    ELSE steps[IndexOf(name, steps)]

PhaseStatus(phases, name) ==
    IF IndexOf(name, phases) = 0
    THEN [name |-> name, status |-> "NEVER_RUN", steps |-> <<>>]
    ELSE phases[IndexOf(name, phases)]

\* The statuses are rebuilt in the order of the plan.
EnsurePlanStatusInitialized(s, p) ==
    [s EXCEPT !.phases =
        [i \in 1 .. Len(p.phases) |->
            LET ph  == p.phases[i]
                old == PhaseStatus(s.phases, ph.name)
            IN  [old EXCEPT !.steps =
                    [j \in 1 .. Len(ph.steps) |->
                        StepStatus(old.steps, ph.steps[j].name)]]]]

\* Mutant: the steps keep their statuses.
ResetPlanStatusButNotSteps(s, u) ==
    [s EXCEPT !.uid = u, !.status = "PENDING",
              !.phases = [i \in 1 .. Len(s.phases) |->
                             [s.phases[i] EXCEPT !.status = "PENDING"]]]

ResetPlanStatus(s, u) ==
    [s EXCEPT !.uid = u, !.status = "PENDING",
              !.phases = [i \in 1 .. Len(s.phases) |->
                             [s.phases[i] EXCEPT
                                 !.status = "PENDING",
                                 !.steps = [j \in 1 .. Len(s.phases[i].steps) |->
                                     [s.phases[i].steps[j] EXCEPT !.status = "PENDING"]]]]]

\* The plan status that Execute gets.
Prepared ==
    LET s == EnsurePlanStatusInitialized(stored, plan)
    IN  IF s.uid = scheduled THEN s ELSE ResetPlanStatus(s, scheduled)

NoPass ==
    /\ at = "idle"
    /\ pos = [phase |-> 0, step |-> 0, task |-> 0]
    /\ left = [phases |-> 0, steps |-> {}, tasks |-> {}]

Init ==
    /\ plan \in PlanSpecs
    /\ scheduled = 1
    /\ stored = [uid |-> 0, status |-> "NEVER_RUN", phases |-> <<>>]
    /\ NoPass /\ pl = plan /\ status = stored
    /\ done = {} /\ taskDone = {}
    /\ troubles = 0 /\ executions = 1 /\ edits = 0

Trouble == troubles < MaxTroubles /\ troubles' = troubles + 1
NoTrouble == UNCHANGED troubles

\* The plan is already terminal: there is nothing to do.
ExecuteTerminal ==
    /\ at = "idle" /\ IsTerminal(Prepared.status)
    /\ stored' = Prepared
    /\ UNCHANGED <<plan, scheduled, pass, history, bounds>>

Execute ==
    /\ at = "idle" /\ ~ IsTerminal(Prepared.status)
    /\ pl' = plan
    /\ status' = [Prepared EXCEPT !.status = "IN_PROGRESS"]
    /\ at' = "phase"
    /\ pos' = [phase |-> 1, step |-> 0, task |-> 0]
    /\ left' = [phases |-> Len(plan.phases), steps |-> {}, tasks |-> {}]
    /\ UNCHANGED <<plan, scheduled, stored, history, bounds>>

(* ------------------------------- phases ------------------------------- *)

Phase == pl.phases[pos.phase]
PhaseIndex == IndexOf(Phase.name, status.phases)
CurrentPhase == status.phases[PhaseIndex]

Frame == UNCHANGED <<plan, scheduled, stored, pl, done, executions, edits>>

\* The plan status has just been rebuilt for this plan: a phase has a status.
AtPhase == at = "phase" /\ pos.phase <= Len(pl.phases)

\* Mutant: the phase is skipped, but not counted.
SkipPhaseUncounted ==
    /\ AtPhase /\ IsFinished(CurrentPhase.status)
    /\ pos' = [pos EXCEPT !.phase = @ + 1]
    /\ UNCHANGED <<at, status, left, taskDone, troubles>> /\ Frame

SkipPhase ==
    /\ AtPhase /\ IsFinished(CurrentPhase.status)
    /\ left' = [left EXCEPT !.phases = @ - 1]
    /\ pos' = [pos EXCEPT !.phase = @ + 1]
    /\ UNCHANGED <<at, status, taskDone, troubles>> /\ Frame

InProgress(st) == IF IsRunning(st) THEN "IN_PROGRESS" ELSE st

StartPhase ==
    /\ AtPhase /\ ~ IsFinished(CurrentPhase.status)
    /\ status' = [status EXCEPT !.phases[PhaseIndex].status = InProgress(@)]
    /\ left' = [left EXCEPT !.steps = NamesOf(Phase.steps)]
    /\ at' = "step"
    /\ pos' = [pos EXCEPT !.step = 1]
    /\ UNCHANGED <<taskDone, troubles>> /\ Frame

\* Mutant: the phase is counted although steps are left.
EndPhaseCounted ==
    /\ at = "step" /\ pos.step > Len(Phase.steps)
    /\ at' = "phase"
    /\ left' = [left EXCEPT !.phases = @ - 1]
    /\ status' = IF left.steps = {}
                 THEN [status EXCEPT !.phases[PhaseIndex].status = "COMPLETE"]
                 ELSE status
    /\ pos' = [pos EXCEPT !.phase = @ + 1]
    /\ UNCHANGED <<taskDone, troubles>> /\ Frame

\* All steps were visited, or the rest is not to be visited.
EndPhase ==
    /\ at = "step" /\ pos.step > Len(Phase.steps)
    /\ at' = "phase"
    /\ IF left.steps = {}
       THEN /\ status' = [status EXCEPT !.phases[PhaseIndex].status = "COMPLETE"]
            /\ left' = [left EXCEPT !.phases = @ - 1]
            /\ pos' = [pos EXCEPT !.phase = @ + 1]
       ELSE /\ UNCHANGED <<status, left>>
            /\ pos' = [pos EXCEPT !.phase =
                          IF pl.strategy = Serial THEN Len(pl.phases) + 1 ELSE @ + 1]
    /\ UNCHANGED <<taskDone, troubles>> /\ Frame

EndPlan ==
    /\ at = "phase" /\ pos.phase > Len(pl.phases)
    /\ at' = "return"
    /\ status' = IF left.phases = 0 THEN [status EXCEPT !.status = "COMPLETE"]
                                    ELSE status
    /\ UNCHANGED <<pos, left, taskDone, troubles>> /\ Frame

(* -------------------------------- steps ------------------------------- *)

Step == Phase.steps[pos.step]
StepIndex == IndexOf(Step.name, CurrentPhase.steps)
CurrentStep == CurrentPhase.steps[StepIndex]

AtStep == at = "step" /\ pos.step <= Len(Phase.steps)

\* Mutant: the phase is left as it is.
FatalErrorOfStep ==
    [status EXCEPT !.status = "FATAL_ERROR",
                   !.phases[PhaseIndex].steps[StepIndex].status = "FATAL_ERROR"]

\* The plan and the phase fail, and with them the step if it has a status.
FatalError ==
    LET s == [status EXCEPT !.status = "FATAL_ERROR",
                            !.phases[PhaseIndex].status = "FATAL_ERROR"]
    IN  IF StepIndex = 0 THEN s
        ELSE [s EXCEPT !.phases[PhaseIndex].steps[StepIndex].status = "FATAL_ERROR"]

MissingStepStatus ==
    /\ AtStep /\ StepIndex = 0
    /\ status' = FatalError
    /\ at' = "return"
    /\ UNCHANGED <<pos, left, taskDone, troubles>> /\ Frame

SkipStep ==
    /\ AtStep /\ StepIndex # 0 /\ IsFinished(CurrentStep.status)
    /\ left' = [left EXCEPT !.steps = @ \ {Step.name}]
    /\ pos' = [pos EXCEPT !.step = @ + 1]
    /\ UNCHANGED <<at, status, taskDone, troubles>> /\ Frame

\* Mutant: a finished step is run again.
StartStepAgain ==
    /\ AtStep /\ StepIndex # 0
    /\ status' = [status EXCEPT
                     !.phases[PhaseIndex].steps[StepIndex].status = InProgress(@)]
    /\ left' = [left EXCEPT !.tasks = ToSet(Step.tasks)]
    /\ at' = "task"
    /\ pos' = [pos EXCEPT !.task = 1]
    /\ taskDone' = {}
    /\ UNCHANGED troubles /\ Frame

StartStep ==
    /\ AtStep /\ StepIndex # 0 /\ ~ IsFinished(CurrentStep.status)
    /\ status' = [status EXCEPT
                     !.phases[PhaseIndex].steps[StepIndex].status = InProgress(@)]
    /\ left' = [left EXCEPT !.tasks = ToSet(Step.tasks)]
    /\ at' = "task"
    /\ pos' = [pos EXCEPT !.task = 1]
    /\ taskDone' = {}
    /\ UNCHANGED troubles /\ Frame

Visited == <<pos.phase, pos.step>>

EndStep ==
    /\ at = "task" /\ pos.task > Len(Step.tasks)
    /\ at' = "step"
    /\ IF left.tasks = {}
       THEN /\ status' = [status EXCEPT
                  !.phases[PhaseIndex].steps[StepIndex].status = "COMPLETE"]
            /\ left' = [left EXCEPT !.steps = @ \ {Step.name}]
            /\ pos' = [pos EXCEPT !.step = @ + 1]
       ELSE /\ UNCHANGED <<status, left>>
            /\ pos' = [pos EXCEPT !.step =
                          IF Phase.strategy = Serial THEN Len(Phase.steps) + 1 ELSE @ + 1]
    /\ done' = IF taskDone = 1 .. Len(Step.tasks) /\ status.uid = scheduled
               THEN done \cup {Visited} ELSE done
    /\ UNCHANGED <<plan, scheduled, stored, pl, taskDone, bounds>>

(* -------------------------------- tasks ------------------------------- *)

TaskName == Step.tasks[pos.task]

AtTask == at = "task" /\ pos.task <= Len(Step.tasks)

NextTask == pos' = [pos EXCEPT !.task = @ + 1]

\* A task that does not exist or that cannot be built.
TaskInvalid ==
    /\ AtTask /\ TaskName \in Misconfigured
    /\ status' = FatalError
    /\ at' = "return"
    /\ UNCHANGED <<pos, left, taskDone, troubles>> /\ Frame

TaskFatal ==
    /\ AtTask /\ TaskName \notin Misconfigured
    /\ Trouble
    /\ status' = FatalError
    /\ at' = "return"
    /\ UNCHANGED <<pos, left, taskDone>> /\ Frame

TaskError ==
    /\ AtTask /\ TaskName \notin Misconfigured
    /\ Trouble
    /\ status' = [status EXCEPT !.phases[PhaseIndex].steps[StepIndex].status = "ERROR"]
    /\ NextTask
    /\ UNCHANGED <<at, left, taskDone>> /\ Frame

TaskNotDone ==
    /\ AtTask /\ TaskName \notin Misconfigured
    /\ Trouble
    /\ NextTask
    /\ UNCHANGED <<at, status, left, taskDone>> /\ Frame

TaskDone ==
    /\ AtTask /\ TaskName \notin Misconfigured
    /\ left' = [left EXCEPT !.tasks = @ \ {TaskName}]
    /\ NextTask
    /\ taskDone' = taskDone \cup {pos.task}
    /\ UNCHANGED <<at, status, troubles>> /\ Frame

(* ------------------------ after the pass, and users ------------------- *)

EndPass ==
    /\ at' = "idle"
    /\ pos' = [phase |-> 0, step |-> 0, task |-> 0]
    /\ left' = [phases |-> 0, steps |-> {}, tasks |-> {}]
    /\ taskDone' = {}

\* The status is stored, unless the Instance has changed since.
UpdateStatus ==
    /\ at = "return" /\ status.uid = scheduled
    /\ EndPass
    /\ stored' = status
    /\ UNCHANGED <<plan, scheduled, pl, status, done, bounds>>

\* A conflict.
UpdateRefused ==
    /\ at = "return" /\ status.uid # scheduled
    /\ EndPass
    /\ UNCHANGED <<plan, scheduled, stored, pl, status, done, bounds>>

\* The write fails, or the manager dies on the way: the tasks have been run,
\* but nobody knows.
PassLost ==
    /\ at # "idle"
    /\ Trouble
    /\ EndPass
    /\ UNCHANGED <<plan, scheduled, stored, pl, status, done, executions, edits>>

\* The plan is triggered anew.
Trigger ==
    /\ executions < MaxExecutions
    /\ executions' = executions + 1
    /\ scheduled' = scheduled + 1
    /\ done' = {}
    /\ UNCHANGED <<plan, stored, pass, taskDone, troubles, edits>>

\* The OperatorVersion is changed in the cluster.
EditPlan ==
    /\ edits < MaxEdits
    /\ edits' = edits + 1
    /\ plan' \in PlanSpecs \ {plan}
    /\ UNCHANGED <<scheduled, stored, pass, history, troubles, executions>>

ExecutePhase == SkipPhase \/ StartPhase \/ EndPhase \/ EndPlan
ExecuteStep  == MissingStepStatus \/ SkipStep \/ StartStep \/ EndStep
ExecuteTask  == TaskInvalid \/ TaskFatal \/ TaskError \/ TaskNotDone \/ TaskDone

Engine ==
    \/ Execute
    \/ ExecutePhase \/ ExecuteStep \/ ExecuteTask
    \/ UpdateStatus \/ UpdateRefused

Next == Engine \/ ExecuteTerminal \/ PassLost \/ Trigger \/ EditPlan

Spec == Init /\ [][Next]_vars

\* Reconcile comes back for as long as the plan is not finished, see
\* NoForgottenPlan and PlanIsFinished of InstanceLifecycle.
FairSpec == Spec /\ WF_vars(Engine)

(* ----------------------------- properties ----------------------------- *)

Order == INSTANCE PlanOrder WITH
    plan    <- plan,
    done    <- done,
    active  <- IF at = "task" /\ status.uid = scheduled THEN {Visited} ELSE {},
    outcome <- CASE stored.uid = scheduled /\ stored.status = "COMPLETE" -> "complete"
                 [] stored.uid = scheduled /\ stored.status = "FATAL_ERROR" -> "failed"
                 [] OTHER -> "running"

\* Execute keeps the promise of PlanOrder: serial steps and phases wait for
\* what comes before, a plan is complete when every step is, and a failed or
\* complete plan is not touched, across lost statuses and new executions.
KeepsOrder == Order!Spec

\* A fatal error is told on every level: the plan has failed fatally exactly if
\* one of its steps has, and then its phase has too and no other one (the
\* comment at Execute).
FatalErrors(s) ==
    {x \in UNION {{i} \X DOMAIN s.phases[i].steps : i \in DOMAIN s.phases} :
        s.phases[x[1]].steps[x[2]].status = "FATAL_ERROR"}
FatalPhases(s) == {i \in DOMAIN s.phases : s.phases[i].status = "FATAL_ERROR"}

FatalErrorOnAllLevels ==
    /\ stored.status = "FATAL_ERROR" <=> FatalErrors(stored) # {}
    /\ FatalPhases(stored) = {x[1] : x \in FatalErrors(stored)}
    /\ \A x, y \in FatalErrors(stored) : x = y

\* A stored plan or phase is complete exactly if all of its parts are: the
\* counters of Execute count every part once, whichever pass finished it.
CompleteOnAllLevels ==
    stored.uid # 0 =>
        /\ IsFinished(stored.status)
             <=> \A i \in DOMAIN stored.phases : IsFinished(stored.phases[i].status)
        /\ \A i \in DOMAIN stored.phases :
              IsFinished(stored.phases[i].status)
                => \A j \in DOMAIN stored.phases[i].steps :
                      IsFinished(stored.phases[i].steps[j].status)

\* Within an execution a step that is stored as complete stays so, and a plan
\* that has come to its end does not change any more.
ProgressIsKept ==
    [][ stored'.uid = stored.uid =>
          /\ IsTerminal(stored.status) => stored' = stored
          /\ \A i \in DOMAIN stored.phases :
                \A j \in DOMAIN stored.phases[i].steps :
                   IsFinished(stored.phases[i].steps[j].status)
                     => IsFinished(stored'.phases[i].steps[j].status) ]_vars

\* When tasks have no more trouble, the plan comes to its end: no pass repeats
\* the one before without getting further.
PlanEnds == <>[](stored.uid = scheduled /\ IsTerminal(stored.status))
=============================================================================
