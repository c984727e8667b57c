--------------------------- MODULE InstanceClients ---------------------------
(***************************************************************************)
(* One Instance and who writes to it and waits for it: the KudoOperator    *)
(* task of a parent (pkg/engine/task/task_kudo_operator.go), whose child   *)
(* it is, a user of the CLI with --wait (pkg/kudoctl/util/kudo/kudo.go),   *)
(* and other users.  Both clients write with a merge patch: what they do   *)
(* not name stays.  The task looks at the plan in the spec of the answer,  *)
(* the CLI at the UIDs and statuses of the plans, which the controller     *)
(* writes after the spec.                                                  *)
(*                                                                         *)
(* The webhook's answers are those of InstanceParameters; every step is    *)
(* one of its steps.  It has no UIDs to spare, so executions are numbered  *)
(* here: a number stands for the UID of one execution.                     *)
(***************************************************************************)
EXTENDS InstanceParameters, Functions

CONSTANTS
    ParentWants,     \* what the parent may want the child to be
    CliUpdates,      \* what kudo update and kudo plan trigger may be asked for
    UserChanges,     \* what other users write
    MaxWrites,       \* bound on the wishes, commands and changes together
    MaxExecutions    \* bound on the executions

Parameters == [Parameter -> Value \cup {None}]

ASSUME ClientsAssumption ==
    /\ ParentWants \subseteq [ov : OperatorVersion, ps : Parameters]
    /\ CliUpdates \subseteq [plan : Plan \cup {NoPlan}, ps : Parameters]
    /\ UserChanges \subseteq [ov : OperatorVersion, plan : Plan \cup {NoPlan}, ps : Parameters]

VARIABLES
    execution,   \* the number of the last execution that was scheduled
    statuses,    \* Status.PlanStatus: execution and status of each plan
    latest,      \* the plan whose status was written last
    unwritten,   \* the status of an ended plan, which is yet to be written
    want, task,  \* the version and parameters of the task, and whether it is done
    cli,         \* the command: its position, the update and the statuses it read
    disturbed,   \* history: others wrote after its first read, or shortly before
    writes

controller == <<statuses, latest, unwritten>>
parent     == <<want, task>>
clients    == <<cli, disturbed>>
allVars == <<vars, execution, controller, parent, clients, writes>>

Idle == [at |-> "idle"]

CliRuns == cli.at \in {"patch", "wait"}

InitClients ==
    /\ Init
    /\ execution = 0
    /\ statuses = <<>> /\ latest = NoPlan /\ unwritten = None
    /\ want \in ParentWants /\ task = "running"
    /\ cli = Idle /\ disturbed = FALSE
    /\ writes = 0

\* A write that triggers a plan gives it a new UID.
CountExecution ==
    /\ execution' = IF inst'.pe.uid \in {inst.pe.uid, NoUID} THEN execution ELSE execution + 1
    /\ execution' <= MaxExecutions

Counted == writes < MaxWrites /\ writes' = writes + 1

\* JSON merge patch of a map of parameters.
Merged(ps) == [p \in Parameter |-> IF ps[p] = None THEN params[p] ELSE ps[p]]

\* The patch changes nothing: it is let through, and answered as it is.
NoChange(ov, p, ps) == ov = inst.ov /\ p = NoPlan /\ Merged(ps) = params

Patch(ov, p, ps) ==
    \/ NoChange(ov, p, ps) /\ UNCHANGED <<vars, execution>>
    \/ Change(ov, p, Merged(ps)) /\ CountExecution

(* --------------------------- the KudoOperator task -------------------- *)

\* isResourceHealthy of an Instance: no plan is scheduled in the answer.
HealthyInstance(i) == i.pe.plan = NoPlan

\* Mutant: the object that was read is looked at.
DoneIfHealthyBefore == task' = IF HealthyInstance(inst) THEN "done" ELSE "running"

DoneIfHealthy == task' = IF HealthyInstance(inst') THEN "done" ELSE "running"

\* createInstance: the answer has the deploy plan.  A cached read may have
\* missed the instance, and then the pass fails and changes nothing.
CreateChild ==
    /\ task = "running"
    /\ Create(want.ov, want.ps) /\ CountExecution
    /\ DoneIfHealthy
    /\ UNCHANGED <<controller, want, clients, writes>>

\* patchInstance, in every pass; a refusal is retried.
PatchChild ==
    /\ task = "running" /\ exists
    /\ Patch(want.ov, NoPlan, want.ps)
    /\ DoneIfHealthy
    /\ disturbed' = (disturbed \/ CliRuns)
    /\ UNCHANGED <<controller, want, cli, writes>>

\* A plan of the parent comes to the task again, with other parameters or
\* another version.
ParentPlan(w) ==
    /\ Counted
    /\ want' = w /\ task' = "running"
    /\ UNCHANGED <<vars, execution, controller, clients>>

(* --------------------- kudo update and plan trigger ------------------- *)

Finished(st) == st = "COMPLETE"

\* GetLastExecutedPlanStatus
LastStatus ==
    LET running == {p \in DOMAIN statuses : IsRunning(statuses[p].status)}
    IN  IF running # {} THEN statuses[CHOOSE p \in running : TRUE].status
        ELSE IF latest = NoPlan THEN "NEVER_RUN" ELSE statuses[latest].status

\* Mutant: the last status may be an old one.
DoneWhateverPlan(old) == Finished(LastStatus)

\* IsInstanceDone: one of the plans that had a status has another UID.
IsInstanceDone(old) ==
    /\ \E p \in DOMAIN old : statuses[p].execution # old[p].execution
    /\ Finished(LastStatus)

\* An execution is scheduled whose UID is not in the status yet.
Pending ==
    /\ inst.pe.plan # NoPlan
    /\ inst.pe.plan \in DOMAIN statuses => statuses[inst.pe.plan].execution # execution

\* UpdateInstance with wait reads the instance ...
CliReads(u) ==
    /\ ~ CliRuns /\ exists /\ Counted
    /\ cli' = [at |-> "patch", update |-> u, old |-> statuses]
    /\ disturbed' = Pending
    /\ UNCHANGED <<vars, execution, controller, parent>>

\* ... patches it, which may be refused ...
CliPatches ==
    /\ cli.at = "patch"
    /\ Patch(inst.ov, cli.update.plan, cli.update.ps)
    /\ cli' = [cli EXCEPT !.at = "wait"]
    /\ UNCHANGED <<controller, parent, disturbed, writes>>

\* ... and polls.
CliReports ==
    /\ cli.at = "wait" /\ IsInstanceDone(cli.old)
    /\ cli' = Idle
    /\ UNCHANGED <<vars, execution, controller, parent, disturbed, writes>>

\* Refused, out of time or interrupted.
CliFails ==
    /\ CliRuns
    /\ cli' = [at |-> "failed"]
    /\ UNCHANGED <<vars, execution, controller, parent, disturbed, writes>>

(* ------------------------ users and the controller -------------------- *)

UserCreates(ov, ps) ==
    /\ Counted /\ Create(ov, ps) /\ CountExecution
    /\ UNCHANGED <<controller, parent, clients>>

UserChange(u) ==
    /\ Counted
    /\ Change(u.ov, u.plan, u.ps) /\ CountExecution
    /\ disturbed' = (disturbed \/ CliRuns)
    /\ UNCHANGED <<controller, parent, cli>>

NeverRun == [execution |-> 0, status |-> "NEVER_RUN"]

\* The controller writes a status for every plan of the version, and resets the
\* one of an execution that is new to it.
PlanStarts ==
    LET p   == inst.pe.plan
        all == [q \in DOMAIN statuses \cup PlansOf[inst.ov] |->
                   IF q \in DOMAIN statuses THEN statuses[q] ELSE NeverRun]
    IN  /\ exists /\ Pending /\ unwritten = None
        /\ statuses' = [all EXCEPT ![p] = [execution |-> execution, status |-> "IN_PROGRESS"]]
        /\ latest' = p
        /\ UNCHANGED <<vars, execution, unwritten, parent, clients, writes>>

\* The last pass writes the spec ...
ExecutionEnds(st) ==
    LET p == inst.pe.plan
    IN  /\ unwritten = None
        /\ p \in DOMAIN statuses /\ statuses[p].execution = execution
        /\ PlanEnds(st)
        /\ unwritten' = [plan |-> p, status |-> st]
        /\ UNCHANGED <<execution, statuses, latest, parent, clients, writes>>

\* ... and then the status.
StatusWritten ==
    /\ unwritten # None
    /\ statuses' = [statuses EXCEPT ![unwritten.plan].status = unwritten.status]
    /\ latest' = unwritten.plan
    /\ unwritten' = None
    /\ UNCHANGED <<vars, execution, parent, clients, writes>>

NextClients ==
    \/ CreateChild \/ PatchChild \/ \E w \in ParentWants : ParentPlan(w)
    \/ \E u \in CliUpdates : CliReads(u)
    \/ CliPatches \/ CliReports \/ CliFails
    \/ \E u \in UserChanges : UserCreates(u.ov, u.ps) \/ UserChange(u)
    \/ PlanStarts \/ \E st \in {"COMPLETE", "FATAL_ERROR"} : ExecutionEnds(st)
    \/ StatusWritten

SpecClients == InitClients /\ [][NextClients]_allVars

(* ----------------------------- properties ----------------------------- *)

Has(ps, wanted) == \A p \in Parameter : wanted[p] # None => ps[p] = wanted[p]

\* A KudoOperator task is done only when the child has the version and the
\* parameters that the parent gives it, and a plan was executed with them,
\* whatever other users do to the child meanwhile (applyInstance,
\* isResourceHealthy of the answer); children with undefined parameters aside.
TaskDoneMeansApplied ==
    [][ task = "running" /\ task' = "done" =>
          /\ inst'.ov = want.ov
          /\ Has(params', want.ps)
          /\ unguarded' \/ executed' = Effective(want.ov, params') ]_allVars

\* kudo update --wait reports success only after an execution with the new
\* values has ended, and a plan that was triggered has been executed, unless
\* others wrote meanwhile, or so shortly before that their execution had not
\* started yet: its end is taken for the command's (UpdateInstance,
\* IsInstanceDone).
ReportedIsExecuted ==
    [][ cli.at = "wait" /\ cli'.at = "idle" /\ ~ disturbed =>
          /\ \A p \in Defined(inst.ov) : cli.update.ps[p] \in {None, executed[p]}
          /\ cli.update.plan # NoPlan =>
                statuses[cli.update.plan] \notin Range(cli.old) \cup {NeverRun} ]_allVars
=============================================================================
