# KUDO in TLA+

This directory holds a verification development of KUDO, the Kubernetes
Universal Declarative Operator: TLA+ modules that model its control plane, the
TLC configurations that check them on small instances, and proofs, checked by
TLAPS, of what matters most. Paths are relative to the repository; `H` below
stands for `pkg/apis/kudo/v1beta1/instance_types_helpers.go`, `C` for
`pkg/controller/instance/instance_controller.go`, `W` for
`pkg/webhook/instance_admission.go` and `E` for
`pkg/engine/workflow/engine.go`.

## 1. The system

KUDO runs operators. An *Operator* has *OperatorVersions*; each has *plans*
(deploy, update, upgrade, cleanup and others), templates and parameters. An
*Instance* is an installation of one version. A plan has phases, a phase has
steps, a step has tasks; plans and phases are serial or parallel.

| Component | State it keeps | Operations | Talks to |
|---|---|---|---|
| API server (external) | the objects, each with a resourceVersion | create, update, update of the status, delete; optimistic concurrency | calls the webhook for every create and update of an Instance, sends watch events |
| Instance resource (`H`, `instance_types.go`) | spec: version, parameters, plan execution (name, UID, status); metadata: finalizer, deletion timestamp; status: one plan status per plan, Ready condition | `UpdateInstanceStatus`, `ResetPlanStatus`, `TryAddFinalizer`, `TryRemoveFinalizer`, `SetReadiness`, getters | used by webhook, controller, CLI |
| Admission webhook (`W`) | none | create: schedules deploy, adds the finalizer; update: refuses, or schedules, keeps or clears the plan execution | reads OperatorVersions |
| Instance controller (`C`) | informer cache, work queue, a copy during `Reconcile` | one reconciliation at a time per Instance: schedule cleanup, reset statuses, resolve dependencies, execute, write spec, write status, requeue | API server, engine, dependency resolver |
| Engine (`E`) | none; works on a copy of the plan status | `Execute`: one pass over phases, steps and tasks | tasks |
| Tasks (`pkg/engine/task`) | resources in the cluster | Apply, Delete, Toggle, Pipe, KudoOperator, Dummy: done, not yet, transient or fatal error | API server, pods, renderer |
| Dependency resolver (`pkg/kudoctl/resources/dependencies`) | a list of dependencies and a graph | recursive walk, pins versions, refuses cycles | package resolvers |
| Operator and OperatorVersion controllers | none | log | |
| CLI operations (`pkg/kudoctl/cmd`, `util/kudo`, `packages/install`, `resources`) | none | install, update, upgrade, uninstall, plan trigger, wait | API server, repositories |
| `kudo init` (`pkg/kudoctl/kudoinit`) | none; the objects of KUDO itself are in the cluster | verify, install and upgrade CRDs, prerequisites, webhook and manager | API server, cert-manager |
| Package tools (`pkg/kudoctl/packages`, `cmd/prompt`, `cmd/generate`) | a directory, an index | new, add, verify, create; resolve | files, repositories |

How they interact: users and the CLI write the spec of an Instance; the webhook,
called inside that write, turns the change into a scheduled plan with a new UID
or refuses it. The watch wakes the controller, which reads its *cache*, runs one
pass of the engine and makes *two writes*: first spec and metadata, on which the
webhook is called again and where a finished plan is taken out of the spec, then
the status. A plan that is not finished is queued again.

What is hard about it: the cache lags behind; other writers come between any two
steps; each of the two writes can be refused, fail or be applied with the answer
lost; the manager (controller and webhook in one process) can die anywhere; the
deletion can start at any time and has its own rules; statuses of an execution
survive into the next one and are found by name. `PROJECT.json` lists these
hazards by line.

What makes the components correct:

- *Instance, webhook, controller*: no scheduled execution is lost, repeated after
  it ended, or replaced by another before it ended; deletion runs the cleanup
  plan first, and ends; status, spec and readiness tell the same story. Stored
  parameters are valid, immutable ones keep their values, and every other change
  of a value is followed by the plan that brings it into the cluster.
- *Engine*: the order that the strategies ask for, whatever passes are repeated or
  lost; complete means all parts are; a fatal error is told on every level; the
  plan ends.
- *Dependency resolution*: terminates, refuses exactly the cyclic packages.
- *KudoOperator tasks*: the parent goes on only when the child's plan completed.
- *Resource and pipe tasks*: repeated passes converge to what the templates say,
  whatever others did in between; nothing is restarted that need not be; the files of
  a pipe are of one pod.
- *CLI*: waiting ends with the outcome of the execution waited for; a failed
  installation can be repeated; a package that was created runs, and editing loses
  nothing.
- *kudo init*: no manager without the webhook; an installation that succeeds is
  complete; an interrupted one can be repaired.

## 2. The modules

| Module | Models | Composed of |
|---|---|---|
| `InstanceTypes` | the Instance resource and the methods of its Go type | |
| `InstanceAdmission` | the answer of the webhook to a create and an update, as operators | `InstanceTypes` |
| `InstanceLifecycle` | one Instance: users, API server, webhook, watch, work queue, `Reconcile`, the two writes, API errors, crash and restart | `InstanceAdmission` |
| `InstanceParameters` | which changes of parameters and versions the webhook admits, what they trigger, and what it does to the parameters | `InstanceAdmission` |
| `InstanceClients` | the KudoOperator task of a parent and `kudo update`, `plan trigger` and `--wait`, beside other users of one Instance | `InstanceParameters`, which it implements |
| `PlanOrder` | abstract: what the execution of a plan promises | |
| `WorkflowEngine` | `workflow.Execute`, one task at a time, with what `Reconcile` does with the plan status before and after it | implements `PlanOrder` |
| `ClusterResources` | objects: rendering, enhancing, hashing of dependencies, three-way patches, health | |
| `ResourceTasks` | Apply, Delete, Toggle and Dummy tasks, call by call, in passes over the steps, in a cluster that changes by itself | `ClusterResources` |
| `PipeTask` | the Pipe task beside them | `ResourceTasks` |
| `DependencyResolver` | the depth-first walk over packages with its list, graph and pinned tasks | |
| `PackageRepository` | what the index and the cluster resolve a name and a version to, and the dependencies of a package | |
| `KudoInstall` | `kudo install`, `upgrade` and `uninstall` of several users at a time, call by call | `PackageRepository` |
| `KudoResources` | what `kudo init` can be asked for, its calls in order, and its objects | |
| `KudoInit` | installation, upgrade, verification and `--wait` of KUDO itself, with cert-manager, controllers and users | `KudoResources` |
| `PackageFiles` | how a package is read, archived, verified and converted, and how its templates are rendered | |
| `PackageEditing` | `kudo package new`, `add` and `create`, with their prompts, beside an editor | `PackageFiles` |
| `MCInstanceLifecycle`, `MCInstanceParameters`, `MCInstanceClients`, `MCWorkflowEngine`, `MCPipeTask`, `MCDependencyResolver`, `MCKudoInstall`, `MCKudoInit`, `MCPackageEditing` | the small instances for TLC | |
| `InstanceLifecycleProofs`, `InstanceClientsProofs` (with those of the parameters), `WorkflowEngineProofs`, `PipeTaskProofs`, `DependencyResolverProofs`, `KudoInstallProofs`, `KudoInitProofs`, `PackageEditingProofs` | theorems and proofs | |

`PROJECT.json` maps every definition to the lines it stands for.

### The lifecycle of an Instance

`inst` is the object in the API server, `cache` the copy in the informer cache
and `mem` the `instance` variable of a running `Reconcile`. One record type
serves all three: `ov` (the operator version), `pe` (`Spec.PlanExecution`), `fin`
and `deleting` (metadata), `ps` (`Status.PlanStatus`) and `ready` (the reason of
the Ready condition). A resourceVersion would only ever be compared with the
latest one, so that two booleans, `cacheFresh` and `memFresh`, stand for it.
Parameters are represented by the plan that their change triggers; the next
module has their values.

| Code | In the model |
|---|---|
| create by a user, with the webhook's `handleCreate` | `Create` |
| update by a user, with `handleUpdate`/`admitUpdate` | `Patch`: any version, trigger, plan, UID; `Denied` holds the rules, `Decision` the answer |
| annotation or label | `UpdateMetadata` |
| delete | `Delete`; `Store` removes the object when no finalizer is left |
| watch and work queue | `Watch`, `OtherEvent` |
| `Reconcile` up to its first write | one action for every way through it: `ReconcileNotFound`, `ReconcileReadiness`, `ReconcileUnresolved`, `ReconcileInvalidPlan`, `ReconcileTerminalPlan`, `ReconcilePlan`; all but the first end in `UpdateInstance` |
| the spec write of `updateInstance` | `UpdateSpec` (with the webhook), `SpecRefused` |
| the status write | `UpdateStatus`, `StatusRefused` |
| the result of `Reconcile` (`computeTheReconcileResult`, `handleError`) | `requeue`, `Return` |
| API errors, lost answers, death of the manager | `WriteFails`, `AnswerLost`, `Crash`, `Restart` |

Two details of the client matter. The answer to the spec write is decoded into
the object that was sent; `planExecution.status` is `omitempty`, so that after the
webhook's reset the copy in memory keeps the terminal status, and the result of
`Reconcile` is computed from it. And a write of the main resource shows its
status to the webhook without storing it (`SpecRequest`, `SpecResult`).

What a pass of the engine comes to is any of IN_PROGRESS, COMPLETE and
FATAL_ERROR here; `WorkflowEngine` is the detail. A scheduled plan that its
version does not have is refused by the webhook, so `~ PlanFound` does not occur
in the runs; it stands in the model because the code looks.

### The parameters of an Instance

`params` is `Spec.Parameters`, `definitions` the parameters of each version
(immutable, required, default, trigger and the values that type and enumeration
allow), `inst` what `InstanceAdmission` needs of the Instance. A map without an
entry has the value `None` there. `Update` is `handleUpdate` with `admitUpdate`: it
uses `Denied` and `Decision` with the plan `TriggeredPlan` computes. `Effective` is
`ParamsMap`, what templates see.

| Code | In the model |
|---|---|
| `handleCreate`, `setImmutableParameterDefaults` | `Create`, `WithImmutableDefaults` |
| `changedParameters` | `ChangedDefs`, `RemovedDefs`: definitions new in an upgrade do not count, and one removed parameter without a definition hides all removed ones |
| `checkImmutableParameters`, `validateOVUpgrade` | `ImmutablesRespected`, `UpgradeSetsImmutables`, `WithoutRemovedDefs` |
| `validateParameters` | `ValidParameters` |
| `triggeredByParameterUpdate` | `Triggerable` (no error), `TriggeredPlan` |
| an update by a user | `Change`: any new map of parameters, any version and trigger; the CLI's `UpdateInstance` writes merge patches, which set values but remove none |
| the controller's last write for a plan | `PlanEnds`; `executed` remembers the values |

The passes in between change neither version, plan nor parameters and are left out.
`executed` takes the values at the end of the plan: a change that triggers while the
plan runs restarts it with a new UID, and the controller's write would be a conflict
had the object changed since it was read. A definition is one that package
verification accepts (`Accepted`): an immutable parameter is required or has a
default, and defaults are allowed values.

### The engine

One reconciliation is one pass over phases, steps and tasks. `pos` is the three
nested loops, `left` the counters `phasesLeft` and `stepsLeft` and the list of
unfinished tasks, `status` the copy of the plan status in memory and `stored` the
one in the API server. `Execute`, `SkipPhase`, `StartPhase`, `EndPhase`,
`SkipStep`, `StartStep`, `EndStep`, `EndPlan` and the five results of a task
follow the branches of the code. `Prepared` is
`ensurePlanStatusInitialized` and `resetPlanStatusIfPlanIsNew`. A pass ends in
`UpdateStatus`, in `UpdateRefused` (another execution was scheduled meanwhile) or
in `PassLost`: the tasks were run, but nobody knows. `Trigger` schedules a new
execution and `EditPlan` changes the plan in the cluster, both at any moment.
`Execute`'s branch for a missing *phase* status has no action: statuses are
rebuilt from the same plan just before. The same branch for a *step* is
reachable, when two phases share a name (`MissingStepStatus`).

The history variable `done` holds the steps of which all tasks were done in one
pass of this execution; it refers to what was really done, not to what a status
says, and `KeepsOrder` is about it.

### The dependency resolver

A call of `dependencyWalk` is a frame (`vertex`, the parent's position in the
list, and `next`, its next task); `stack` holds the calls that have not returned.
`ResolveFails`, `AddEdge`, `AddDependency` and `Return` are the ways through the
body of the loop. `graph.Acyclic` of `yourbasic/graph` is modelled by what it
says: every set of vertices has one without an edge into the set.
`dependencyWalk` calls it after every edge; a new vertex has no edges yet, so
`AddDependency` does not evaluate it, and the proof (`AcyclicWithNewVertex`) shows
that it could not fail there.

Packages are operator versions; a resolver is represented by what it returns for
a task: a package, or nothing. Every list of tasks is an initial state, so a
property of `DependencyResolver` holds for every operator of that size.

### The clients of an Instance

Two programs use an Instance through the webhook: the KudoOperator task of a parent
(`applyInstance`: create, or patch and look at the answer), and the CLI
(`UpdateInstance`, `WaitForInstance`, `IsInstanceDone`). Every write of theirs is a
`Create` or `Change` of `InstanceParameters`, whose invariants hold for them, too
(`ClientsAreUsers`). Beside the writes there is what they read: the scheduled
execution and the statuses of the plans, which the controller resets and ends in two
writes (`PlanStarts`, `ExecutionEnds`, `StatusWritten`). A waiting command remembers the
UIDs of its first answer and compares them with those of later ones.

### Tasks and objects

An object is a record of the fields that the code treats differently: `data` and
`extra` are rendered, `extra` for some values of the parameters only; `hash` is the
hash of the dependencies, `uid` the annotations of the execution, `note` what KUDO
does not render. `applied` is the last applied configuration, an annotation, with
which `Merged` makes the three-way merge; `observed` and `status` are what the
controllers of the cluster make of it, `born` and `filled` the number of a pod and
whether its init container has finished. `cache` is the manager's cache, from which tasks
and hashes read. A task first renders all of its objects (`Start`), then writes one
after the other (`CreateObject`, `PatchObject`, `OriginalMissing`, `DeleteObject`), and is done
when all of them are healthy. Between two calls others edit, delete and create
objects, pods and jobs end, the pass is lost, or a new execution is scheduled.

`PipeTask` adds the pod, the copies of its files, one call each, and the config maps
and secrets made of them. The content of a file is the number of the pod that made it.
The engine is reduced to serial steps; `WorkflowEngine` has the strategies.

### Installation of operators

A command reads the index and the cluster and computes the list of objects to see
to (`Objects`: dependencies first, an Operator before its version), then looks for
each one and creates what is missing (`Look`, `Create`). Each call is an action, so that
commands of two users overlap anywhere. Resolvers are functions of index and cluster
(`RepositoryResolver`, `InClusterResolver`); packages are published meanwhile.
`DependencyResolver` has the walk as the code does it, with its cycles; here
`DependencyWalk` is its result, reached by following one reference after the other
(`WalkStep`) in the order of the code. `MaxWalk` bounds the references that are followed;
a walk that were not over by then would refuse the command (`Prepares`). A package has
two versions, of the operator and of the application; an OperatorVersion is named after
both, but `OperatorVersionsInstalled` knows only the first (`VersionInstalled`).

### kudo init

`Calls(f)` is the list of calls that the flags `f` ask for. `Verified` is what the
command looks at before it starts, `VerifyInstallation` what `--verify` and `--wait` look
at. A call is refused where its namespace is not active or where it must create
what there is (`Refused`). The cluster establishes CRDs, starts and removes
managers, terminates namespaces; cert-manager issues certificates and injects CAs; users
edit the cluster. With a self-signed CA, making it or the certificate can fail, and the
code drops the error: `NoCertificates` is the installation that skips webhook and secret,
`CheckWebhook` the verification that then takes them for valid. `unguarded` remembers the
namespaces whose manager may be without the webhook (an upgrade elsewhere has deleted it, or
`NoCertificates`), `uncertified` that the command could not make its certificates,
`leftover` that parts of another installation are kept.

### Packages

A package directory is a record of its files. A template is its tree of actions:
`Found` is what the verifier's walk finds, with the branches that it skips, `LookedUp` what
rendering evaluates. Both are recursive functions over `Pipelines` and `Trees`, the lists of
arguments and of nodes that occur in templates, with all of their parts. A command of the author reads the package, asks, and reads it
again before it writes (`Begin`, answers, `AddParameter`, `AddTask`, ...); `Edit` changes files by
hand at any moment.

## 3. What is checked

Every run but the violations passes; every property of a passing run has a
mutant in `PROJECT.json`, a plausible bug at a definition of the code, that
breaks it.

| Run | Shows | Bounds |
|---|---|---|
| `lifecycle` | `StatusNeverAheadOfSpec`, `NoForgottenPlan`, `UnknownWhileRunning`, `NoPlanOverride`, `PlanStatusDiagram`, `CleanupBeforeRemoval` under all interleavings | 2 versions, 3 plans, 3 writes, 2 faults, 1.2 million states |
| `liveness` | `PlanIsFinished`, `DeletionEnds` | 2 versions, 2 plans, 2 writes, 1 fault, 48 000 states |
| `parameters` | `ParametersValid`, `ImmutablePinned`, `IdleIsUpToDate`, `ImmutableNotReplaced`, `NamedTriggerScheduled` | 2 versions, 2 parameters, 3 values, 60 combinations of definitions, 31 000 states |
| `clients` | `TaskDoneMeansApplied`, `ReportedIsExecuted` | 2 versions, 2 parameters, 3 writes, 4 executions, 1.2 million states |
| `engine` | `KeepsOrder` (the refinement), `FatalErrorOnAllLevels`, `CompleteOnAllLevels`, `ProgressIsKept` | 10 plans, 3 troubles, 2 executions, 119 000 states |
| `engine_ends` | `PlanEnds`, with edited plans and repeated names | 5 plans, 1 trouble, 2 executions, 1 edit, 21 000 states |
| `tasks` | `Converged`, `ArtifactsOfOnePod`, `OnlyNeededChanges`, `PlanEnds` | 13 plans, 7 objects, 2 values, 2 executions, 1 trouble, 460 000 states |
| `dependencies` | `ResolvedIsComplete`, `RefusedForAReason`, `PinnedToResolved`, `NeverAgain`, `WalkEnds` | 3 packages, all 50 653 assignments of up to two tasks, 133 000 states |
| `install` | `OperatorsKnown`, `DependenciesFirst`, `RetriedInstallEnds` | 2 users, 7 packages of 3 operators, 6 commands, 1 fault, 271 000 states |
| `init` | `ManagerBehindWebhook`, `InstalledIsComplete`, `UpgradeRepairs` | 2 versions, 2 namespaces, 9 commands, 1 fault, 1 edit, 614 000 states |
| `packages` | `CreatedRuns`, `NothingLost` | 2 commands, 2 edits, 1 failed write, 2.8 million states |

The bounds, and why they are enough:

- `MaxWrites` (writes of users besides create and the one delete). The rules of
  the webhook compare an old and a new object; the interesting histories are a
  plan that is triggered, overridden or retriggered, then deleted, with a write in
  the gap between the controller's two writes. Two writes reach these; three
  leave one for the gap after an upgrade.
- `MaxFaults`. One fault separates the two writes, the second hits the recovery.
- `UID`. Eight are more than the executions that can exist at once; `NewUUID`
  never runs dry in the runs (`FreshUIDs # {}` guards it).
- versions and plans: one version has an upgrade plan and one has not, so that both
  choices of `selectUpgradePlan` and an upgrade in both directions occur.
- parameters: one parameter is immutable, or becomes or ceases to be so, is required,
  is added or removed, with different defaults, enumerations and triggers; a second
  one makes simultaneous changes with two triggers, one or none. One version has an
  update plan and one has only deploy. Nothing bounds the length of the histories.
- `MaxTroubles` counts unfinished, failed or lost work in the engine. With three a
  step fails, is repeated and lost in a row. The plans have each combination of the
  three strategies, a step without tasks, one with two, a phase without steps and a
  plan without phases.
- three packages have chains, diamonds, self-loops, cycles with and without the root
  and cycles that are not reachable; two tasks per package make branches and
  repeated names. The theorems of section 5 need no bound.
- `clients`: three writes of others are one before a command or a task, one while it
  waits and one more; four executions let each of them schedule one.
- `tasks`: each plan has the objects of one question (a workload and the config map it
  hashes, in one step or two, applied or deleted before or after it, a toggle, a job that is removed, a pipe with one and two
  files, tasks that cannot succeed); two executions change and change back the
  parameters. `MaxBehind` is the number of objects of which the cache may be behind at
  the same time, `MaxTroubles` what fails or is done by others.
- `install`: `r` needs `d`, which needs `e`, so that there is a dependency of a
  dependency, and newer versions need other ones. One user repeats an installation,
  the other runs each of five commands once, at any moment. One interruption leaves any
  prefix of the calls. `R0` and `R1` differ in the app version only: `w` installs the one
  from a file, then `u` finds the operator version of the other installed. The longest walk follows three references, `MaxWalk` is four.
- `init`: every prefix of an installation or an upgrade is left by one fault, and met
  by any further command, in the same or in the other namespace; cert-manager is
  unusable, of an unlisted version, or running. The one fault may also be that
  certificates cannot be made.
- `packages`: two commands, two edits by hand and one failed write reach every pair
  of a question and an edit; `MaxPicks` bounds the tasks of a plan. The templates have a
  parameter and a pipe in each place that the verifiers treat differently, so that each
  of the three gaps (section 4) is reached: without any one of them in `TaskRuns` the run
  fails. No name is spelled with a separator (`BadName` is empty).

Deadlock is not checked: users may stop writing, a plan or a walk may be over.

### Fairness

- `InstanceLifecycle`: weak fairness of `Watch` (informers list and watch for
  ever), of `Reconcile \/ Write` (one worker takes what is queued and `Reconcile`
  has no unbounded wait) and of `Restart` (the manager is a StatefulSet). That a
  plan ends is nothing the controller can promise: strong fairness of a pass of the
  engine that completes, based on a fresh cache, is an assumption on operators and
  on the rate of other writes, which would otherwise make every write a conflict.
  Users, `OtherEvent` and faults have no fairness; faults are bounded.
- `WorkflowEngine`: weak fairness of the engine's steps. That passes go on is
  what `NoForgottenPlan` and `PlanIsFinished` show of the lifecycle. Troubles are
  bounded: the property is about what happens once tasks have no more of them.
- `InstanceParameters`, `InstanceClients` and `PackageEditing` have no liveness property
  and assume no fairness.
- `PipeTask`: weak fairness of passes and of the calls in them, of the cache, and of the
  controllers of the cluster for each object (`Fairness`). Troubles and executions are
  bounded.
- `KudoInstall` (`FairSpec`): the commands of one user go on, and this user repeats the
  installation until it succeeds. Neither the manager nor other users nor the repository
  need to do anything.
- `KudoInit`: a command goes on until it ends (it is a program, and its waits have
  timeouts), a StatefulSet that is being deleted goes in the end (the garbage collector), and
  users repeat the upgrade (strong fairness: other commands may run in between). Nothing is
  assumed of cert-manager and the other controllers: the upgrade does not wait for them. The
  run has no second upgrade of the same namespace: with one, the StatefulSet may go each
  time while the other upgrade waits, and the repeated one runs into its timeout for ever.
- `DependencyResolver`: weak fairness of the walk, a plain computation.

## 4. Where the code and its comments differ

One run expects a violation: `finalizer_lost`. The spec was written and the first status
was not; `TryRemoveFinalizer` then takes the version for one without a cleanup plan, and
the deleted instance goes without cleanup. `PROJECT.json` quotes the sentence it refutes.

More sentences are stated as properties of their modules, under a heading of their own,
and do not hold; none of the passing runs checks them. A run with a configuration of
its own and one of them as its only property shows how it fails; for `RequiredHaveValues`,
`UpgradeEnablesWebhook` and `DependenciesNamed` the constants of the runs `parameters`,
`init` and `install` do:

| Property | What the code does |
|---|---|
| `InstanceLifecycle!FatalErrorIsNotRetried` | `preparePlanExecution` returns a pointer to an `ExecutionError`, which `errors.As` in `handleError` does not recognise: the fatal error is retried (`C`:407,420) |
| `InstanceLifecycle!CleanupOnlyWhenDeleting` | a parameter with trigger `cleanup` schedules the cleanup plan of a live instance (`W`:292) |
| `InstanceParameters!ImmutableKept` | the value of an immutable parameter is removed; the default of the version takes its place (`W`:397) |
| `InstanceParameters!EveryChangeExecuted` | an undefined parameter is removed together with a defined one, and no plan is triggered (`W`:390) |
| `KudoInit!InstallIsIdempotent` | `init.go`:38 calls `kudo init` idempotent; run again it is refused because of the CRDs |
| `InstanceParameters!RequiredHaveValues` | the empty string is stored for every parameter that is not required or has a default, of whatever type and allowed values (`parameter_types_helpers.go`:48-54), and put over the default (`C`:450): templates get it where `parameter_types.go`:18,34 want a value of the list |
| `KudoInit!UpgradeEnablesWebhook` | when the self-signed CA or certificate cannot be made, `installWithSelfSignedCA` returns nil (`prereq/webhook.go`:158-161): the upgrade, which has deleted the webhook before, starts the manager without webhook and secret and ends without an error (`setup.go`:128); the verification drops the same error (127-130), so that `--wait` is content |
| `KudoInstall!DependenciesNamed` | what is installed is looked up by operator version alone, where OperatorVersions and KudoOperator tasks have an app version, too (`util/kudo/kudo.go`:425, `task_kudo_operator.go`:41-44): a dependency is skipped, and the OperatorVersion that the parent's task names is missing (`operator.go`:14-16) |
| `KudoInit!ReadyManagerTrusted` | a self-signed upgrade makes a new CA for the webhook and keeps the secret signed by the old one: the API server does not trust the manager |

Where `DeletionEnds` is checked for versions of which the second has no cleanup plan,
it fails, too: the entry of the status keeps the finalizer, and the deletion never ends.

`ImmutablePinned` and `IdleIsUpToDate` hold until a user makes one of the two removals
that `ImmutableKept` and `EveryChangeExecuted` are about; the history variable
`unguarded` remembers them. `ImmutableNotReplaced` and `NamedTriggerScheduled` leave
just these removals aside.

Three properties of the lifecycle are stated with these in mind.
`StatusNeverAheadOfSpec` exempts the uninstall phase, where the webhook leaves a finished plan in the spec.
`CleanupBeforeRemoval` speaks of instances whose status has an entry for the
cleanup plan; `finalizer_lost` is what happens to the others. `DeletionEnds` allows
a fatal cleanup to wait for a human, as the comment at `TryRemoveFinalizer` wants;
its passing run has versions that keep their cleanup plan.

Exemptions in other properties are of the same kind. They are history variables of
the models, and name what the code does not guard:

- `ReportedIsExecuted` (`disturbed`): an execution that another user scheduled before the
  first read of a command, and that the status does not show yet, is taken for the
  command's own (`util/kudo/kudo.go`:319-350). An update that changes nothing
  waits until the timeout; a FATAL_ERROR never counts as done.
- `TaskDoneMeansApplied` (`unguarded`): a merge patch of a parent removes no parameter,
  and a child counts as healthy after a FATAL_ERROR, too, once nothing is scheduled.
- `Converged` (`doubt`): a patch computed from a stale cache keeps a field that is not
  rendered any more; the hash of dependencies may be stale with it. What a later task of
  the plan manages is left out: a workload keeps the hash of a dependency that is
  applied after it.
- `OnlyNeededChanges`: a dependency that has been deleted since the task rendered the
  workload leaves its hash behind, and the next execution restarts the pods.
- `ParametersValid` (`EmptyGiven`): the empty string that an Instance gives to a parameter
  which is not required or has a default. A stored value that the next version does not
  allow, or a parameter that is required there and has no value, would violate it.
- `ManagerBehindWebhook` (`unguarded`): an upgrade in another namespace deletes the
  cluster-wide webhook of a running manager, and an installation whose self-signed
  certificates failed has none. Both end with the next installation of the webhook.
- `InstalledIsComplete` (`leftover`): a role binding and, on installation, a webhook
  are kept whatever is in them. `uncertified` exempts no more than webhook and secret.
- `DependenciesFirst` leaves out operators that others depend on: a version that was
  created as a dependency counts as installed without its own dependencies. A reference
  counts as served, too, when the same operator version with another app version is there
  (`Shadowed`); `DependenciesNamed` is the property without this.
- `RetriedInstallEnds` (`Blocked`): another app version is there instead of the command's
  own OperatorVersion, which is therefore skipped; the instance refers to a version that
  is not there, and every repetition fails.
- `CreatedRuns`: the verifiers have three gaps. `UnseenBranch`: the walk over a template
  skips the `else` of a `range` and what follows a plain field in a pipeline, which is then
  rendered with the default values only. `UnseenPipe`: a pipe file in a branch that is not
  taken with the default values is found by the walk, but compared with nothing
  (`verify_render.go`:28-66); a missing one is a fatal error when the branch is taken.
  `PipeOfAnyPlan`: pipe files are collected over all plans, where the engine has those of one.

What else was met while modelling, stated nowhere as a property:

- Lifecycle. A status write that is lost leaves its plan IN_PROGRESS beside the next
  one. A FATAL_ERROR is followed by a reconciliation that recomputes Ready, where
  KEP-34 wants Unknown. Of two steps with one name the second is skipped once the
  first is COMPLETE. An upgrade may change a parameter that is immutable in both
  versions (`validateOVUpgrade` compares definitions only). A parameter without a
  trigger that changes together with one that has a trigger does not get its default
  plan executed.
- Tasks. Every error of copying a file counts as fatal, and leaves its pod behind. A
  changed template of a pod or a job is refused by the API server in every pass.
- `kudo init`. An unlisted version of cert-manager leads to a nil pointer
  (`prereq/webhook.go`:310). An installation that was interrupted between the CRDs and the
  role binding is refused by installation (CRDs exist) and upgrade (no role).
  `--verify` looks neither into the webhook nor for the service. A dry run with `--wait`
  waits for a manager that it has not installed.
- `kudo install`. The in-cluster resolver passes operator and app version to
  `BuildInstanceResource` in the wrong order (`resolver_incluster.go`:58,
  `convert/resources.go`:90): installing with `--in-cluster` is always refused. Two
  upgrades at a time can lower a version. A repeated `--create-namespace` fails.
- Packages. `kudo package create operator` removes the name of the directory from the
  names of files as well (`writer_tar.go`:78): `operator.yaml` becomes `.yaml`. A
  Toggle task that was added is never valid, as its parameter is not asked for. A task
  whose files cannot be created is reported as added.

## 5. What is proved

TLAPS checks all proofs, for every value of the constants that satisfies their
assumptions: `PlanAssumption`, `UIDAssumption` and `LifecycleAssumption` (plans
have names, deploy and cleanup are plan names, the empty UID is none),
the `PackageAssumption` of the resolver (the root is a package, a missing one is none)
and that of the repository (there are finitely many packages, each with a version and a
list of references, and none is `None`), `WalkAssumption`, `InstallAssumption`
(commands are commands, no two published packages have the same key: what
`AddPackageVersion` enforces), `PlansAreLists`
(phases, steps and tasks are lists), `PipeAssumption` (steps and tasks are lists that
are not empty, nothing but its own task writes what a pipe writes, and the API server knows
the types of that), `ResourcesAssumption` (dependencies of a template are config maps and
secrets; `data` is what every value renders), `AbsentAssumption` (no object is none),
`FilesAssumption`, `TreesAssumption` and `EditingAssumption` (a file in a tarball has a name; the
parts of a template are templates' parts; what the author types and writes are names,
paths and well-formed parameters, plans and templates), and
`ParameterAssumption` (definitions are what package verification accepts, an empty
string is a value, the plans of a version are finitely many, there is always a UID that
is not in use).

Some of the lemmas are inductions. A theorem cannot be given an operator here, so a
property of numbers is stated as the set of the numbers that have it, and the induction
says that this set contains all of them (`SetInduction` in `KudoInstallProofs`); this
reaches what is defined by steps that are counted.

### `InstanceLifecycleProofs`

`TypeCorrect`, `StatusFollowsSpec` (`Spec => []StatusNeverAheadOfSpec`) and
`NothingForgotten` (`Spec => []NoForgottenPlan`), for any versions and plans, any
number of users' writes and any number of faults.

Neither property is inductive. What the controller is about to write depends on a
copy in memory, which depends on the cache; so the invariant `IInv` follows the
data through the three copies:

- `CacheInv`: a fresh cache is the stored object.
- `StoredInv`: the UID of the scheduled execution occurs in the status of no other
  plan, a finished plan is not scheduled in the normal phase, and a status that is
  terminal for the scheduled UID has a terminal spec.
- `MemoryInv`: before the spec write, a fresh copy is based on the stored object
  (same version and deletion, and same plan and UID, or a cleanup plan just
  scheduled with a UID that nobody has), and its status is not ahead of the spec
  that is about to be stored.
- `StatusInv`: before the status write, the status in memory is not ahead of the
  stored spec. This is where the order of the two writes enters: it follows from
  what the webhook did with the first write.
- `RequeueInv`: a controller at its last write that will not come back by itself
  leaves no unfinished plan, or an event is already on the way.

The proof has one lemma per action, and lemmas on the webhook's answer
(`HandleUpdate`) and on UIDs.

The second part of the module is about the execution of a plan:
`ReadyUnknown` (`Spec => []UnknownWhileRunning`), `PlanNotOverridden`
(`Spec => NoPlanOverride`), `DiagramFollowed` (`Spec => PlanStatusDiagram`) and
`CleanupPrecedesRemoval` (`Spec => CleanupBeforeRemoval`). They extend `IInv`, again by
what the copy in memory has to do with the stored object:

- `ReadyInv`: the Ready condition is Unknown if the plan statuses show the scheduled
  deploy, upgrade or update plan running. The status in memory has to meet the spec that
  is stored first, so before the first write this is said of the copy, and before the
  second of its status and the stored spec. An execution that the copy has finished in the
  spec is finished in its status (`EndSeen`): it is reset by the webhook, and a finished
  status cannot contradict the condition.
- `StatusesInv`: the plan statuses in memory are one move along the diagram away from
  the stored ones (`Moves`), what has a UID was started (`Started`), and a completed
  cleanup plan and the finalizer exclude each other. A resource that is being deleted
  has the finalizer, as the last write without it removes it.
- `CleanupInv`: only a deleted instance has the cleanup plan scheduled, and once it has
  begun, it stays scheduled; a copy without the finalizer has completed the plan
  (`DropsFinalizer`).

`StepKinds` sorts the steps once for all three: users' writes, quiet steps, the two ways
to prepare a copy, and the two writes. `AdmittedPlan` says what the webhook's answer
may do to the scheduled plan.

`CleanupPrecedesRemoval` assumes `CleanupNotTriggered`: no parameter of a version
triggers the cleanup plan. The code does not check that, and with such a parameter the
plan runs in a live instance, which then loses the finalizer (section 4,
`CleanupOnlyWhenDeleting`). The versions in `MCInstanceLifecycle` satisfy it.

### `WorkflowEngineProofs`

`EngineKeepsOrder` (`Spec => KeepsOrder`, the refinement of `PlanOrder`),
`CompleteMeansAllParts` (`CompleteOnAllLevels`), `FatalErrorIsTold`
(`FatalErrorOnAllLevels`) and `ProgressKept` (`ProgressIsKept`), for plans of any size
and any strategies, and any number of executions, failures and lost statuses.

They assume `Regular`: names occur once among the phases of a plan, the steps of a
phase and the tasks of a step, and plans are not edited (`MaxEdits = 0`). The code
checks neither. It looks statuses up by name and keeps the steps and tasks that are left
by name, so that of two steps with one name the second is taken for finished when the
first is, and the status of an edited plan can be of neither plan. The `engine` run has
the same condition; `engine_ends` shows that such plans still come to an end.

The invariant has a part for each thing a pass relies on:

- `StoredInv`, `PassInv`: what is stored and what a pass returns has the form of the
  plan and is consistent on its levels (`Told`); a pass began with the stored status of
  its execution, or with none, and has kept what was finished there.
- `PhasesCounted`: `phasesLeft` is the number of phases to come exactly if all phases
  before were finished, and greater otherwise (`Counted`). In a serial plan a phase is
  visited only if all before it are finished.
- `StepsCounted`, `TasksCounted`: a step or task that is not left was finished or done.
- `DoneInv`: what a status of the scheduled execution calls finished is in the history
  `done`.

The properties about levels are consequences. For the refinement every step of a pass
of the scheduled execution is mapped to `Start` or `Stop`, storing its status to
`Complete`, `Fail` or nothing, and `Trigger` to `Again`; a pass of an earlier execution
does nothing there, since its status is refused. That the predecessors of a step are
in `done` follows from the counters through `DoneInv`. One lemma for each way to change a
status (`SetPlan`, `SetPhase`, `SetStep`) keeps nested records out of the rest.

### `PipeTaskProofs`

`PipeSafe` (the inductive invariant of the pipes), `FilesOfOnePod` (`Spec =>
[]ArtifactsOfOnePod`), `PlanSafe` (the inductive invariant of the objects),
`PlanConverges` (`Spec => []Converged`) and `PodsKept` (`Spec => OnlyNeededChanges`), for
any plans, resources and parameters, and any number of executions, failed calls, lost
passes and changes by others.

They assume that no other task of the plan writes the pod or the artifacts of a pipe.
Their names consist of those of plan, phase, step and task (`PipePodName`,
`PipeArtifactName`), but only of the letters and digits in them: of two steps `step-1` and
`step1`, the pipes may overwrite the files of each other. The code does not check that.

The first invariant, `IInv`, follows the files:

- `ObjectsInv`: a pod that is ready has finished its init container, and a pod has a
  number.
- `CopyInv`: while files are copied, the pod under the name is the one that was ready, or
  there is none: only a task that applies it could make a new one. So the copies have
  one number, or are failures, and then an error is remembered.
- `ArtifactsInv`: what is rendered has that number, and so has what is written of it. A
  patch computed from a cache that is behind may leave the old content; it counts as
  doubtful, like an object that others have touched.
- `PassInv` and `KeptInv`: what was written stays. `Passed` are the tasks that the pass
  has completed, or the stored status when there is none; later tasks of the pass write
  other objects, a pass that is repeated starts at a step that is not complete, and
  nothing is complete in a status of an earlier execution.

There is one lemma for each thing that steps do: a move within a task (`MoveKeeps`), its
end (`FinishKeeps`), the begin and the end of a pass (`EngineKeeps`), a write
(`WriteKeeps`), and a change by others (`OthersKeep`); `Stays` is what they owe the files.

The second one, `PlanInv`, follows an object from its rendering to the end of the plan.
`Converged` is about completed steps, so it says nothing about the pass that gets there,
and about what an object was before; these parts do:

- `Annotated`: the annotation with the last applied configuration agrees with the object
  in what others do not set (`extra`, `hash`), unless it was written from a cache that
  was behind; it has no field that is not rendered. This is what makes the three-way merge
  remove what is not rendered any more, and leave what is not KUDO's (`MergedFields`).
- `Own`: an object that nobody else has touched since it was written is KUDO's.
- `RenderedInv`: what a task has rendered, and what it knows of the dependencies (`Looked`):
  the content that they have now. One exception remains: a dependency that an earlier
  plan was deleting may have gone since, unless no task after this one manages it
  (`LastNow`). What is written of an Apply task is as rendered (`AsWritten`), and rolled
  out if everything so far is healthy.
- `FitsInv`: what a passed task applied or deleted, and no later task manages, is as
  intended, its hash included. A running task writes only what it manages itself
  (`WrittenLater`), so that this stays (`FitsFirmStay`).
- `FirmInv`: a config map whose tasks are all through is not about to disappear. Without
  that, a hash that was right when its step was completed would not stay right.
- `ValuesInv`: what is completed was rendered with the present parameters.

A step owes the objects that it does not write `Quiet`: one that counts afterwards has
counted before, and nothing that KUDO sets has changed. Again there is a lemma for each
kind of step (`WriteLeaves`, `FinishLeaves`, `TurnLeaves`, `EngineLeaves`,
`OthersLeave`). TLC checked `PlanInv`, but for `Typed`,
on the instance of `tasks` before it was proved. `OnlyNeededChanges`
follows for each step: only a patch or an edit by others changes fields, and a patch
sets a hash that differs only where `Looked` finds another content.

### `DependencyResolverProofs`

`ResolutionComplete`, `RefusalJustified`, `TasksPinned`, `EachFoundOnce`, `WalkAdvances`,
`WalkBounded` and `TypeCorrect`, for any number of packages with task lists of any length. The
invariant says what the walk has achieved: every package in the list is needed
(`Needed`); a vertex has at most one frame (`OneFrame`), so that a vertex without one
has been passed entirely; every task that its frame has passed is resolved, has its
edge and is pinned (`Walked`); edges are dependencies (`EdgesReal`); and the graph
has no cycle until the walk stops for one (`Verdict`). At the end nothing is left on
the stack: the list is closed under dependencies and therefore all that is
reachable, and a set of packages that lived on itself would be a set of vertices on
cycles.

`WalkAdvances` (`NeverAgain`) is the safety part of the walk's end: what is behind it grows
with every step that is no error. Each frame after such a step was waiting below the top, is the
parent's, one task further, or is that of a new package (`FramesAfter`), and none is
beyond the end of its tasks (`FramesInRange`). `WalkBounded` bounds what can be left behind by
the number of packages and the longest list of tasks, as no package is in the list twice. That
the computation takes its steps, which `WalkEnds` adds, is fairness.

### `InstanceClientsProofs`

Of `InstanceParameters`: `AlwaysValid` (`ParametersValid`), `StaysPinned` (`ImmutablePinned`), `StaysUpToDate`
(`IdleIsUpToDate`), `NeverReplaced` (`ImmutableNotReplaced`), `NamedTriggersScheduled`
(`NamedTriggerScheduled`) and `TypeCorrect`, for any versions, definitions and values.

The invariant adds to the properties that the stored map passed validation against the
stored version (`StoredValid`), from which `ValidIsEffective` derives what templates
see (allowed values, none where none is required, and the empty string only where the
Instance itself gives it, `EmptyGiven`), and that a stored execution is never terminal (`NotTerminal`): otherwise the
reset of a finished plan could follow a user's write and an Instance would become idle
without having been executed. `AdmittedPlan` says what an admitted write leaves when it
leaves no plan (no upgrade, nothing triggered), `NothingChanged` that parameters which
trigger nothing and lose no undefined entry are the same.

`NamedTriggersScheduled` needs no more than the types, but all of the webhook's answer:
a parameter with a trigger of its own that changed puts that plan among the triggered
ones (`NamedIsTriggered`), and what is triggered is refused when it is more than one
plan, else scheduled (`TriggeredIsScheduled`), where one plan is a question of
cardinality and so of the plans being finitely many.

Of `InstanceClients`: `ClientsAreUsers` (`SpecClients => Spec`): the steps of task and CLI are steps of the users
of `InstanceParameters`, so all of its theorems hold for them. `TaskWaitsForChild`
(`TaskDoneMeansApplied`) follows from these invariants and from `CInv`, which says what
the task has seen: what it wrote is stored with a plan, or the values have been
executed. `ReportsOwnExecution` (`ReportedIsExecuted`) has `CommandInv` for the command's
way (`Untouched`, `Sent`, `Started`, `Ended`): from the patch on, the scheduled UID is new to
the statuses that the command remembers, until the status of its end shows it. Both rest on
typed statuses with UIDs that never come back.

### `KudoInstallProofs`

`InstallSafe` (the inductive invariant), `OperatorsAreKnown` (`Spec => []OperatorsKnown`),
`DependenciesAreFirst` (`Spec => []DependenciesFirst`) and `NamedVersionsAreThere`
(`Spec => []DependenciesNamed`, if no two packages differ in the app version only), for any
packages, clients, commands and interruptions. A command computes its list in one state and creates the
objects in later ones, while others create theirs. What it still has to do is therefore
in the invariant as an order (`Ordered`): a version comes after its operator or the
operator is there already (`OperatorBefore`), the version of the command itself after
those it is pinned to (`NeedsBefore`), and the others are versions that something needs
(`VersionsNeeded`). Objects only appear, so others can only help, and the next object
leaves the list as it enters the cluster. Of a pinned reference it has to be known that a
version with this very key exists: the version in the cluster may be another
object, made of a package with other references, but not of another key (`Stored`,
`UniqueKeys`). When a version counts as installed, all that is known is that its operator
version is: of the same key, or with another app version (`ThereOrShadowed`). `NamesPackages`
says that every key in question is that of a package, so that with `OneAppVersion` the second
case does not occur, which is what `NamedVersionsAreThere` adds.

That the list has this order when it is made is a fact about the walk
(`WalkClosed`): everything that the package or something found refers to is found, unless
it cannot be resolved, which refuses the command. The walk is defined by recursion on
the number of its steps; that there is a function which makes them (`WalkDefined`) and that
each keeps `Closed` are inductions. What a reference stands for is a `CHOOSE` of
the newest version; it exists as a finite set has a maximum in a total order
(`FiniteMaximum`).

### `KudoInitProofs`

`ManagersBehindWebhook` (`ManagerBehindWebhook`) and `InstallationsComplete`
(`InstalledIsComplete`), for any namespaces, versions, flags and
number of commands, faults and edits.

The first. The invariant adds where a command is: once
its list has passed the call for the webhook, the webhook is there or its namespace is
`unguarded`, as `NoCertificates` passes the call without it (`WebhookFirst`), and
when an upgrade comes to its third call, the manager has gone (`ManagerGoneFirst`). That this
is enough is a fact about the lists, `CallOrder`: before every creation of the manager
there is a call for the webhook, after its deletion, which is the third call of an
upgrade and nowhere else.

The second is an action property: the step that reports the success of an installation
leaves everything that its flags ask for. `Effect` says what each call leaves behind,
and `Effective` that the effects of all calls so far are still there, as long as no user
has changed the cluster (`Undisturbed`). They are, for three reasons. A call takes back only
what `Undoes` it, and those calls come first (`RightAfter`, `CommandCalls`). The cluster
takes nothing back: the namespace is not being terminated when the command starts
(`Admitted`) and the manager is not being deleted after it was created. And the
webhook that is found there is the command's own (`WebhookOwn`), as an upgrade has deleted
that of others. The calls that `NoCertificates` passes over are those for the webhook and its
secret (`PassedOver`, `SecretFollows`), so that no other effect is missing. At the last call all effects are those of a complete installation
(`EndEffective`).

### `PackageEditingProofs`

`Editing` (the inductive invariant), `PackageKept` (`Spec => NothingLost`) and
`PackageRuns` (`Spec => []CreatedRuns`), for any names, answers, edits by hand, templates of any
depth, and any number of commands and faults.

The invariant says that the files on the disk and what an asking command knows have
the types of the Go structs (`Typed`), that `operator.yaml` is never there without
`params.yaml`, and that the plan that is asked for was not there when the command
began (`NewPlan`): `AddPlan` puts its plan over whatever is there then, so without this it
could replace a plan that the command has seen.

`PackageKept` has one lemma for each way to change the files: `Touched` (EnsureResource),
`WithTask`, `WithPlan`, `WithParameter` and filled-in resources. Parameters are the delicate
part: the file is read with defaults filled in and written so, and reading it again has
to give the same list (`DefaultsOnce`, `ParametersKept`).

`PackageRuns` needs the types only. If the path of the directory does not occur in a name, the
archive is the package (`ArchiveIsPackage`); a verified package converts
(`VerifiedConverts`); and `VerifiedRuns` puts the verifiers together: tasks of plans exist
and build, their templates exist and parse, and what a template looks up is known,
either because the verifier's walk has found it, for any values of the parameters, or because
the template was rendered with the default values. What is left are the three gaps of
section 4, which `TaskRuns` names: a parameter or pipe that the walk does not see, a pipe that
it sees but that only other values than the defaults reach, and a pipe of another plan.

The names of `Text` are a constant, not `STRING`: the provers cannot tell that a
literal is a string.

### Only model-checked

Liveness (`PlanIsFinished`, `DeletionEnds`, `PlanEnds`, `WalkEnds`, `RetriedInstallEnds`,
`UpgradeRepairs`) is out of reach of the prover, as is everything with ENABLED. Every other property
of a passing run is stated by a theorem.

## 6. What is left

Theorems: what is left of `KeepsOrder` for plans with repeated names; of the retries of
`kudo install` and `kudo init` and the end of a plan, bounds like `WalkBounded`.

Modules: the diagnostics and test commands; the merge of two indices; the deletion
of a child instance together with its parent.

`KudoInit` runs one `kudo init` at a time, and its flags have one version: what the CLI
was built with, or `--version` in its place.

In `InstanceLifecycle`, finalizers of others (foreground deletion) are not modelled:
with one, a deleted instance without a cleanup plan stays while a plan is scheduled.

Not modelled: the languages of templates and YAML beyond what `PackageFiles` needs,
compression, certificates, output for people (plan status, history, search, lists),
diagnostics bundles and the test harness, generated clients and deep copies, URLs and
caches of repositories, and the controllers for Operator and OperatorVersion, which only
log. `PROJECT.json` lists them as components, and the hazards that no property covers
with a note.
