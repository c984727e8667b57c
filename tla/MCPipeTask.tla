----------------------------- MODULE MCPipeTask -----------------------------
(* A config map, a workload that mounts it, a job, and a pipe with two files. *)
EXTENDS PipeTask

MCResources == {"config", "web", "once", "pod", "key", "crt", "custom"}
MCKind == [config |-> "plain", web |-> "rollout", once |-> "job", pod |-> "pod",
           key |-> "plain", crt |-> "plain", custom |-> "simple"]
MCDependsOn == [r \in MCResources |->
                   IF r = "web" THEN {"config", "key"} ELSE {}]
MCKnown == MCResources \ {"custom"}

\* A rendered extra field, and a toggle that is on or off.
MCValues == {[data |-> "a", extra |-> "x", on |-> "true"],
             [data |-> "a", extra |-> Absent, on |-> "false"]}

Apply(rs)  == [kind |-> "Apply", resources |-> rs]
Delete(rs) == [kind |-> "Delete", resources |-> rs]
Toggle(rs, ok) == [kind |-> "Toggle", defined |-> ok, resources |-> rs]
Dummy(result)  == [kind |-> "Dummy", result |-> result]
Pipe(a, t)     == [kind |-> "Pipe", pod |-> "pod", template |-> t, artifacts |-> a,
                   wellFormed |-> TRUE]

Pod == [containers |-> 0, initContainers |-> 1, restartPolicy |-> "",
        emptyDirs |-> {"shared"}, mounts |-> {"shared"}, fileDirs |-> {"shared"}]

\* A workload with the config map it mounts, at once or behind a toggle, applied or
\* deleted after it, or with the file of a pipe; a pipe with two files; a job that is run and removed;
\* tasks that cannot succeed.
MCPlans == {
    << <<Apply({"config", "web"})>> >>,
    << <<Toggle({"config"}, TRUE), Dummy("done")>>, <<Apply({"web"})>> >>,
    << <<Apply({"web"})>>, <<Apply({"config"})>> >>,
    << <<Apply({"web"})>>, <<Delete({"config"})>> >>,
    << <<Pipe([k |-> "key"], Pod)>>, <<Apply({"web"})>> >>,
    << <<Pipe([k |-> "key", c |-> "crt"], Pod)>> >>,
    << <<Apply({"once"})>>, <<Delete({"once", "custom"})>> >>,
    << <<Toggle({"config"}, TRUE), Apply({"custom"})>> >>,
    << <<Toggle({"config"}, FALSE)>> >>,
    << <<Pipe([k |-> "key"], [Pod EXCEPT !.mounts = {"other"}])>> >>,
    << <<Pipe([k |-> "key"], [Pod EXCEPT !.fileDirs = {"other"}])>> >>,
    << <<Pipe([k |-> "key"], [Pod EXCEPT !.restartPolicy = "Always"])>> >>,
    << <<Apply({})>> >>
    }
=============================================================================
