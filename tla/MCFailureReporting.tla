------------------------ MODULE MCFailureReporting -------------------------
EXTENDS FailureReporting

CONSTANTS net, ops, dba

MCGroups == {net, ops, dba}
MCSeeded == {dba}
MCMissing == {net, ops}

NoMap == [is |-> "absent", task |-> 0, group |-> None]
NoError == [name |-> "other", group |-> None]
Worked == [failed |-> FALSE, flow_failed |-> "absent", failed_tasks |-> NoMap,
           error |-> NoError, fallback |-> None, callback |-> "died"]

\* A task that failed, and a rollback controller that says so.
Failing(name, group, fallback, callback) ==
    [Worked EXCEPT !.failed = TRUE, !.error = [name |-> name, group |-> group],
                   !.fallback = fallback, !.callback = callback]
Controller(flag, is, task, group) ==
    [Worked EXCEPT !.flow_failed = flag, !.failed_tasks = [is |-> is, task |-> task, group |-> group]]

Ended(state, tasks) == [state |-> state, tasks |-> tasks]

MCDags == {
    Ended("success", <<>>),
    \* A rollback branch that had nothing to undo.
    Ended("success", <<Worked, Controller("false", "absent", 0, None)>>),
    \* Rolled back; the owner is the controller's, the error's, nobody's.
    Ended("success", <<Failing("other", None, None, "ran"), Controller("true", "map", 1, net)>>),
    Ended("success", <<Controller("true", "map", 2, net), Failing("TaskException", dba, ops, "ran")>>),
    Ended("success", <<Worked, Controller("true", "absent", 0, None)>>),
    \* No rollback branch: the error's own group, the callback's, none.
    Ended("failed", <<Worked, Failing("TaskException", None, net, "ran")>>),
    Ended("failed", <<Failing("ValidationException", net, None, "ran")>>),
    Ended("failed", <<Failing("other", net, None, "died")>>),
    \* A map that is empty or no map, an entry that is no payload.
    Ended("failed", <<Controller("null", "junk", 0, None), Failing("TaskException", net, None, "ran")>>),
    Ended("failed", <<Failing("other", None, None, "text"), Controller("true", "map", 1, net)>>),
    Ended("failed", <<Failing("other", None, None, "ill_typed"), Controller("true", "map", 1, net)>>)}
=============================================================================
