-------------------------- MODULE FailureReporting --------------------------
(***************************************************************************)
(* From a failed engine run to the team that is paged: what a DAG          *)
(* publishes (airflow/dags/cloudio_callbacks.py), how the adapter reads it *)
(* over the shared session (query_run_status, get_output and get_failure   *)
(* of adapters/airflow.py), what the engine step and the escalator make of *)
(* it, and how the ticket adapter finds the group to assign                *)
(* (adapters/servicenow.py).                                               *)
(*                                                                         *)
(* A reporter is a drive of a run in its engine step; the other callers    *)
(* only use the session. RunDriver has what happens before, around and     *)
(* after; here a run starts with its engine step and ends with its         *)
(* incident. A group's sys_id is the group, and groups are not removed.    *)
(***************************************************************************)
EXTENDS EngineSession, Sequences

CONSTANTS
    Reporters,    \* the callers that drive a run
    Groups,       \* names of teams
    Default,      \* settings.default_incident_team, of the escalator and of the adapter
    Seeded,       \* the groups of the configured map
    Missing,      \* the groups the ticket system does not have at first
    Dags,         \* what an engine run may end in and leave behind
    None,
    MaxRetries    \* run.max_retries

\* XCom entries. A probe of a task that did not push the key answers 404.
Flags == {"absent", "null", "true", "false"}
Maps == [is : {"absent", "junk", "map"}, task : Nat, group : Groups \cup {None}]
Errors == [name : {"ValidationException", "TaskException", "other"}, group : Groups \cup {None}]

\* A task instance: its state, what a rollback controller pushed on it, and
\* the error it raised with the group and the fate of its failure callback.
Tasks == [failed : BOOLEAN, flow_failed : Flags, failed_tasks : Maps, error : Errors,
          fallback : Groups \cup {None}, callback : {"ran", "died", "text", "ill_typed"}]

\* What get_failure returns.
EngineFailure == [kind : {"VALIDATION", "TASK"}, group : Groups \cup {None}]

ASSUME ReportAssumption ==
    /\ Reporters \subseteq Callers
    /\ Default \in Groups
    /\ Seeded \subseteq Groups
    /\ Missing \subseteq Groups
    /\ None \notin Groups
    /\ None \notin Dags
    /\ None \notin EngineFailure
    /\ Dags \subseteq [state : {"success", "failed"}, tasks : Seq(Tasks)]
    /\ \A d \in Dags : \A t \in DOMAIN d.tasks :
          d.tasks[t].failed_tasks.is = "map" => d.tasks[t].failed_tasks.task \in DOMAIN d.tasks
    /\ MaxRetries \in Nat

VARIABLES
    run,        \* run[c]: the run c drives
    groups,     \* the groups the ticket system has
    memo,       \* the names in self._groups of the ticket adapter
    incidents   \* the incidents that were opened

vars == <<session, run, groups, memo, incidents>>

\* What RunEngineStep and get_failure wait for.
Calls == {"trigger", "status", "list", "probe", "instances", "exception"}
\* What open_incident waits for.
Routes == {"assign", "fallback", "post"}
Stages == {"new", "waiting", "succeeded", "closed", "ended"} \cup Calls \cup Routes

\* dag: the engine run, None while it is running; key, i: the output get_output
\* looks for and the task it probes; task, group: what _first_failed_task
\* returned; failure: st.engine_failure; asked: the group an incident is asked
\* for, doc: it is the documentation one. lost, seen are history: no detail
\* of this attempt could be read; the groups that resolved when the incident
\* was asked for.
Runs == [stage : Stages, attempts : 0 .. MaxRetries + 1, dag : Dags \cup {None},
         key : {"flow_failed", "failed_tasks"}, i : Nat, task : Nat,
         group : Groups \cup {None}, failure : EngineFailure \cup {None},
         asked : Groups \cup {None}, doc : BOOLEAN, to : Groups \cup {None},
         classified : BOOLEAN, lost : BOOLEAN, seen : SUBSET Groups]

NewRun == [stage |-> "new", attempts |-> 0, dag |-> None, key |-> "flow_failed", i |-> 0,
           task |-> 0, group |-> None, failure |-> None, asked |-> None, doc |-> FALSE,
           to |-> None, classified |-> FALSE, lost |-> FALSE, seen |-> {}]

Init ==
    /\ SessionInit
    /\ run = [c \in Reporters |-> NewRun]
    /\ groups = Groups \ Missing
    /\ memo = Seeded
    /\ incidents = {}

-----------------------------------------------------------------------------
(* What a DAG leaves behind. *)

\* exception_callback: the payload names the error's own group, or the
\* callback's.
ErrorGroup(t) == IF t.error.group # None THEN t.error.group ELSE t.fallback

\* _FAILURE_KINDS: an unknown name is a TASK failure.
KindOf(name) == IF name = "ValidationException" THEN "VALIDATION" ELSE "TASK"

\* The flow_failed XCom, stringified, is one of _TRUTHY.
Truthy(flag) == flag = "true"

FailedInstances(d) == {t \in DOMAIN d.tasks : d.tasks[t].failed}

First(S) == CHOOSE t \in S : \A u \in S : t <= u

-----------------------------------------------------------------------------
(* The engine step. *)

\* The run goes on; a next call to the engine begins at once.
Proceed(c, r) ==
    /\ Take(c, IF r.stage \in Calls THEN Begun ELSE AtRest)
    /\ run' = [run EXCEPT ![c] = r]
    /\ UNCHANGED <<groups, memo, incidents>>

Answered(c, stage) == run[c].stage = stage /\ req[c].pc = "answered"

Broken(c) == req[c].pc \in {"refused", "raised"}

\* _group_sys_id finds these.
Resolvable == memo \cup groups

\* open_incident is asked for a group.
Asking(r, group) == [r EXCEPT !.stage = "assign", !.asked = group, !.seen = Resolvable]

\* Mutant: the detail of the attempt before is kept.
ForgetEngineRun(r) == [r EXCEPT !.dag = None, !.lost = FALSE]
\* reset_for_retry.
ResetForRetry(r) == [r EXCEPT !.dag = None, !.failure = None, !.lost = FALSE]

\* _on_step_error and, out of retries, escalate: by policy if the failure is
\* classified, to the default team if not.
StepError(r, kind, classified) ==
    LET failed == [r EXCEPT !.attempts = @ + 1, !.classified = classified,
                            !.key = "flow_failed", !.i = 0, !.task = 0, !.group = None]
    IN  IF kind = "VALIDATION"
        THEN [failed EXCEPT !.stage = "closed"]
        ELSE IF failed.attempts <= MaxRetries
        THEN [ResetForRetry(failed) EXCEPT !.stage = "new"]
        ELSE Asking(failed, IF classified /\ r.failure # None /\ r.failure.group # None
                            THEN r.failure.group
                            ELSE Default)

\* The engine failed, and get_failure returned what r.failure holds.
EngineFailed(r) == StepError(r, IF r.failure = None THEN "TASK" ELSE r.failure.kind, TRUE)

\* get_failure raised: the step goes on with what it has.
Undetailed(r) == EngineFailed([r EXCEPT !.lost = TRUE])

\* A drive reaches the engine step, triggers, and polls when it is due again.
BeginCall(c) ==
    /\ run[c].stage \in {"new", "waiting"}
    /\ Request(c)
    /\ run' = [run EXCEPT ![c].stage = IF @ = "new" THEN "trigger" ELSE "status"]
    /\ UNCHANGED <<groups, memo, incidents>>

\* trigger_workflow returns.
TriggerWorkflow(c) ==
    /\ Answered(c, "trigger")
    /\ Proceed(c, [run[c] EXCEPT !.stage = "waiting"])

\* get_output begins.
Looking(r, key) == [r EXCEPT !.stage = "list", !.key = key]

\* query_run_status: the state of the DAG run. A success has to be confirmed.
QueryRunStatus(c) ==
    /\ Answered(c, "status")
    /\ LET d == run[c].dag
       IN  \/ d = None /\ Proceed(c, [run[c] EXCEPT !.stage = "waiting"])
           \/ d # None /\ d.state = "success" /\ Proceed(c, Looking(run[c], "flow_failed"))
           \/ d # None /\ d.state = "failed" /\ Proceed(c, Looking(run[c], "failed_tasks"))

\* What get_output found decides: _flow_failed for the verdict, then
\* _first_failed_task for the task to report.
Found(r, t) ==
    IF r.key = "flow_failed"
    THEN IF Truthy(t.flow_failed) THEN Looking(r, "failed_tasks") ELSE [r EXCEPT !.stage = "succeeded"]
    ELSE IF t.failed_tasks.is = "map"
    THEN [r EXCEPT !.stage = "exception", !.task = t.failed_tasks.task, !.group = t.failed_tasks.group]
    ELSE [r EXCEPT !.stage = "instances"]

NotFound(r) ==
    [r EXCEPT !.stage = IF r.key = "flow_failed" THEN "succeeded" ELSE "instances"]

Published(t, key) ==
    IF key = "flow_failed" THEN t.flow_failed \notin {"absent", "null"} ELSE t.failed_tasks.is # "absent"

\* get_output: the tasks of the run, then a probe of each until one has the key.
Probing(r, i) ==
    IF i > Len(r.dag.tasks) THEN NotFound(r) ELSE [r EXCEPT !.stage = "probe", !.i = i]

ListTasks(c) ==
    /\ Answered(c, "list")
    /\ Proceed(c, Probing(run[c], 1))

ProbeTask(c) ==
    /\ Answered(c, "probe")
    /\ LET t == run[c].dag.tasks[run[c].i]
       IN  Proceed(c, IF Published(t, run[c].key) THEN Found(run[c], t) ELSE Probing(run[c], run[c].i + 1))

\* _first_failed_task without a controller's map. No failed instance: a bare
\* EngineFailure.
FailedTaskInstances(c) ==
    /\ Answered(c, "instances")
    /\ LET failed == FailedInstances(run[c].dag)
       IN  Proceed(c, IF failed = {}
                      THEN EngineFailed([run[c] EXCEPT !.failure = [kind |-> "TASK", group |-> None]])
                      ELSE [run[c] EXCEPT !.stage = "exception", !.task = First(failed), !.group = None])

\* _failure_from_xcom and the rest of get_failure. The error's own group wins.
FailureOf(t, group) ==
    IF t.callback = "ran"
    THEN [kind |-> KindOf(t.error.name), group |-> IF ErrorGroup(t) # None THEN ErrorGroup(t) ELSE group]
    ELSE [kind |-> "TASK", group |-> group]

\* A payload with a field of the wrong type makes EngineFailure raise.
ReadException(c) ==
    /\ Answered(c, "exception")
    /\ LET t == run[c].dag.tasks[run[c].task]
       IN  Proceed(c, IF t.callback = "ill_typed"
                      THEN Undetailed(run[c])
                      ELSE EngineFailed([run[c] EXCEPT !.failure = FailureOf(t, run[c].group)]))

\* The stages of query_run_status; the other calls are made by get_failure.
ForVerdict(r) == r.stage \in {"trigger", "status"} \/ (r.stage \in {"list", "probe"} /\ r.key = "flow_failed")

\* Mutant: a probe that is refused or raises counts as one that answered 404.
SkipProbe(r) ==
    IF r.stage = "probe" THEN Probing(r, r.i + 1)
    ELSE IF ForVerdict(r) THEN StepError([r EXCEPT !.lost = TRUE], "TASK", FALSE) ELSE Undetailed(r)
\* A call failed: without a verdict the step raises, unclassified.
CallFailed(r) ==
    IF ForVerdict(r) THEN StepError([r EXCEPT !.lost = TRUE], "TASK", FALSE) ELSE Undetailed(r)

FailCall(c) ==
    /\ run[c].stage \in Calls
    /\ Broken(c)
    /\ Proceed(c, CallFailed(run[c]))

-----------------------------------------------------------------------------
(* The incident. *)

Ticketing(c, r) ==
    /\ run' = [run EXCEPT ![c] = r]
    /\ UNCHANGED <<session, groups>>

\* _group_sys_id: a name that resolved is memoised, a miss is not.
Memoised(name) == IF name \in groups THEN memo \cup {name} ELSE memo

\* _assignment_group: the group that was asked for, then the default team.
AssignGroup(c) ==
    LET r == run[c]
    IN  /\ r.stage = "assign"
        /\ memo' = Memoised(r.asked)
        /\ Ticketing(c, IF r.asked \in Resolvable THEN [r EXCEPT !.stage = "post", !.to = r.asked]
                        ELSE IF r.asked = Default THEN [r EXCEPT !.stage = "post", !.to = None]
                        ELSE [r EXCEPT !.stage = "fallback"])
        /\ UNCHANGED incidents

AssignDefault(c) ==
    LET r == run[c]
    IN  /\ r.stage = "fallback"
        /\ memo' = Memoised(Default)
        /\ Ticketing(c, [r EXCEPT !.stage = "post", !.to = IF Default \in Resolvable THEN Default ELSE None])
        /\ UNCHANGED incidents

\* Who owns the failure of d: the team its first failed task named, else the
\* one its rollback controller named for it, else the default team. Stated
\* over what the DAG published, not over what was read of it.
ReportedBy(d) == {t \in DOMAIN d.tasks : d.tasks[t].failed_tasks.is # "absent"}
Controlled(d) == ReportedBy(d) # {} /\ d.tasks[First(ReportedBy(d))].failed_tasks.is = "map"
Owner(d) ==
    LET report   == d.tasks[First(ReportedBy(d))].failed_tasks
        culprit  == d.tasks[IF Controlled(d) THEN report.task ELSE First(FailedInstances(d))]
        named    == IF culprit.callback = "ran" THEN ErrorGroup(culprit) ELSE None
        assigned == IF Controlled(d) THEN report.group ELSE None
    IN  IF ~Controlled(d) /\ FailedInstances(d) = {} THEN Default
        ELSE IF named # None THEN named
        ELSE IF assigned # None THEN assigned
        ELSE Default

Due(r) == IF r.doc \/ r.lost THEN Default ELSE Owner(r.dag)

\* The POST of open_incident. The default team gets a documentation incident
\* of a failure that another team owns.
OpenIncident(c) ==
    LET r == run[c]
    IN  /\ r.stage = "post"
        /\ incidents' = incidents \cup {[due |-> Due(r), seen |-> r.seen, to |-> r.to]}
        /\ Ticketing(c, IF r.classified /\ ~r.doc /\ r.asked # Default
                        THEN Asking([r EXCEPT !.doc = TRUE], Default)
                        ELSE [r EXCEPT !.stage = "ended"])
        /\ UNCHANGED memo

\* A call to the ticket system raises; the escalator swallows it.
TicketRaises(c) ==
    /\ run[c].stage \in Routes
    /\ run' = [run EXCEPT ![c].stage = "ended"]
    /\ UNCHANGED <<session, groups, memo, incidents>>

-----------------------------------------------------------------------------
(* The environment. *)

\* An engine run that was triggered ends.
EndDag(c) ==
    /\ run[c].stage \in {"waiting", "status"} /\ run[c].dag = None
    /\ \E d \in Dags : run' = [run EXCEPT ![c].dag = d]
    /\ UNCHANGED <<session, groups, memo, incidents>>

\* Somebody creates a group in the ticket system.
CreateGroup(g) ==
    /\ g \notin groups
    /\ groups' = groups \cup {g}
    /\ UNCHANGED <<session, run, memo, incidents>>

\* A caller whose answers do not matter here.
OtherCall(c) ==
    /\ Request(c) \/ Take(c, AtRest)
    /\ UNCHANGED <<run, groups, memo, incidents>>

\* The answers get_failure and query_run_status wait for.
Engine(c) ==
    \/ BeginCall(c) \/ TriggerWorkflow(c) \/ QueryRunStatus(c)
    \/ ListTasks(c) \/ ProbeTask(c) \/ FailedTaskInstances(c) \/ ReadException(c)
    \/ FailCall(c)

Ticket(c) == AssignGroup(c) \/ AssignDefault(c) \/ OpenIncident(c) \/ TicketRaises(c)

Next ==
    \/ \E c \in Reporters : Engine(c) \/ Ticket(c) \/ EndDag(c)
    \/ \E c \in Callers \ Reporters : OtherCall(c)
    \/ Transport /\ UNCHANGED <<run, groups, memo, incidents>>
    \/ \E g \in Missing : CreateGroup(g)

Spec == Init /\ [][Next]_vars

-----------------------------------------------------------------------------
(* Properties. *)

\* The runs are typed, and the ticket adapter knows no group that neither the
\* ticket system nor the configured map has.
TypeOK ==
    /\ SessionInv
    /\ run \in [Reporters -> Runs]
    /\ groups \subseteq Groups
    /\ memo \subseteq groups \cup Seeded

\* d says that it was rolled back: somebody published a truthy flow_failed and
\* nobody a false one.
RolledBack(d) ==
    /\ \E t \in DOMAIN d.tasks : d.tasks[t].flow_failed = "true"
    /\ \A t \in DOMAIN d.tasks : d.tasks[t].flow_failed # "false"

Fulfilled(d) == d # None /\ d.state = "success" /\ ~RolledBack(d)

(* A run is taken for a success only if its DAG run ended in success and     *)
(* was not rolled back, whatever expires, raises or is refused while the     *)
(* tasks are probed for the controller's verdict (query_run_status).         *)
SuccessIsReal ==
    \A c \in Reporters : run[c].stage = "succeeded" => Fulfilled(run[c].dag)

\* group is passed over: an incident for it goes to another, because it did
\* not resolve when the incident was asked for.
PassedOver(group, to, seen) ==
    /\ group \notin seen
    /\ to \in {Default, None}
    /\ to = None => Default \notin seen

(* An incident is assigned to the team that owns the failure of the last    *)
(* attempt, or to the default team if nothing could be read of it; a team   *)
(* that resolved when the incident was asked for is not passed over, and    *)
(* an incident goes unassigned only if the default team did not resolve     *)
(* either (get_failure, _escalate_by_policy, _assignment_group).            *)
IncidentReachesOwner ==
    \A inc \in incidents : inc.to = inc.due \/ PassedOver(inc.due, inc.to, inc.seen)

\* What is known of a run that asks the engine: a verdict is looked for in a
\* DAG run that ended in success, the tasks before the one that is probed do
\* not have the output, and the task to report is the one the DAG run names.
Reading(r) ==
    /\ r.stage \in {"list", "probe", "instances", "exception"} => r.dag # None
    /\ r.stage \in {"list", "probe"} /\ r.key = "flow_failed" => r.dag.state = "success"
    /\ r.stage = "probe" => /\ r.i \in DOMAIN r.dag.tasks
                            /\ \A j \in 1 .. r.i - 1 : ~Published(r.dag.tasks[j], r.key)
    /\ r.stage = "instances" => ~Controlled(r.dag)
    /\ r.stage = "exception" =>
          IF Controlled(r.dag)
          THEN LET report == r.dag.tasks[First(ReportedBy(r.dag))].failed_tasks
               IN  r.task = report.task /\ r.group = report.group
          ELSE FailedInstances(r.dag) # {} /\ r.task = First(FailedInstances(r.dag)) /\ r.group = None
    /\ r.stage \in Calls \cup {"new", "waiting"} => 
          r.failure = None /\ ~r.lost /\ ~r.doc /\ r.attempts <= MaxRetries

\* What is known of a run whose incident is on its way.
Routing(r) ==
    /\ r.stage \in Routes => r.asked \in Groups /\ r.asked = Due(r)
    /\ r.stage = "fallback" => r.asked \notin r.seen
    /\ r.stage = "post" => r.to = r.asked \/ PassedOver(r.asked, r.to, r.seen)

\* The inductive invariant.
ReportInv ==
    /\ TypeOK
    /\ \A c \in Reporters :
          /\ Reading(run[c])
          /\ Routing(run[c])
          /\ run[c].stage \in Routes => run[c].seen \subseteq Resolvable
    /\ SuccessIsReal
    /\ IncidentReachesOwner
=============================================================================
