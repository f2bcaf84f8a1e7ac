------------------------------ MODULE RunDriver -----------------------------
(***************************************************************************)
(* One run, driven step by step (orchestration/executor.py, steps.py,      *)
(* escalator.py, failure_policy.py, plans.py) by workers whose drives may  *)
(* overlap, against the systems it acts on: the ticket system, the         *)
(* resource manager, the workflow engine and the legacy runner.            *)
(*                                                                         *)
(* RunStore leaves open what a drive does between loading and saving; this *)
(* module fills that in, one action per provider call, and implements it.  *)
(* A provider call may raise without having happened, or after it          *)
(* happened (the answer is lost); a worker may die between any two calls.  *)
(***************************************************************************)
EXTENDS Naturals, Sequences, FiniteSets

CONSTANTS
    Workers,       \* the worker loops
    Requests,      \* which kinds of run may be triggered (a subset of Kinds)
    MaxRetries,    \* the run's max_retries
    LeaseCovers,   \* TRUE: no date passes while a worker drives the run
    Faulty,        \* the providers whose calls may raise
    MaxPolls,      \* bound: the budget of an attempt is over after so many polls
    MaxTickets,    \* bound: tickets ordered for the run
    MaxWakes,      \* bound: callbacks that wake the run
    MaxCrashes,    \* bound: worker crashes
    MaxFaults,     \* bound: provider calls that raise
    MaxDbFaults    \* bound: database calls that raise

Kinds     == {"AUTOMATION", "LEGACY", "CREATE", "UPDATE", "DELETE"}
Providers == {"ticket", "resource", "engine", "legacy"}

ASSUME DriverAssumption ==
    /\ Requests \subseteq Kinds
    /\ Faulty \subseteq Providers
    /\ LeaseCovers \in BOOLEAN
    /\ {MaxPolls, MaxTickets} \subseteq Nat \ {0}
    /\ {MaxRetries, MaxWakes, MaxCrashes, MaxFaults, MaxDbFaults} \subseteq Nat

VARIABLES
    request,   \* what was asked for: a member of Kinds, or "none" before the trigger
    row,       \* the workflow_runs row
    me,        \* me[w]: worker w's program point, error, order, save path and private copy
    ext,       \* the external systems
    overdue,   \* the budget of the attempt the row is on is over
    found,     \* a callback has looked the run up and is about to wake it
    wakes, crashes, faults, dbFaults

vars == <<request, row, me, ext, overdue, found, wakes, crashes, faults, dbFaults>>

-----------------------------------------------------------------------------
(* Plans and policy. *)

\* RUN_PLANS.
Plan ==
    CASE request = "AUTOMATION" -> <<"RUN_ENGINE", "CLOSE_TICKET">>
      [] request = "LEGACY"     -> <<"SUBMIT_LEGACY">>
      [] OTHER -> <<"CREATE_TICKET", "CONFIGURE_RESOURCE", "AWAIT_APPROVAL",
                    "VALIDATE_RESOURCE", "RUN_ENGINE", "FINALIZE_RESOURCE", "CLOSE_TICKET">>

Position(step) == CHOOSE i \in DOMAIN Plan : Plan[i] = step

HasResource == request \in {"CREATE", "UPDATE", "DELETE"}

\* FAILURE_POLICIES, with the errors that carry no kind.
Retryable(err) == err \notin {"VALIDATION", "INFRA_PRECHECK"}

OpensIncident(err) == err \notin {"VALIDATION", "INFRA_PRECHECK"}

\* OPERATION_STATES, IN_FLIGHT_STATES.
OperationState ==
    CASE request = "CREATE" -> "PROVISIONING"
      [] request = "UPDATE" -> "UPDATING"
      [] OTHER -> "DELETING"
InFlightStates == {"PROVISIONING", "UPDATING", "DELETING"}

-----------------------------------------------------------------------------
(* State. *)

Active   == {"PENDING", "RUNNING"}
Terminal == {"COMPLETED", "FAILED", "REJECTED"}

\* Engine runs are keyed by attempt: attempt n (from 0) has the id n + 1, and 0
\* is no engine run. One id more than the code should ever use is kept.
EngineIds == 1..(MaxRetries + 2)

\* Tickets are numbered in the order they are ordered; 0 is no ticket.
TicketIds == 1..MaxTickets

\* RunState: the idempotency markers, the engine run, what the engine reported,
\* and the attempts of the current step. clock stands for attempt_started_at: 0
\* if it is None, and otherwise how often the attempt was saved to be polled.
NewState(kind) ==
    [ticket |-> IF kind = "AUTOMATION" THEN 1 ELSE 0, configured |-> FALSE, finalized |-> FALSE,
     closed |-> FALSE, submitted |-> FALSE, engine |-> 0, failure |-> "none",
     vendor |-> "given", output |-> FALSE, attempts |-> 0, clock |-> 0]

Blank == [status |-> "ABSENT", date |-> "null", version |-> 1, step |-> "none",
          st |-> NewState("none")]

Idle == [pc |-> "idle", err |-> "none", order |-> 0, quiet |-> FALSE, run |-> Blank]

\* A record lives under the vendor id the run was given (the run id for a
\* CREATE) or under the one the engine provisioned.
Init ==
    /\ request = "none"
    /\ row = Blank
    /\ me = [w \in Workers |-> Idle]
    /\ ext = [ticket |-> [t \in TicketIds |-> "none"],
              approval |-> [t \in TicketIds |-> "pending"], tagged |-> {},
              record |-> [given |-> "absent", real |-> "absent"],
              engine |-> [k \in EngineIds |-> "none"],
              incidents |-> 0, docs |-> 0, resolved |-> 0, handovers |-> 0]
    /\ overdue = FALSE
    /\ found = FALSE
    /\ wakes = 0
    /\ crashes = 0
    /\ faults = 0
    /\ dbFaults = 0

\* WorkflowRunService.trigger / trigger_legacy. An automation run brings its
\* ticket; an update or delete names a record that exists.
Trigger(kind) ==
    /\ request = "none"
    /\ request' = kind
    /\ row' = [Blank EXCEPT !.status = "PENDING", !.date = "due", !.st = NewState(kind)]
    /\ ext' = [ext EXCEPT
                 !.ticket[1] = IF kind = "AUTOMATION" THEN "open" ELSE "none",
                 !.record.given = IF kind \in {"UPDATE", "DELETE"} THEN "READY" ELSE "absent"]
    /\ UNCHANGED <<me, overdue, found, wakes, crashes, faults, dbFaults>>

-----------------------------------------------------------------------------
(* The moves of a drive. Each sets me[w] (and nothing else). *)

Run(w) == me[w].run

At(w, step) == me[w].pc = "step" /\ Run(w).step = step

Goto(w, pc, run) == me' = [me EXCEPT ![w].pc = pc, ![w].run = run]

\* The step returned True: forget its attempts and its clock and go on to the
\* next one at once, without saving; after the last one the run is COMPLETED.
Advance(w, run) ==
    LET done == [run EXCEPT !.st.attempts = 0, !.st.clock = 0]
        i    == Position(run.step)
    IN  IF i < Len(Plan)
        THEN Goto(w, "step", [done EXCEPT !.step = Plan[i + 1]])
        ELSE Goto(w, "save", [done EXCEPT !.status = "COMPLETED", !.step = "none",
                                          !.date = "null"])

\* Mutant: every poll starts the clock of its attempt anew.
PollAfresh(w, run) == Goto(w, "save", [run EXCEPT !.date = "future", !.st.clock = 0])
\* The step returned False: save and poll later, on the same attempt's clock.
Poll(w, run) == Goto(w, "save", [run EXCEPT !.date = "future", !.st.clock = @ + 1])

\* reset_for_retry: only RUN_ENGINE has something to clear.
ResetForRetry(run) ==
    IF run.step = "RUN_ENGINE"
    THEN [run EXCEPT !.st.engine = 0, !.st.failure = "none", !.st.output = FALSE]
    ELSE run

\* Mutant: a failure that opens no incident is not escalated at all.
IncidentsOnly(err) == IF OpensIncident(err) THEN "incident" ELSE "release"
\* Where escalate() begins for this error: unclassified errors and TASK
\* failures open an incident, the other kinds only close the ticket.
EscalationPoint(err) == IF OpensIncident(err) THEN "incident" ELSE "closing"

\* Mutant: one retry too many.
OneRetryMore == MaxRetries + 1
RetryLimit == MaxRetries

\* Mutant: the run is escalated but not marked.
FailedUnmarked(run) == [run EXCEPT !.date = "future"]
Failed(run) == [run EXCEPT !.status = "FAILED", !.date = "null"]

\* _on_step_error: retry later, or end the run FAILED and escalate.
StepError(w, run, err) ==
    LET failed == [run EXCEPT !.st.attempts = @ + 1]
    IN  IF Retryable(err) /\ failed.st.attempts <= RetryLimit
        THEN Goto(w, "save", [ResetForRetry(failed) EXCEPT !.st.clock = 0,
                                                           !.date = "future"])
        ELSE me' = [me EXCEPT ![w].pc = EscalationPoint(err), ![w].err = err,
                              ![w].run = Failed(failed)]

\* Mutant: a rejection is handled as a step that raised.
RejectEscalated(w) ==
    me' = [me EXCEPT ![w].pc = "incident", ![w].err = "unclassified",
                     ![w].run.status = "REJECTED", ![w].run.date = "null"]

\* Mutant: a rejection does not release the resource.
RejectUnreleased(w) ==
    Goto(w, "save", [Run(w) EXCEPT !.status = "REJECTED", !.date = "null"])

\* _reject: the run ends REJECTED; only its resource is released.
RejectRun(w) ==
    Goto(w, "release", [Run(w) EXCEPT !.status = "REJECTED", !.date = "null"])

-----------------------------------------------------------------------------
(* Provider calls. *)

Raises(provider) ==
    /\ provider \in Faulty
    /\ faults < MaxFaults
    /\ faults' = faults + 1

others == <<request, row, overdue, found, wakes, crashes, dbFaults>>

\* A side-effecting call made by a step: it takes the world to effect and the
\* step is done with run, or it raises, having happened or not.
Call(w, provider, effect, run) ==
    \/ ext' = effect /\ Advance(w, run) /\ UNCHANGED faults
    \/ /\ Raises(provider)
       /\ ext' \in {ext, effect}
       /\ StepError(w, Run(w), "unclassified")

\* A call that only reads and raises.
ReadRaises(w, provider) ==
    /\ Raises(provider)
    /\ StepError(w, Run(w), "unclassified")
    /\ UNCHANGED ext

\* A marker says the step was done before.
Skip(w) == Advance(w, Run(w)) /\ UNCHANGED <<ext, faults>>

-----------------------------------------------------------------------------
(* Steps. *)

\* The step's wall-clock budget was over when the run was loaded. Only an
\* attempt that was saved can be: the steps after it start afresh.
DeadlineExceeded(w) ==
    /\ me[w].pc = "overdue"
    /\ StepError(w, Run(w), "unclassified")
    /\ UNCHANGED <<ext, faults, others>>

\* Mutant: the ticket system is not asked for a ticket with the run's key.
NoneOrdered == {}
AlreadyOrdered == ext.tagged

\* CreateTicketStep: open_ticket looks for a ticket tagged with the run's key,
CreateTicket(w) ==
    /\ At(w, "CREATE_TICKET")
    /\ \/ Run(w).st.ticket # 0 /\ Skip(w)
       \/ /\ Run(w).st.ticket = 0
          /\ \/ /\ \E t \in AlreadyOrdered : Advance(w, [Run(w) EXCEPT !.st.ticket = t])
                /\ UNCHANGED <<ext, faults>>
             \/ /\ AlreadyOrdered = {}
                /\ Goto(w, "order", Run(w))
                /\ UNCHANGED <<ext, faults>>
             \/ ReadRaises(w, "ticket")
    /\ UNCHANGED others

\* orders one if there is none,
OrderTicket(w) ==
    /\ me[w].pc = "order"
    /\ \E t \in TicketIds :
          /\ ext.ticket[t] = "none"
          /\ \A s \in 1..(t - 1) : ext.ticket[s] # "none"
          /\ LET ordered == [ext EXCEPT !.ticket[t] = "open"]
             IN  \/ /\ ext' = ordered
                    /\ me' = [me EXCEPT ![w].pc = "tag", ![w].order = t]
                    /\ UNCHANGED faults
                 \/ /\ Raises("ticket")
                    /\ ext' \in {ext, ordered}
                    /\ StepError(w, Run(w), "unclassified")
    /\ UNCHANGED others

\* and tags it with the key, without a look at what the PATCH answers.
TagTicket(w) ==
    LET t == me[w].order
    IN  /\ me[w].pc = "tag"
        /\ \/ Call(w, "ticket", [ext EXCEPT !.tagged = @ \cup {t}],
                   [Run(w) EXCEPT !.st.ticket = t])
           \/ /\ Raises("ticket")
              /\ Advance(w, [Run(w) EXCEPT !.st.ticket = t])
              /\ UNCHANGED ext
        /\ UNCHANGED others

\* The record the run acts on is the one under its current vendor id.
RecordOf(run) == ext.record[run.st.vendor]

SetRecord(run, state) == [ext EXCEPT !.record[run.st.vendor] = state]

\* delete_resource: a record that is already gone is fine.
RecordDeleted(run) == SetRecord(run, "absent")

\* ResourceNotFoundError out of update_resource.
NotFound(w) ==
    /\ RecordOf(Run(w)) = "absent"
    /\ StepError(w, Run(w), "unclassified")
    /\ UNCHANGED <<ext, faults>>

\* create_resource is keyed: it inserts nothing while the run's record exists.
Created == IF \A v \in DOMAIN ext.record : ext.record[v] = "absent"
           THEN [ext EXCEPT !.record.given = "PROVISIONING"]
           ELSE ext

\* ConfigureResourceStep.
ConfigureResource(w) ==
    LET configured == [Run(w) EXCEPT !.st.configured = TRUE]
    IN  /\ At(w, "CONFIGURE_RESOURCE")
        /\ \/ Run(w).st.configured /\ Skip(w)
           \/ /\ ~Run(w).st.configured
              /\ request = "CREATE"
              /\ Call(w, "resource", Created, configured)
           \/ /\ ~Run(w).st.configured
              /\ request # "CREATE"
              /\ \/ NotFound(w)
                 \/ /\ RecordOf(Run(w)) # "absent"
                    /\ Call(w, "resource", SetRecord(Run(w), OperationState), configured)
        /\ UNCHANGED others

\* Mutant: whatever is not a rejection lets the run pass.
NotRejected(t) == ext.approval[t] # "rejected"
Approved(t) == ext.approval[t] = "approved"

\* AwaitApprovalStep.
AwaitApproval(w) ==
    /\ At(w, "AWAIT_APPROVAL")
    /\ \/ Approved(Run(w).st.ticket) /\ Skip(w)
       \/ /\ ext.approval[Run(w).st.ticket] = "rejected"
          /\ RejectRun(w)
          /\ UNCHANGED <<ext, faults>>
       \/ /\ ext.approval[Run(w).st.ticket] = "pending"
          /\ Poll(w, Run(w))
          /\ UNCHANGED <<ext, faults>>
       \/ ReadRaises(w, "ticket")
    /\ UNCHANGED others

\* ValidateResourceStep: capacity is a moving target, so any answer may come.
ValidateResource(w) ==
    /\ At(w, "VALIDATE_RESOURCE")
    /\ \/ Skip(w)
       \/ StepError(w, Run(w), "INFRA_PRECHECK") /\ UNCHANGED <<ext, faults>>
       \/ ReadRaises(w, "resource")
    /\ UNCHANGED others

\* engine_run_key: attempt-scoped.
EngineRunKey(run) == run.st.attempts + 1

\* trigger_workflow: a second trigger with the same key attaches to the run it
\* already started (409).
Triggered(key) == [ext EXCEPT !.engine[key] = IF @ = "none" THEN "running" ELSE @]

\* RunEngineStep, first half: trigger and come back later.
TriggerEngine(w) ==
    LET key == EngineRunKey(Run(w))
    IN  /\ At(w, "RUN_ENGINE")
        /\ Run(w).st.engine = 0
        /\ \/ /\ ext' = Triggered(key)
              /\ Poll(w, [Run(w) EXCEPT !.st.engine = key])
              /\ UNCHANGED faults
           \/ /\ Raises("engine")
              /\ ext' \in {ext, Triggered(key)}
              /\ StepError(w, Run(w), "unclassified")
        /\ UNCHANGED others

\* How an engine run ends: in success, having published the vendor id it
\* provisioned or not; or in failure. VALIDATION stands for INFRA_PRECHECK too
\* (the policy rows are the same); a TASK failure may be another group's.
EngineSuccesses == {"success", "published"}
EngineFailures  == {"VALIDATION", "TASK", "FOREIGN_TASK"}

\* The kind StepFailure carries.
FailureKind(failure) == IF failure = "VALIDATION" THEN "VALIDATION" ELSE "TASK"

\* Mutant: whatever is not a failure is a success.
NotFailed(status) == status \notin EngineFailures
Succeeded(status) == status \in EngineSuccesses

\* RunEngineStep, second half: poll. On success the published vendor id is read
\* if it can be; on failure the detail is read if it can be.
PollEngine(w) ==
    LET run    == Run(w)
        status == ext.engine[run.st.engine]
    IN  /\ At(w, "RUN_ENGINE")
        /\ run.st.engine # 0
        /\ \/ status = "running" /\ Poll(w, run) /\ UNCHANGED faults
           \/ /\ Succeeded(status)
              /\ \/ /\ Advance(w, [run EXCEPT !.st.output = HasResource /\ status = "published"])
                    /\ UNCHANGED faults
                 \/ HasResource /\ Raises("engine") /\ Advance(w, run)
           \/ /\ status \in EngineFailures
              /\ \/ /\ StepError(w, [run EXCEPT !.st.failure = status], FailureKind(status))
                    /\ UNCHANGED faults
                 \/ Raises("engine") /\ StepError(w, run, "TASK")
           \/ Raises("engine") /\ StepError(w, run, "unclassified")
        /\ UNCHANGED <<ext, others>>

\* The PATCH of a finalized CREATE/UPDATE: READY, under the engine's id if it
\* reported one.
Finalized(run) ==
    IF run.st.output /\ run.st.vendor = "given"
    THEN [ext EXCEPT !.record = [given |-> "absent", real |-> "READY"]]
    ELSE SetRecord(run, "READY")

\* FinalizeResourceStep for a CREATE/UPDATE.
FinalizeResource(w) ==
    /\ At(w, "FINALIZE_RESOURCE")
    /\ \/ Run(w).st.finalized /\ Skip(w)
       \/ /\ ~Run(w).st.finalized
          /\ request # "DELETE"
          /\ \/ NotFound(w)
             \/ /\ RecordOf(Run(w)) # "absent"
                /\ Call(w, "resource", Finalized(Run(w)),
                        [Run(w) EXCEPT !.st.finalized = TRUE,
                                       !.st.vendor = IF Run(w).st.output THEN "real" ELSE @])
    /\ UNCHANGED others

\* Mutant: a record that is already gone is an error.
MarkDeletedStrict(w) ==
    /\ At(w, "FINALIZE_RESOURCE")
    /\ ~Run(w).st.finalized
    /\ request = "DELETE"
    /\ \/ NotFound(w)
       \/ /\ RecordOf(Run(w)) # "absent"
          /\ ext' = SetRecord(Run(w), "DELETED")
          /\ Goto(w, "delete", Run(w))
          /\ UNCHANGED faults
    /\ UNCHANGED others

\* FinalizeResourceStep for a DELETE: mark the record DELETED (one that is
\* already gone is fine), then delete it.
MarkDeleted(w) ==
    LET marked == IF RecordOf(Run(w)) = "absent" THEN ext ELSE SetRecord(Run(w), "DELETED")
    IN  /\ At(w, "FINALIZE_RESOURCE")
        /\ ~Run(w).st.finalized
        /\ request = "DELETE"
        /\ \/ ext' = marked /\ Goto(w, "delete", Run(w)) /\ UNCHANGED faults
           \/ /\ Raises("resource")
              /\ ext' \in {ext, marked}
              /\ StepError(w, Run(w), "unclassified")
        /\ UNCHANGED others

DeleteRecord(w) ==
    /\ me[w].pc = "delete"
    /\ Call(w, "resource", RecordDeleted(Run(w)), [Run(w) EXCEPT !.st.finalized = TRUE])
    /\ UNCHANGED others

\* close_ticket.
TicketClosed(t, outcome) == [ext EXCEPT !.ticket[t] = outcome]

\* CloseTicketStep.
CloseTicket(w) ==
    /\ At(w, "CLOSE_TICKET")
    /\ \/ Run(w).st.closed /\ Skip(w)
       \/ /\ ~Run(w).st.closed
          /\ Call(w, "ticket", TicketClosed(Run(w).st.ticket, "closed"),
                  [Run(w) EXCEPT !.st.closed = TRUE])
    /\ UNCHANGED others

\* submit: a runner that does not dedup takes every handover.
HandedOver == [ext EXCEPT !.handovers = @ + 1]

\* Mutant: the handover is not marked, and the run comes back to it.
SubmitAndPoll(w) ==
    /\ At(w, "SUBMIT_LEGACY")
    /\ \/ Run(w).st.submitted /\ Skip(w)
       \/ /\ ~Run(w).st.submitted
          /\ ext' = HandedOver
          /\ Poll(w, Run(w))
          /\ UNCHANGED faults
    /\ UNCHANGED others

\* SubmitLegacyStep.
SubmitLegacy(w) ==
    /\ At(w, "SUBMIT_LEGACY")
    /\ \/ Run(w).st.submitted /\ Skip(w)
       \/ /\ ~Run(w).st.submitted
          /\ Call(w, "legacy", HandedOver,
                  [Run(w) EXCEPT !.st.submitted = TRUE])
    /\ UNCHANGED others

-----------------------------------------------------------------------------
(* Escalation: every call is guarded, none stops the run from being saved. *)

\* A guarded call: it has its effect and goes on to next, or it raises, having
\* happened or not, and escalation goes on to rescue.
Guarded(w, provider, effect, next, rescue) ==
    \/ ext' = effect /\ me' = [me EXCEPT ![w].pc = next] /\ UNCHANGED faults
    \/ /\ Raises(provider)
       /\ ext' \in {ext, effect}
       /\ me' = [me EXCEPT ![w].pc = rescue]

\* open_incident carries no key: every call opens one.
IncidentOpened == [ext EXCEPT !.incidents = @ + 1]

\* An unclassified error then only annotates the ticket; a failure another
\* group owns is documented for the default team.
AfterIncident(w) ==
    IF me[w].err = "unclassified" THEN "release"
    ELSE IF Run(w).st.failure = "FOREIGN_TASK" THEN "document" ELSE "closing"

\* An incident to the responsible group. If that fails, nothing more is tried
\* on the ticket's side.
OpenIncident(w) ==
    /\ me[w].pc = "incident"
    /\ Guarded(w, "ticket", IncidentOpened, AfterIncident(w), "release")
    /\ UNCHANGED others

\* _log_documentation_incident: open ...
LogDocumentationIncident(w) ==
    /\ me[w].pc = "document"
    /\ Guarded(w, "ticket", [ext EXCEPT !.docs = @ + 1], "resolve", "closing")
    /\ UNCHANGED others

\* ... and resolve at once.
ResolveDocumentationIncident(w) ==
    /\ me[w].pc = "resolve"
    /\ Guarded(w, "ticket", [ext EXCEPT !.resolved = @ + 1], "closing", "closing")
    /\ UNCHANGED others

\* _escalate_by_policy ends by closing the ticket, if there is one,
\* unsuccessfully.
CloseUnsuccessful(w) ==
    LET t      == Run(w).st.ticket
        closed == TicketClosed(t, "unsuccessful")
    IN  /\ me[w].pc = "closing"
        /\ \/ t = 0 /\ Goto(w, "release", Run(w)) /\ UNCHANGED <<ext, faults>>
           \/ /\ t # 0
              /\ \/ /\ ext' = closed
                    /\ Goto(w, "release", [Run(w) EXCEPT !.st.closed = TRUE])
                    /\ UNCHANGED faults
                 \/ /\ Raises("ticket")
                    /\ ext' \in {ext, closed}
                    /\ Goto(w, "release", Run(w))
        /\ UNCHANGED others

\* Mutant: a finalized resource counts as in flight.
ConfiguredResource(run) == HasResource /\ run.st.configured
\* _resource_in_flight.
ResourceInFlight(run) == HasResource /\ run.st.configured /\ ~run.st.finalized

\* What _release_resource does to the record: a CREATE's is deleted, another's
\* goes back to READY (one that is gone is a 404, which is swallowed).
Released(run) ==
    IF request = "CREATE" THEN RecordDeleted(run)
    ELSE IF RecordOf(run) = "absent" THEN ext ELSE SetRecord(run, "READY")

ReleaseResource(w) ==
    /\ me[w].pc = "release"
    /\ \/ /\ ~ResourceInFlight(Run(w))
          /\ Goto(w, "save", Run(w))
          /\ UNCHANGED <<ext, faults>>
       \/ /\ ResourceInFlight(Run(w))
          /\ Guarded(w, "resource", Released(Run(w)), "save", "save")
    /\ UNCHANGED others

-----------------------------------------------------------------------------
(* Claiming, loading and saving, as in RunStore. *)

world == <<request, ext, found, faults>>

Claim(w) ==
    /\ me[w].pc = "idle"
    /\ row.date = "due"
    /\ row' = [row EXCEPT !.date = "future"]
    /\ me' = [me EXCEPT ![w].pc = "claimed"]
    /\ UNCHANGED <<world, overdue, wakes, crashes, dbFaults>>

\* The first step of a drive checks the budget of the attempt it resumes.
Late == overdue \/ row.st.clock >= MaxPolls

\* Mutant: a RUNNING run is taken to be somebody else's.
NeverDriven == row.status = "PENDING"
Unfinished == row.status \in Active

\* handle: drop a terminal run; otherwise start driving at the saved step.
Load(w) ==
    /\ me[w].pc = "claimed"
    /\ \/ /\ Unfinished
          /\ Goto(w, IF Late THEN "overdue" ELSE "step",
                  [row EXCEPT !.status = "RUNNING", !.step = IF @ = "none" THEN Plan[1] ELSE @])
       \/ /\ ~Unfinished
          /\ me' = [me EXCEPT ![w] = Idle]
    /\ UNCHANGED <<row, overdue, world, wakes, crashes, dbFaults>>

\* Mutant: last writer wins.
AnyVersion(w) == TRUE
VersionMatches(w) == row.version = Run(w).version

\* A save that starts a new attempt's clock, or stops it, ends its being overdue.
Write(w) ==
    /\ VersionMatches(w)
    /\ row' = [Run(w) EXCEPT !.version = @ + 1]
    /\ overdue' = (overdue /\ Run(w).st.clock > 1)

Save(w) ==
    /\ me[w].pc = "save"
    /\ \/ Write(w)
       \/ ~VersionMatches(w) /\ UNCHANGED <<row, overdue>>
    /\ me' = [me EXCEPT ![w] = Idle]
    /\ UNCHANGED <<world, wakes, crashes, dbFaults>>

\* Mutant: escalate, but save the run as it was.
SaveRaisedUnmarked(w) ==
    me' = [me EXCEPT ![w].quiet = TRUE, ![w].pc = "incident", ![w].err = "unclassified"]

\* _crash: a run already FAILED has been escalated and is only saved again; any
\* other is marked FAILED and escalated, then saved quietly.
SaveRaised(w) ==
    IF Run(w).status = "FAILED"
    THEN me' = [me EXCEPT ![w].quiet = TRUE]
    ELSE me' = [me EXCEPT ![w].quiet = TRUE, ![w].pc = "incident", ![w].err = "unclassified",
                          ![w].run = Failed(Run(w))]

\* save() raises before or after the commit. _save_quietly swallows it.
SaveRaises(w) ==
    /\ me[w].pc = "save"
    /\ dbFaults < MaxDbFaults
    /\ dbFaults' = dbFaults + 1
    /\ Write(w) \/ UNCHANGED <<row, overdue>>
    /\ \/ ~me[w].quiet /\ SaveRaised(w)
       \/ me[w].quiet /\ me' = [me EXCEPT ![w] = Idle]
    /\ UNCHANGED <<world, wakes, crashes>>

Crash(w) ==
    /\ me[w].pc # "idle"
    /\ crashes < MaxCrashes
    /\ crashes' = crashes + 1
    /\ me' = [me EXCEPT ![w] = Idle]
    /\ UNCHANGED <<row, overdue, world, wakes, dbFaults>>

-----------------------------------------------------------------------------
(* The environment. *)

Elapse ==
    /\ row.date = "future"
    /\ LeaseCovers => \A w \in Workers : me[w].pc = "idle"
    /\ row' = [row EXCEPT !.date = "due"]
    /\ UNCHANGED <<me, overdue, world, wakes, crashes, dbFaults>>

\* The wall-clock budget of the attempt under way runs out.
Overrun ==
    /\ row.st.clock > 0
    /\ ~overdue
    /\ overdue' = TRUE
    /\ UNCHANGED <<row, me, world, wakes, crashes, dbFaults>>

\* A human decides on a ticket.
DecideApproval(t, answer) ==
    /\ HasResource
    /\ ext.ticket[t] = "open"
    /\ ext.approval[t] = "pending"
    /\ ext' = [ext EXCEPT !.approval[t] = answer]
    /\ UNCHANGED <<row, me, request, overdue, found, wakes, crashes, faults, dbFaults>>

\* The engine finishes a run it started.
FinishEngine(k) ==
    /\ ext.engine[k] = "running"
    /\ \E end \in EngineSuccesses \cup EngineFailures : ext' = [ext EXCEPT !.engine[k] = end]
    /\ UNCHANGED <<row, me, request, overdue, found, wakes, crashes, faults, dbFaults>>

\* A callback about the ticket or about an engine run, on time, late or twice:
\* it looks the run up by what is persisted (one that finds none does nothing)
\* ...
FindRun ==
    /\ ~found
    /\ wakes < MaxWakes
    /\ \/ row.st.ticket # 0 /\ ext.approval[row.st.ticket] # "pending"
       \/ row.st.engine # 0 /\ ext.engine[row.st.engine] # "running"
    /\ found' = TRUE
    /\ UNCHANGED <<row, me, request, ext, overdue, wakes, crashes, faults, dbFaults>>

\* ... and wakes it, if it is not over by then.
WakeRun ==
    /\ found
    /\ found' = FALSE
    /\ \/ /\ row.status \in Active
          /\ row' = [row EXCEPT !.date = "due"]
          /\ wakes' = wakes + 1
       \/ row.status \notin Active /\ UNCHANGED <<row, wakes>>
    /\ UNCHANGED <<me, request, ext, overdue, crashes, faults, dbFaults>>

-----------------------------------------------------------------------------
ExecuteStep(w) ==
    \/ DeadlineExceeded(w)
    \/ CreateTicket(w)
    \/ OrderTicket(w)
    \/ TagTicket(w)
    \/ ConfigureResource(w)
    \/ AwaitApproval(w)
    \/ ValidateResource(w)
    \/ TriggerEngine(w)
    \/ PollEngine(w)
    \/ FinalizeResource(w)
    \/ MarkDeleted(w)
    \/ DeleteRecord(w)
    \/ CloseTicket(w)
    \/ SubmitLegacy(w)

Escalate(w) ==
    \/ OpenIncident(w)
    \/ LogDocumentationIncident(w)
    \/ ResolveDocumentationIncident(w)
    \/ CloseUnsuccessful(w)
    \/ ReleaseResource(w)

Work(w) == Claim(w) \/ Load(w) \/ ExecuteStep(w) \/ Escalate(w) \/ Save(w)

Next ==
    \/ \E kind \in Requests : Trigger(kind)
    \/ \E w \in Workers : Work(w) \/ SaveRaises(w) \/ Crash(w)
    \/ \E t \in TicketIds, answer \in {"approved", "rejected"} : DecideApproval(t, answer)
    \/ \E k \in EngineIds : FinishEngine(k)
    \/ Elapse
    \/ Overrun
    \/ FindRun
    \/ WakeRun

Spec == Init /\ [][Next]_vars

(* Worker loops keep running and time passes. Nobody has to answer. *)
Fairness ==
    /\ \A w \in Workers : WF_vars(Work(w))
    /\ WF_vars(Elapse)

FairSpec == Spec /\ Fairness

-----------------------------------------------------------------------------
(* Properties that hold however drives overlap. *)

Steps == {"CREATE_TICKET", "CONFIGURE_RESOURCE", "AWAIT_APPROVAL", "VALIDATE_RESOURCE",
          "RUN_ENGINE", "FINALIZE_RESOURCE", "CLOSE_TICKET", "SUBMIT_LEGACY"}

StateType ==
    [ticket : {0} \cup TicketIds, configured : BOOLEAN, finalized : BOOLEAN, closed : BOOLEAN,
     submitted : BOOLEAN, engine : {0} \cup EngineIds, failure : {"none"} \cup EngineFailures,
     vendor : {"given", "real"}, output : BOOLEAN,
     attempts : 0..(MaxRetries + 1), clock : 0..MaxPolls]

RunType ==
    [status : {"ABSENT"} \cup Active \cup Terminal, date : {"null", "future", "due"},
     version : Nat \ {0}, step : Steps \cup {"none"}, st : StateType]

WorkerType ==
    [pc : {"idle", "claimed", "overdue", "step", "order", "tag", "delete", "incident", "document",
           "resolve", "closing", "release", "save"},
     err : {"none", "unclassified", "VALIDATION", "INFRA_PRECHECK", "TASK"},
     order : {0} \cup TicketIds, quiet : BOOLEAN, run : RunType]

ExtType ==
    [ticket : [TicketIds -> {"none", "open", "closed", "unsuccessful"}],
     approval : [TicketIds -> {"pending", "approved", "rejected"}],
     tagged : SUBSET TicketIds,
     record : [{"given", "real"} -> {"absent", "READY", "DELETED"} \cup InFlightStates],
     engine : [EngineIds -> {"none", "running"} \cup EngineSuccesses \cup EngineFailures],
     incidents : Nat, docs : Nat, resolved : Nat, handovers : Nat]

TypeOK ==
    /\ request \in Kinds \cup {"none"}
    /\ row \in RunType
    /\ me \in [Workers -> WorkerType]
    /\ ext \in ExtType
    /\ {overdue, found} \subseteq BOOLEAN
    /\ {wakes, crashes, faults, dbFaults} \subseteq Nat

Launched == {k \in EngineIds : ext.engine[k] # "none"}

\* No engine run of a resource request is ever started, by any drive, without
\* some ticket of the request having been approved (AwaitApprovalStep sits
\* before RunEngineStep in the plan, and a re-drive resumes at the saved step).
ApprovedBeforeEngine ==
    HasResource /\ Launched # {} => \E t \in TicketIds : ext.approval[t] = "approved"

\* A request costs at most max_retries + 1 engine runs, whatever is re-driven,
\* duplicated or retried: the key is scoped to the persisted attempt.
LaunchesBounded == Cardinality(Launched) <= MaxRetries + 1

\* A legacy runner that does not dedup is handed a request once, and once more
\* at most for every worker that died and every call that failed on the way
\* ("a crash in the window ... would then re-drive into a second submission").
HandoversBounded == ext.handovers <= 1 + crashes + faults + dbFaults

\* A run is COMPLETED only when some engine run of it really succeeded.
CompletedMeansProvisioned ==
    row.status = "COMPLETED" /\ request # "LEGACY"
        => \E k \in Launched : ext.engine[k] \in EngineSuccesses

\* Saved progress is never taken back: the step never moves back in the plan
\* and no marker that makes a re-drive skip a side effect is cleared by the
\* save of a drive that started from older state.
ProgressIsKept ==
    [][\/ row.status = "ABSENT"
       \/ /\ row.st.ticket # 0 => row'.st.ticket = row.st.ticket
          /\ row.st.configured => row'.st.configured
          /\ row.st.finalized => row'.st.finalized
          /\ row.st.submitted => row'.st.submitted
          /\ row.step # "none" /\ row'.step # "none" => Position(row.step) <= Position(row'.step)
      ]_vars

\* Every triggered run ends, even if no approver ever answers and no engine run
\* ever ends: each attempt has a wall-clock budget, attempts are bounded by
\* max_retries, and a crashed drive is resumed when its lease runs out.
EventuallySettled == row.status \in Active ~> row.status \in Terminal

\* The view of RunStore: what a drive does before it decides is "driving",
\* escalation and release belong to "saving" or, in _crash, to "quiet".
StorePoint(m) ==
    IF m.pc \in {"idle", "claimed"} THEN m.pc
    ELSE IF m.pc \in {"overdue", "step", "order", "tag", "delete"} THEN "driving"
    ELSE IF m.quiet THEN "quiet" ELSE "saving"

Shown(run) == [status |-> run.status, date |-> run.date, version |-> run.version]

RowView   == [r \in {"run"} |-> Shown(row)]
AheadView == [r \in {"run"} |-> {}]
PointView == [w \in Workers |-> StorePoint(me[w])]
HeldView  == [w \in Workers |-> IF me[w].pc = "idle" THEN "nobody" ELSE "run"]
CopyView  == [w \in Workers |-> Shown(me[w].run)]

\* How far a run has come: its step, the attempts of the step, and the polls of
\* the attempt. Every save but the last one takes a run further.
StepNumber(run) == IF run.step = "none" THEN 1 ELSE Position(run.step)

Rank(run) ==
    ((StepNumber(run) - 1) * (MaxRetries + 1) + run.st.attempts) * (MaxPolls + 1) + run.st.clock

\* What Rank stays below, for the longest plan, and one save that ends the run.
VersionBound == 7 * (MaxRetries + 1) * (MaxPolls + 1) + 1

Store == INSTANCE RunStore WITH
    Runs <- {"run"}, NoRun <- "nobody", MaxVersion <- VersionBound, MaxFaults <- MaxDbFaults,
    row <- RowView, ahead <- AheadView, pc <- PointView, held <- HeldView, copy <- CopyView,
    faults <- dbFaults

\* Refinement: step by step, the driver is one of the drives RunStore allows,
\* so what is proved of RunStore holds of it.
ImplementsStore == Store!Spec

\* A run is saved boundedly often, however its drives overlap and are repeated:
\* polls count against the clock of their attempt, which survives them, attempts
\* against max_retries, and the plan only goes forward.
SavesBounded == row.version <= VersionBound

-----------------------------------------------------------------------------
(* The inductive invariant behind the properties above. *)

Driving    == {"overdue", "step", "order", "tag", "delete"}
Escalating == {"incident", "document", "resolve", "closing", "release"}
Busy       == Driving \cup Escalating \cup {"save"}

PlanSteps == {Plan[i] : i \in DOMAIN Plan}

SomeApproved == \E t \in TicketIds : ext.approval[t] = "approved"
SomeSuccess  == \E k \in EngineIds : ext.engine[k] \in EngineSuccesses

\* What having come to its step says about a run, and about the world.
RunSound(run) ==
    /\ run.step \in PlanSteps \cup {"none"}
    /\ run.status \in Active => run.st.attempts <= MaxRetries
    /\ HasResource /\ run.step \notin {"none", "CREATE_TICKET"} => run.st.ticket # 0
    /\ HasResource /\ run.step \in {"VALIDATE_RESOURCE", "RUN_ENGINE", "FINALIZE_RESOURCE",
                                    "CLOSE_TICKET"} => SomeApproved
    /\ run.step \in {"FINALIZE_RESOURCE", "CLOSE_TICKET"} => SomeSuccess
    /\ run.status = "COMPLETED" /\ request # "LEGACY" => SomeSuccess

\* new has all the progress of old.
Keeps(old, new) ==
    /\ old.st.ticket # 0 => new.st.ticket = old.st.ticket
    /\ old.st.configured => new.st.configured
    /\ old.st.finalized => new.st.finalized
    /\ old.st.submitted => new.st.submitted
    /\ old.step # "none" /\ new.step # "none" => Position(old.step) <= Position(new.step)

\* Where a worker is and what its copy looks like there.
PointSound(m) ==
    /\ m.pc = "idle" => m = Idle
    /\ m.pc = "claimed" => m = [Idle EXCEPT !.pc = "claimed"]
    /\ m.pc \in Driving => m.run.status = "RUNNING" /\ m.run.step # "none" /\ ~m.quiet
    /\ m.pc \in Driving \ {"overdue"} => m.run.st.clock < MaxPolls
    /\ m.pc \in {"order", "tag"} => m.run.step = "CREATE_TICKET" /\ m.run.st.ticket = 0
    /\ m.pc = "tag" => m.order # 0
    /\ m.pc = "delete" => m.run.step = "FINALIZE_RESOURCE"
    /\ m.pc \in Escalating => m.run.status \in {"FAILED", "REJECTED"} /\ m.run.date = "null"
    /\ m.pc = "save" => \/ m.run.status = "RUNNING" /\ m.run.date = "future" /\ ~m.quiet
                        \/ m.run.status \in Terminal /\ m.run.date = "null"
    /\ m.quiet => m.run.status = "FAILED"

\* What the copy of a busy worker has to do with the row: it is never newer, and
\* while it is as new the run is not over and the copy has all its progress.
Tracks(m) ==
    /\ m.run.version <= row.version
    /\ m.run.version = row.version => row.status \in Active /\ Keeps(row, m.run)

\* Every save that is not the last takes a run further.
Ranked(m) ==
    /\ m.run.version < VersionBound
    /\ m.pc \in Driving => m.run.version <= Rank(m.run) + 1
    /\ m.pc = "save" /\ m.run.status = "RUNNING" => m.run.version <= Rank(m.run)

WorkerSound(m) ==
    /\ PointSound(m)
    /\ m.pc \in Busy => RunSound(m.run) /\ Tracks(m) /\ Ranked(m)

RowSound ==
    /\ row.status = "ABSENT" <=> request = "none"
    /\ row.status = "ABSENT" => row = Blank /\ \A w \in Workers : me[w] = Idle
    /\ RunSound(row)
    /\ row.version <= VersionBound
    /\ row.status \in Active => row.version <= Rank(row) + 1

EngineSound ==
    /\ \A k \in Launched : k <= MaxRetries + 1
    /\ request = "none" => Launched = {}
    /\ ApprovedBeforeEngine

\* However drives overlap, crash and are repeated, the row, the private copies of
\* all drives and the world stay in step: a copy is never newer than the row, has
\* all its progress while it is as new, stands at a step whose preconditions the
\* world meets, and has counted every poll and attempt on the way there.
DriverInv ==
    /\ TypeOK
    /\ RowSound
    /\ \A w \in Workers : WorkerSound(me[w])
    /\ EngineSound
    /\ found => wakes < MaxWakes

-----------------------------------------------------------------------------
(* Properties of runs whose drives do not overlap. *)

AllRecords(states) == \A v \in DOMAIN ext.record : ext.record[v] \in states

\* A COMPLETED run has done all it was asked to: the ticket is closed as a
\* success and the record stands where the operation leaves it, also after
\* crashes and lost answers on the way.
CompletedMeansDone ==
    row.status = "COMPLETED" =>
        /\ request # "LEGACY" => ext.ticket[row.st.ticket] = "closed"
        /\ request \in {"CREATE", "UPDATE"} =>
              ext.record[row.st.vendor] = "READY" /\ AllRecords({"absent", "READY"})
        /\ request = "DELETE" => AllRecords({"absent"})
        /\ request = "LEGACY" => ext.handovers >= 1

\* When a run is over no record keeps advertising it, however it ended: the
\* escalator releases what configure put in flight, whatever else fails.
NothingLeftInFlight == row.status \in Terminal => AllRecords({"absent", "READY"})

\* One run, one incident, however many of its steps fail and are retried.
OneIncident == ext.incidents <= 1

\* The group on call is paged once for a run, and once more at most for every
\* worker that died and every save() that raised (open_incident has no key).
IncidentsBounded == ext.incidents <= 1 + crashes + dbFaults

\* Nobody is paged for a run that completed or that an approver rejected.
NoIncidentUnlessFailed == row.status \in {"COMPLETED", "REJECTED"} => ext.incidents = 0

\* "Wait for the RITM to be approved before any provisioning happens": a run
\* that ends REJECTED has started no engine run.
RejectedUntouched == row.status = "REJECTED" => Launched = {}

\* Re-driving is safe: the steps that can be repeated after a crash fail a run
\* only when some provider or database call really failed.
RedriveIsSafe ==
    row.status = "FAILED" /\ faults = 0 /\ dbFaults = 0
        => row.step \in {"AWAIT_APPROVAL", "VALIDATE_RESOURCE", "RUN_ENGINE"}

\* A request refused as invalid is told so and nobody is paged: a run that
\* failed without an incident has a ticket closed as unsuccessful.
FailureIsTold ==
    row.status = "FAILED" =>
        \/ ext.incidents > 0
        \/ row.st.ticket # 0 /\ ext.ticket[row.st.ticket] = "unsuccessful"
=============================================================================
