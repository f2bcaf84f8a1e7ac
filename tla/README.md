# A TLA+ model of the Cloudio orchestrator

The orchestrator takes a request (provision, change or delete a resource, run an automation, hand
a job to a legacy runner), stores it as a *run*, and drives the run through a plan of steps against
four outside systems: the ticket system (ServiceNow), the resource manager (Project Manager), the
workflow engine (Airflow) and the legacy runner. Several worker loops share one PostgreSQL table;
there is no queue and no scheduler. This directory models that core: what the store promises, how
the loops compete for runs, and what every step and every failure path does to the outside world.

Paths below are relative to `src/src/orchestrator/` unless they begin with `docs/` (`src/docs/`).

## 1. Inventory

| Component | State it keeps | Operations | Talks to |
|---|---|---|---|
| Run store, `adapters/database.py` | one row per run: status, `scheduled_at`, `version`, step, `RunState` JSON | `create`, `get`, `save` (optimistic, under a row lock), `claim_due` (oldest first, `SKIP LOCKED`, pushes the date one lease ahead), `wake`, finders | API, workers, executor |
| Worker loops, `worker.py` | the claimed run id, a stop event | claim, drive, idle, stop | store, executor |
| Executor, `orchestration/executor.py` | a private `WorkflowRun` per drive | `handle`, `_drive`, `_on_step_error`, `_crash`, `_reject`, `_schedule`, `_save`, `_save_quietly` | store, steps, escalator |
| Steps, `orchestration/steps.py`, plans, `plans.py` | markers in `RunState` | create ticket, configure, await approval, validate, run engine, finalize, close ticket, submit legacy | the four providers |
| Failure policy, `failure_policy.py` | none | retry? incident? per failure kind | executor, escalator |
| Escalator, `escalator.py` | markers in `RunState` | incident, documentation incident, close unsuccessful, release the record | tickets, resources |
| Services, `services.py` | the registry of workflows (a table) | `register`, `update`, `trigger`, `trigger_legacy`, callbacks that wake runs | store, registry |
| API, `api.py`, `auth.py` | none | triggers, callbacks, read-only lookups, registry CRUD | services, store |
| Adapters, `adapters/*.py` | a token, a name cache | one HTTP call or a short sequence per port method | outside systems |
| Configuration, wiring, logging | settings | - | - |

What is hard here:

* **Drives overlap.** A claim is a lease in time (300 s) and a callback (`wake`) makes a run due at
  once, whoever is driving it. A drive acts on the providers first and finds out at its `save` that
  another one was faster. Only the version protects the row; nothing but idempotency protects the
  outside world.
* **A drive is saved rarely.** The executor goes from step to step and saves only when it has to
  come back (poll or retry) or when the run is over. A worker that dies takes every marker set since
  the last save with it, and the next drive repeats those steps on a world that has moved.
* **A call that raises may have happened.** This is true of providers and of the database. The
  executor answers a failing save by escalating and saving again.
* **Several runs, one record.** Nothing serialises a creation, updates and a deletion of one record;
  each run writes the record's state as it goes and may move it to another id.
* **One client for all.** Every step of a process shares the engine's token and the ticket system's
  group memo, and reads a failed DAG run in many calls, each of which may be refused or raise.
* **Requests interleave.** A registration is read in one transaction and used in another.
* **Budgets.** Every attempt has a wall-clock budget which is saved with the run and has to survive
  polls and restart with retries. The attempt counter doubles as the engine's idempotency key.

What makes each part correct: rows are never stranded, never resurrected and never overwritten by
older state (store); every run ends (loops, executor); nothing is provisioned before it is approved,
attempts are bounded, saved progress is kept, repeated steps do no harm (steps); a failure reaches
somebody exactly once, reaches the right team, and leaves no record in flight (escalator, adapters);
every run that is accepted can be driven, and is made from what operators registered (services). `PROJECT.json` lists the hazards
line by line with the properties aimed at them.

## 2. Modules

```
RunLifecycle       statuses only: what a run promises to whoever watches it
   ^  implements (proved, and checked)
RunStore           rows, dates, versions, leases, worker loops, crashes, database errors
   ^  implements (proved, and checked)
RunDriver          one run, step by step, against the four providers

RunApi             the registry and the triggers: which runs come into being
   ^  extends
RunLookups         the latest run of a record, one by one and in batches

SharedRecord       several runs on one record of the resource manager

EngineSession      the Airflow client's shared token
   ^  extends, implements (proved)
FailureReporting   from a failed DAG run to the team that is paged
```

`RunStoreProofs`, `RunApiProofs`, `SharedRecordProofs`, `FailureReportingProofs` and, about
`RunDriver`, `RunDriverProofs` (what holds however drives overlap), `RunDriverStepProofs` (action
properties and the refinement), `RunDriverSoleProofs` (what holds while they do not overlap) and
`RunDriverWorldProofs` (what an ended run has done to the world) hold the theorems. The `MC*` modules add symmetry sets and the sets a `.cfg` cannot spell out.

### RunLifecycle
`Trigger`, `Continue`, `Settle`: a run is created `PENDING`, may be `RUNNING` for as long as it
takes, and ends once.

### RunStore
`row[r]` is the persisted row, reduced to status, date and version. Dates are compared with now and
with each other and nothing else, so a date is `null`, `future` or `due`, and `ahead[r]` keeps which
due runs are older than `r` (`ORDER BY scheduled_at`). `pc[w]`, `held[w]` and `copy[w]` are a
loop's program point, the run it claimed and its private `WorkflowRun`.

| Action | Code |
|---|---|
| `Trigger`, `Wake` | `services.py` trigger, `database.py` `wake`: status filter, no version |
| `Claim`, `ClaimAnswerLost` | `claim_due(1, lease)`: status and version take no part; a row locked by a save is passed over |
| `Load`, `LoadRaises` | the beginning of `handle`: `get`, drop a terminal run; `get` is outside the `try` |
| `Reschedule`, `Finish`, `DriveRaises` | what `_drive` may decide on |
| `Save`, `SaveStale`, `SaveRaises` | `save` commits, finds another version, or raises before or after the commit; then `_crash` and `_save_quietly` |
| `Elapse`, `Crash` | time passing; a daemon that dies and is restarted |

`_crash` and escalation in between are part of the points `saving` and `quiet`; `RunDriver` opens
them up.

### RunDriver
One run, so that every provider call can be a step of its own. `request` is the kind of the run,
`row` the whole row with `RunState` in `st`, `me[w]` the program point, pending error and private
copy of a worker, `ext` the outside world: tickets with their approvals and tags, the record under
the vendor id the run was given and under the one the engine provisioned, engine runs by key,
incidents and handovers.

* A side-effecting call is `Call` (in a step) or `Guarded` (in the escalator): it happens, or it
  raises having happened, or it raises not having happened. `Faulty` says which providers may raise.
* `open_ticket` is three calls (look up, order, tag), hence three actions; the answer of the tag is
  not looked at, as in the code. `_finalize_delete` is two.
* `clock` stands for `attempt_started_at`: 0 is `None`, otherwise it counts the polls saved on this
  attempt. The budget is over when the clock says so (`MaxPolls`) or when `Overrun`, the wall
  clock, has decided it; the code compares once, at the first step of a drive, and so does `Load`.
* The engine ends a run in success (having published the id it provisioned, or not), in a
  validation failure, or in a task failure that the default team or another group owns. The infra
  precheck kind has the same policy row as validation and is merged with it where the engine
  reports it.
* `Store` is the refinement mapping: everything before a decision is `driving`, escalation belongs
  to `saving`, or to `quiet` inside `_crash`.
* Not part of the data: ticket texts, parameters, comments, users, teams, vendor names, the values
  of delays.

### RunApi and RunLookups
A request is a coroutine that gives way at every database call, so `call[c]` is what request `c`
has read and not yet written. `workflows` is the registry; `asked` and `overlapped` are history:
everything an operator asked for under an identifier, and the identifiers of which two updates were
under way at once. Nothing keeps updates apart, in the code or here. `runs` are the committed runs, numbered in the order they
are built, which is the order of `created_at`.

| Action | Code |
|---|---|
| `Register` | `services.py` `register`, one insert under the unique identifier |
| `BeginUpdate`, `FinishUpdate` | `database.py` `update`: load the row, then write the columns that differ from what was loaded (`Changed`) |
| `Trigger`, `TriggerLegacy`, `Create` | `trigger`: read the registration, check (`Valid`), build the run (`Built`), insert it in another transaction |
| `Abort` | a statement that raises, or an API process that dies |
| `SaveRecord` | the drive of a CREATE saves the id of the record it made |

`RunLookups` has `_parse_resource_ids`, `find_last_by_resource_id`, `find_last_by_resource_ids` and
the assembly of the batch answer as operators over the committed runs. The two loops are recursive
functions of the number of turns: what is seen, or answered, after `n` parts of the list.

### SharedRecord
`rec` is one record with the vendor id it stands under; `run[r]` is a run reduced to its calls to
the resource manager and to the difference between what is persisted (`key`, `saved`) and what a
worker has in memory (`at`). `Configure`, `Finalize`, `MarkDeleted`, `DeleteRecord` and `Release`
are the calls of `steps.py` and `escalator.py`, with their 404s; `Crash` returns a run to what its
row says. Drives of one run do not overlap here (`RunDriver` has that), runs do.

`Trigger` asks what the code asks (`services.py:70-98`): an update or delete has to name an id. So it
may name any id the record has ever stood under, from the POST on, whether or not the run that creates
the record (`Creator`) has been saved, and whether or not the record is still there. A CREATE whose
worker dies before the save posts again, also after the record was deleted. Two history variables and
a field tell such records apart: `made` counts how often `create_resource` made the record, `stood[id]`
is the last of these makings in which it stood under `id`, and `since` is the one that the caller of an
update or delete saw. Left out: a second CREATE (it has a record of its own), and updates or deletes of
ids that no record ever had (they fail at configure).

### EngineSession and FailureReporting
`EngineSession` is `_authenticate` and `_request` of `adapters/airflow.py`: a cached token, and per
caller a request that logs in at most once more after a 401. A login is two steps, the engine's
grant and its answer, because a login granted earlier may return later and overwrite the token.

`FailureReporting` drives such callers through `trigger_workflow`, `query_run_status` (a success has
to be confirmed by probing every task for `flow_failed`), `get_failure` (the controller's map of
failed tasks, else the first failed instance, then the exception its callback published) and
through `open_incident` (group asked for, memo, lookup, default team). A DAG run is a member of
`Dags`: its state and, per task, what it published and how its callback fared. `lost` and `seen`
are history: no detail of the attempt could be read; the groups that resolved when the incident was
asked for.

## 3. What is checked

Passing runs (all with TLC, exhaustively within the bounds):

| Run | Setting | Shows |
|---|---|---|
| `store_overlap` | 2 runs, 2 workers, leases run out, a callback, a crash, a database error | `StoreInv` (the inductive invariant of the proofs), `NoStrandedRun`, `TerminalAtRest`, `TerminalIsFinal`, `VersionsGrow`, `NoOvertaking`, the refinement of `RunLifecycle`, and that every triggered run ends |
| `driver_crashes` | all five kinds of run, one worker, one crash, one failing provider call (ticket system excepted), one failing save | a `COMPLETED` run has its ticket closed and its record where the operation leaves it; every failed run has an incident or a ticket closed as unsuccessful; a run pages once, and again only for the crash and the failing save |
| `driver_escalation` | all kinds, no crash, two failing calls to ticket system, engine or legacy runner | no record is left in flight, at most one incident, none for a run that completed or was rejected; saves are bounded however a run polls and retries |
| `driver_leases` | an update, two workers, leases run out, an engine call fails | `DriverInv` (the inductive invariant of the proofs); no engine run without an approval, no completion without a successful engine run, saved progress is never taken back |
| `driver_launches` | automation and legacy, two workers, a callback, a retry, a crash, a lost answer, a failing save | at most `max_retries + 1` engine runs; a legacy request is handed over again only after a lost answer, a crash or a failing save; `RunDriver` implements `RunStore` |
| `driver_redrive` | automation, legacy, delete; two crashes and nothing else | crashes alone never fail a run in a step that is merely repeated and leave no record in flight; a rejected run never touched the engine; every run ends though nobody answers |
| `api_runs` | one workflow, two runs, two requests at a time (two updates among them), two records | `ApiInv` (the inductive invariant of the proofs); every run is made from one registration an operator asked for, or, if updates overlapped, from columns operators asked for; every run can be driven; a batch answers what the single lookups answer, in the order asked; the latest run of a record never goes back |
| `record_shared` | three runs on one record, triggered at any time and with old ids, two crashes | `RecordInv` (the inductive invariant of the proofs); the record is in flight only while a run that is not over answers for it; a deleted record is back only if its creation was repeated for a worker that died; the record comes to rest |
| `failure_reporting` | a run with one retry, another caller, three tokens, a call that raises, two groups the ticket system does not have at first | a second 401 is handed on only if the new token expired on its way; a rolled back DAG run is never a success; an incident reaches the team that owns the failure |

**Bounds.** Two workers are what it takes for drives to overlap; a third only repeats the argument
the versions make about two. Two runs are what it takes for the order of due dates to matter.
`MaxVersion` 2 leaves room for a run that comes back once and ends. In the driver, `MaxRetries`
1 gives a first attempt, a retry and the exhaustion; `MaxPolls` 2 gives a poll within the budget
and one at its end; one crash can hit every point of every drive and one fault every call. The
refinement and `driver_leases` use fewer kinds of run because two workers multiply every point of
the plan by every other. `MaxTickets` is never reached within the other bounds (it exceeds the
orders that crashes, faults and second workers can cause). `VersionBound`, which the mapping to
`RunStore` gives for `MaxVersion`, cuts nothing off: `SavesBounded` says that a run is not saved more
often, and is proved.

In `api_runs` two requests at a time are an update during a trigger, two inserts in the wrong order
and two updates that mix their columns (runs are made from such a mixture in the run); two runs are a
CREATE and a later run on its record, committed in either order and before or after the record's id is
known; lists of three parts hold a blank, a duplicate and one id more than `MaxBatch`. In
`record_shared` three runs are a creation and an update and a deletion, or two of a kind; two crashes
are one that makes the CREATE post again and one that repeats another run's steps on what follows (1.2
million states). In `failure_reporting` three tokens are a first login, a renewal,
and the renewal of another caller that overwrites it; `Dags` has one member per path of the reader
(plain failure, controller's map with and without a group, junk map, rolled back success with the
flag on the first or last task, no failed instance, callback that died or published text or an
ill-typed field). Deadlock checking is off because a run that is over is over: the system may stop.

**Fairness.** `WF(Work(w))` for every loop: a loop repeats for ever, catches every exception of a
claim and of a drive, and a daemon that dies is restarted by its supervisor (`Crash` is followed by
an idle loop). `WF(Elapse)`: time passes. Approvers, the engine and callbacks get no fairness: the
budgets have to end the run without them. Crashes and faults are finitely many (the bounds).
`SharedRecord` assumes `WF(Drive(r))`, which is what `EventuallySettled` of the other two shows.

**Mutants.** Each property is paired in `PROJECT.json` with a variant of a definition, for instance
a save without a version check, a claim that clears the date, or a renewal that reuses another
caller's token, under which TLC finds it violated.

## 4. Where the code and its documentation disagree

Each of the first three has a run in which TLC finds the counterexample:

* `bug_rekey_redrive` - finalize re-keys the record to the engine's id and keeps the new id in
  memory. A worker that dies before the save is re-driven with the old id, gets a 404 on every
  attempt, and a provisioned resource ends in a `FAILED` run (`steps.py:401`, `docs/02` "Idempotency
  keys make the re-drive safe").
* `bug_duplicate_callback` - worker 1 finalizes and closes the ticket while the budget of the
  attempt runs out; a callback wakes the run; worker 2 loads it, finds it overdue, escalates and
  deletes the placeholder record; worker 1 saves `COMPLETED` (`services.py:214` "a lost/duplicate
  callback is harmless").
* `bug_two_tickets` - the lease runs out during a first drive and both drives order a ticket. One
  is rejected and ends the run; the other is approved and its drive starts the engine
  (`servicenow.py:153`, `steps.py:196`).

The others were seen while building the model, most of them with TLC, and can be reproduced with the
settings given:

* the call that puts a record in flight takes effect and raises. The marker that tells the escalator
  to release it is set only after the call returns, so a run out of retries leaves the record
  `UPDATING` (`escalator.py:156`, against its comments at `:75` and `:153`): `NothingLeftInFlight`
  fails in `driver_escalation` with `"resource"` in `Faulty`. It also fails if a worker dies past
  configure and the re-drive fails while looking for its ticket;
* two loops drive one run (`ExclusiveDrive` fails in `RunStore` with `LeaseCovers = TRUE` and
  `MaxWakes = 1`), against "never collide" in `worker.py:92`. The theorem `DrivesAreExclusive` says
  under which conditions it is true;
* a worker that dies after escalating and before saving escalates again: `OneIncident` fails with
  `MaxCrashes = 1` (`executor.py:193`, `escalator.py:63` "Runs once");
* the save of a `REJECTED` run raises and `_crash` opens an incident for it:
  `NoIncidentUnlessFailed` fails with `MaxDbFaults = 1` (`executor.py:203`, `docs/07` "`REJECTED`
  with no retry and no Incident");
* a deadline relaunches the engine while the engine run it gave up on is in progress
  (`steps.py:359`; `docs/02` speaks of "the failed one"). `LaunchesBounded` still holds;
* a workflow registered with run type or engine type `LEGACY` is accepted and its runs trip over
  their own steps (`services.py:70`, against "guaranteed by the trigger validation" at
  `steps.py:483`): `EveryRunCanBeDriven` fails with `Offered` set to all of `Registration`;
* two updates of one workflow that are under way at once each write the columns they found changed, and
  the row becomes a mixture neither operator asked for (`database.py:242`). Runs are made from it:
  without its condition on `overlapped`, `FromOperators` fails in `api_runs`. What is left, and is
  checked and proved, is that every column was asked for;
* a CREATE posts its record and its worker dies before the save. The record is listed, a DELETE of it
  is triggered and completes, and the CREATE, driven again, posts the record anew (`steps.py:167`; the
  post is keyed by the vendor id, which is free again). So a record can stand under an id whose
  deletion has completed: `DeleteIsFinal` without its last `since < made` fails in `record_shared` in
  eleven steps. With it, it says that this is the only way and how often it can happen;
* a record that a failed run had in flight is said to be "marked `state=FAILED` (`in_progress=False`) by
  the escalator" (`docs/01-external-contracts.md:11`, `docs/09-design-safeguards.md:15`). The code has no such state: the record of a CREATE is deleted and
  any other goes back to `READY` (`escalator.py:106-148`), in a failed run as in a rejected one. The
  model follows the code, and `NothingLeftInFlight` and `EventuallyAtRest` speak of `READY` and removal;
* `_failure_from_xcom` "degrades to a bare failure rather than raising" (`airflow.py:38`), but a
  payload with a field of the wrong type makes `EngineFailure` raise: the classification, the task
  and the controller's group are lost and the incident goes to the default team. The model has this
  as the callback `ill_typed`;
* "no run is working on it" (`domain.py:99`, of `READY`) does not hold of a record that two runs
  work on: whoever ends first says `READY`. What does hold is `InFlightIsOwned`. A DELETE may also
  complete while an overlapping update has moved the record to another id, which then stays.

For these reasons some properties are checked and proved only where the code keeps them:

| Property | Excludes | Because |
|---|---|---|
| `NothingLeftInFlight` | a resource manager that raises; a ticket system that raises together with crashes or failing saves | the marker is set after the call; the re-drive fails before it configures |
| `OneIncident` | crashes, failing saves | the escalation is repeated; `IncidentsBounded` counts what these cost |
| `NoIncidentUnlessFailed` | failing saves, crashes | `_crash` escalates a `REJECTED` run; `IncidentsBounded` includes them |
| `FailureIsTold` | a ticket system that raises | a failure it refuses to take reaches nobody |
| `RedriveIsSafe` | the kinds of run that re-key their record | `bug_rekey_redrive` |
| `CompletedMeansDone`, `RejectedUntouched` | drives that overlap | the other two runs |
| `CompletedMeansProvisioned` | DAG runs that were rolled back (an engine run succeeds or fails in `RunDriver`) | `SuccessIsReal` of `FailureReporting` has them |
| `EveryRunCanBeDriven` | registrations of type `LEGACY` | see above |
| `HandoversBounded` | leases that run out under a drive of a legacy run | both drives would hand over |

## 5. What is proved

All theorems are checked by TLAPS and hold for any sets of runs, workers, callers, workflows and
records and any bounds, from the named assumptions of the modules.
An inductive invariant that a run checks stands in the model's module; one that serves a proof only
(and was tried with TLC before it was proved) stands at the head of its proof.

**`RunStoreProofs`** (`NoRunAssumption`, `LeaseAssumption`, `BoundsAssumption`):

* `StoreInvariant` - `Spec => []StoreInv`;
* `NeverStranded`, `TerminalNeverScheduled` - consequences of it;
* `TerminalForever`, `VersionsOnlyGrow`, `NeverOvertaken` - the action properties;
* `StoreImplementsLifecycle` - the refinement of `RunLifecycle`;
* `DrivesAreExclusive` - two workers never hold one run, *if* leases outlive drives and no callback
  comes.

That an active run has a date and an ended one has none is not inductive: `save` writes a private
copy made many steps earlier. So `StoreInv` adds what is true of copies: `DecidedCopies` (a copy
about to be saved is either an ending without a date or a run to come back to) and
`CopiesTrackRows` (a copy is never newer than its row, and *while it is as new, the run is not
over*; that is why passing the version check is enough to know that no ending is overwritten, also
in `_crash` after a save whose answer was lost). `AbsentUnscheduled` keeps runs nobody triggered
from being claimed; `QueueOrdered` says that `ahead` is an order of the due runs. The lemma
`RowSteps` then says what a single step may do to a row, and the action properties and the
refinement follow from it. Exclusivity needs one more fact, `HeldNotDue`: a run that somebody holds
is not due; a callback is what breaks it.

**`RunApiProofs`** (`ApiAssumption`): `ApiInvariant` and `RunsStayAsRegistered` have no other
hypothesis: clients update as they like, and any registration may be asked for. `RunsCanBeDriven`
assumes that every offered registration is `Runnable` (an `AUTOMATION` or `RESOURCE` workflow on
Airflow), because the validation of a trigger covers no other; that makes the mixtures of overlapping
updates runnable too. `ApiInv` adds to `RunsAsRegistered` what is true of requests under way
(`UpdateHolds`): an update wants something that was asked for, and unless another one overlaps with it
the row it has loaded is still the row that stands, the reason why writing only the changed columns
writes the whole registration; and a run that is built and not yet inserted is already as registered,
whatever the workflow turns into meanwhile.

The same module proves the two properties of the lookups (`LookupAssumption`), without that
hypothesis. `LatestRunsNeverGoBack` rests on `FreshIds`: the run a request is about to insert has an
id that no committed run and no other request has, so that an insert overwrites nothing and the runs
of a record only grow in number (`RunsOfGrow`); `SaveRecord` touches a run that belonged to no record.
`BatchesMatchSingles` is about one state and holds in every one (`BatchIsRight`): what it takes is to
know what two loops compute for a list of any length. `SeenAfter` and `AnsweredAfter` say that a
function describes the first `n` turns of a loop; `ParsingEnds` and `AnsweringEnds`, that there is
one for all turns. What holds after `n` turns (`NamesOf`, `LatestOf`) is then carried from turn to
turn by `UpTo`, an induction over `0..n` for a *set* of numbers: the induction theorems of the
library range over operators, which the provers cannot instantiate, and a set is enough. `UpTo`,
`MaxIs` and `MinIs` all come from `LeastExists`, the well-foundedness of the natural numbers.

**`SharedRecordProofs`** (`RecordAssumption`): `RecordInvariant`, `RecordOwned`, `DeletionFinal`.
`RecordInv` strengthens `InFlightIsOwned` to *undecided* runs, so that saving an ending takes no
owner away. `MovedForGood` says that an id the record was moved away from is not its id again until the
record is made anew, although the run that moved it may be driven once more under the old one: `Trail`
is the ids of the present making, and the record stands under one of them. Without it a repeated
finalize could bring a record back under an id whose deletion has completed. `MadeForDeaths` counts the
makings: a CREATE that stands before its POST again has lost a worker for every making so far.

**`FailureReportingProofs`** (`SessionAssumption`, `ReportAssumption`): `OneRenewalIsEnough` about
the session alone, `ReportingUsesSession` (`Spec => SessionSpec`: reporting is a caller like any
other), `ReportInvariant`, `SuccessesAreReal`, `IncidentsReachOwners`. `ReportInv` says what a
reader knows half way (`Reading`: the tasks before the one that is probed do not have the output;
the task to report is the one the DAG run names; nothing of an earlier attempt is left) and what is
known of an incident on its way (`Routing`). That the first task found by probing is the least one
that published rests on the lemma `FirstExists`, from the well-foundedness of the natural numbers.

**`RunDriverProofs`** (`DriverAssumption`, any number of workers, with or without leases that cover
drives, callbacks, crashes, lost answers): `DriverInvariant` (`Spec => []DriverInv`), and from it
`DriverTypes`, `ApprovalComesFirst`, `CompletionIsProvisioned`, `LaunchesAreBounded` and
`SavesAreBounded`. None of the properties is inductive, because a drive acts on the world from a copy
that may be old. `DriverInv` has

* `RunSound` - what having come to its step says about a run, whoever holds it: past the approval
  some ticket *is* approved, past the engine some engine run *has* succeeded. These are facts about
  the world which never become false, so that they survive in a copy however old it is;
* `PointSound` - what a copy looks like at every point of the code;
* `Tracks` - `CopiesTrackRows` of the store, and more: while a copy is as new as the row it has all
  the progress of the row. This is the reason why the version check alone keeps progress;
* `Ranked` - the version of a copy is paid for by its rank, the lexicographic position (step,
  attempts, polls). Every save but the last raises the rank, which makes saves bounded;
* `EngineSound` - an engine key is an attempt, hence at most `max_retries + 1` of them.

The proof has one lemma per action. Most actions change one worker and part of the world, and go
through `SoundStep`: if the worker that moved is sound and the world only grew, the invariant holds.

**`RunDriverStepProofs`**: `SavedProgressIsKept` and `DriverImplementsStore`, one lemma per action
that says which step of `RunStore`, or which stutter, it is (`ClaimView`, `SaveView`, ...). The
escalator's calls are stutters; a save that raises is `SaveRaises` of the store, with `_crash` in
it. `Ranked` is needed here too: the store bounds versions, the driver does not.

This version of TLAPS cannot use the theorems of a module through `INSTANCE ... WITH`, so what
follows from `DriverImplementsStore` and `RunStoreProofs` is proved of the driver itself, as the
formulas of the store read through the refinement mapping: `DrivenRunsAreScheduled`
(`Store!NoStrandedRun`, `Store!TerminalAtRest`), `DrivenRunsEndForGood` (`Store!TerminalIsFinal`,
`Store!VersionsGrow`) and `DriverImplementsLifecycle` (`Store!ImplementsLifecycle`, two mappings one
after the other). They rest on what a single step may do to the row (`RowSteps`, `StatusSteps`) and
on `Scheduled`: a run has a date exactly while it is not over.

**`RunDriverSoleProofs`** assumes `LeaseCovers`, a hypothesis of the theorems: a lease outlives the
drive it was given for. `DrivesAreSole` proves `Sole`: one worker at a time has a run which callbacks
cannot wake (there are none, or it is a legacy run, which has no ticket and no engine run to be found
by), and its copy is as new as the row until a `save()` raises. On `Sole` rest the counting arguments:

| Theorem | Also assumes | Invariant |
|---|---|---|
| `HandoversAreBounded` | - | `HandoversCounted`: every handover but the one after which the run is `COMPLETED` is paid for by a crash or a call that failed |
| `IncidentsAreBounded` | no callbacks | `IncidentsCounted`: every incident but the one of the escalation that is on its way to a saved `FAILED` is paid for by a crash or a failing save |
| `OneRunOneIncident`, `OnlyFailuresPage` | no callbacks, no crash, no failing save | the same, with nothing to pay with |
| `RejectedRunsAreUntouched` | no callbacks, a ticket system that answers | `OneTicket` (at most one ticket has the run's key, no drive loses it, and a copy past the approval has it approved) and `RejectionsUntouched` (a copy that is `REJECTED` stands before any launch) |

The hypotheses are the ones without which TLC has counterexamples (section 4): an overlap orders two
tickets, a crash repeats the escalation, and a ticket that is ordered but whose tag got lost is
ordered again.

**`RunDriverWorldProofs`** is about what a run has done to the world when it is over. Every step of a
drive is one of a few effects on the record, the ticket and the copy (`ExecuteEffects`, `EscalateEffects`,
`KeepingForm`), and each invariant is carried through the effects instead of the actions:

| Theorem | Assumes | Invariant |
|---|---|---|
| `CompletedRunsAreDone` | `LeaseCovers`, no callbacks | `AllDone`: the markers of a copy stand for what was done to the world (`DoneAsMarked`), the steps behind it are marked (`MarkedAsDone`), and the copy of a worker whose `save()` raised has the marker that keeps the escalator away from a finalized record |
| `FailuresAreTold` | the same, and a ticket system that answers | `FailuresTold`: an escalation past the incident has opened one or has a ticket to close |
| `NothingIsLeftInFlight` | `LeaseCovers`, no callbacks, a resource manager that answers, and either a ticket system that answers or neither crashes nor failing saves | `InFlightHeld`: a record that is not at rest is one the copy in a worker's hands answers for, by its marker or because nothing can stop it before it configures the record again |
| `RedrivesAreSafe` | no CREATE and no UPDATE | `RedrivesFindTheWorld`: the row is saved at the engine before the engine is polled, so a drive resumed after the record of a DELETE is gone resumes where that does no harm; `FailuresAreReal`: a copy that failed without a fault, and can still be saved, failed at a step that may fail |

`RedrivesAreSafe` needs no lease: drives may overlap as they like, because a copy that lags behind the
row fails and is not saved. `NothingIsLeftInFlight` covers more than its runs, crashes and failing saves
together; its last assumption is the one section 4 shows to be needed. Two of the invariants rest on
`ClocksRun`: only a step that waits has a clock, so no other is ever found overdue.

The proofs changed the model in one place. What follows an incident and what a release does to the
record were written with `CASE` arms that overlap, which leaves the choice open; TLC takes the first,
the provers none. Both are an `IF ... ELSE IF` now, in the order of the code.

**Only model-checked**: liveness (`EventuallySettled` of the store and of the driver,
`EventuallyAtRest`), which the prover does not do. Every other property of a passing run is a theorem.

## 6. Not modelled, and the plan

Not modelled:

* authentication, configuration, wiring, command line, logging: no state of their own;
* ports: interfaces without code;
* the development mocks, except that the keyed create of the resource manager is what `Created`
  follows;
* the texts and fields of tickets, records and summaries, and the resolution of users and catalog
  variables in ServiceNow;
* the stop signal: a stopped loop is one that claims no more, which the safety properties of
  `RunStore` allow at any moment; the draining of the pool is not modelled;
* a CREATE whose caller sets the record's id itself (the API accepts it, the documents do not use
  it), the removal of a ticket group that is memoised, and POSTs that are repeated (nothing is
  promised about them).

`PROJECT.json` gives the reason per component.

Open: the invariants of overlapping drives that hold for some kinds of run only (which of the
properties proved for drives that do not overlap survive callbacks, for automation runs first).
