------------------------------ MODULE RunStore ------------------------------
(***************************************************************************)
(* The run store and the worker loops that claim and drive runs            *)
(* (adapters/database.py, worker.py, and the persistence skeleton of       *)
(* orchestration/executor.py).                                             *)
(*                                                                         *)
(* A row keeps a status, a scheduling date and a version. A worker claims  *)
(* the oldest due row by pushing its date one lease ahead, loads a private *)
(* copy, drives it, and writes the copy back if the version is still the   *)
(* one it loaded. Callbacks wake runs outside the version scheme, leases   *)
(* expire under slow drives, workers crash, and the database may fail a    *)
(* call before or after committing it. What a drive does in between is in  *)
(* RunDriver; here only the outcome it decides on matters.                 *)
(*                                                                         *)
(* Dates are abstracted to "null", "future" and "due" (scheduled_at <= now)*)
(* and the order of the due dates is kept in ahead.                        *)
(***************************************************************************)
EXTENDS Naturals

CONSTANTS
    Runs,          \* the runs that may be triggered
    Workers,       \* the worker loops of all daemons
    NoRun,         \* what an idle worker holds
    LeaseCovers,   \* TRUE: no date set on a run passes while a worker holds it
    MaxVersion,    \* bound: a drive that must come back needs version < MaxVersion
    MaxWakes,      \* bound: callbacks that find a run to wake
    MaxCrashes,    \* bound: worker crashes
    MaxFaults      \* bound: database calls that raise

ASSUME NoRunAssumption == NoRun \notin Runs
ASSUME LeaseAssumption == LeaseCovers \in BOOLEAN
ASSUME BoundsAssumption ==
    /\ MaxVersion \in Nat \ {0}
    /\ MaxWakes \in Nat
    /\ MaxCrashes \in Nat
    /\ MaxFaults \in Nat

VARIABLES
    row,       \* row[r]: the persisted row of run r
    ahead,     \* ahead[r]: the due runs whose scheduled_at is earlier than r's
    pc,        \* pc[w]: where worker w is
    held,      \* held[w]: the run worker w is working on
    copy,      \* copy[w]: w's private WorkflowRun
    wakes, crashes, faults   \* how often the environment has acted

vars == <<row, ahead, pc, held, copy, wakes, crashes, faults>>
budgets == <<wakes, crashes, faults>>

Active   == {"PENDING", "RUNNING"}
Terminal == {"COMPLETED", "FAILED", "REJECTED"}
Statuses == {"ABSENT"} \cup Active \cup Terminal
Dates    == {"null", "future", "due"}

Row == [status : Statuses, date : Dates, version : Nat]

\* "claimed": between claim_due and get; "driving": inside _drive;
\* "saving": outcome decided, escalation and save pending;
\* "quiet": in _crash, escalation and _save_quietly pending.
Points == {"idle", "claimed", "driving", "saving", "quiet"}

Blank == [status |-> "ABSENT", date |-> "null", version |-> 1]

\* The run x with a new status and date: the executor assigns them together.
Marked(x, status, date) == [status |-> status, date |-> date, version |-> x.version]

TypeOK ==
    /\ row \in [Runs -> Row]
    /\ ahead \in [Runs -> SUBSET Runs]
    /\ pc \in [Workers -> Points]
    /\ held \in [Workers -> Runs \cup {NoRun}]
    /\ copy \in [Workers -> Row]
    /\ wakes \in Nat
    /\ crashes \in Nat
    /\ faults \in Nat

Init ==
    /\ row = [r \in Runs |-> Blank]
    /\ ahead = [r \in Runs |-> {}]
    /\ pc = [w \in Workers |-> "idle"]
    /\ held = [w \in Workers |-> NoRun]
    /\ copy = [w \in Workers |-> Blank]
    /\ wakes = 0
    /\ crashes = 0
    /\ faults = 0

-----------------------------------------------------------------------------
(* The order of the due dates. *)

Due == {r \in Runs : row[r].date = "due"}

\* Mutant: a run that becomes due goes before the others.
QueuedFirst(r) == [s \in Runs |-> IF s = r THEN {} ELSE ahead[s] \cup {r}]
\* r's date becomes now: every other due run is older.
Queued(r) == [s \in Runs |-> IF s = r THEN Due \ {r} ELSE ahead[s] \ {r}]

\* r's date moves to the future or to NULL.
Unqueued(r) == [s \in Runs |-> IF s = r THEN {} ELSE ahead[s] \ {r}]

-----------------------------------------------------------------------------
(* The API process. *)

\* WorkflowRunService.trigger: the row is created PENDING and due at once.
Trigger(r) ==
    /\ row[r].status = "ABSENT"
    /\ row' = [row EXCEPT ![r] = Marked(row[r], "PENDING", "due")]
    /\ ahead' = Queued(r)
    /\ UNCHANGED <<pc, held, copy, budgets>>

\* Mutant: a callback wakes a run that is over.
WakeableAlways(r) == row[r].status # "ABSENT"
Wakeable(r) == row[r].status \in Active

\* wake: a callback makes a run due now. No version is read or bumped, and a
\* run that is already due goes behind the others.
Wake(r) ==
    /\ wakes < MaxWakes
    /\ Wakeable(r)
    /\ row' = [row EXCEPT ![r].date = "due"]
    /\ ahead' = Queued(r)
    /\ wakes' = wakes + 1
    /\ UNCHANGED <<pc, held, copy, crashes, faults>>

-----------------------------------------------------------------------------
(* Time. *)

Holders(r) == {w \in Workers : held[w] = r}

\* A date passes: a poll or retry delay is over, or a lease ran out.
Elapse(r) ==
    /\ row[r].date = "future"
    /\ LeaseCovers => Holders(r) = {}
    /\ row' = [row EXCEPT ![r].date = "due"]
    /\ ahead' = Queued(r)
    /\ UNCHANGED <<pc, held, copy, budgets>>

-----------------------------------------------------------------------------
(* The worker loop. *)

\* A row some worker may hold FOR UPDATE in save(): SKIP LOCKED passes it over.
RowLocked(r) == \E w \in Workers : held[w] = r /\ pc[w] \in {"saving", "quiet"}

Claimable(r) == row[r].date = "due" /\ \A s \in ahead[r] : RowLocked(s)

\* Mutant: a claim takes the run out of the schedule.
LeaseNull == "null"
LeaseDate == "future"

\* claim_due(1, lease): the oldest due row that is not locked gets a date one
\* lease ahead. Neither the status nor the version takes part.
Lease(r) ==
    /\ Claimable(r)
    /\ row' = [row EXCEPT ![r].date = LeaseDate]
    /\ ahead' = Unqueued(r)

Claim(w, r) ==
    /\ pc[w] = "idle"
    /\ Lease(r)
    /\ pc' = [pc EXCEPT ![w] = "claimed"]
    /\ held' = [held EXCEPT ![w] = r]
    /\ UNCHANGED <<copy, budgets>>

\* The claim committed but the call raised: the loop logs it and idles.
ClaimAnswerLost(w, r) ==
    /\ pc[w] = "idle"
    /\ faults < MaxFaults
    /\ Lease(r)
    /\ faults' = faults + 1
    /\ UNCHANGED <<pc, held, copy, wakes, crashes>>

\* The loop lets go of the run.
Release(w) ==
    /\ pc' = [pc EXCEPT ![w] = "idle"]
    /\ held' = [held EXCEPT ![w] = NoRun]
    /\ copy' = [copy EXCEPT ![w] = Blank]

\* handle: load the run; a terminal one is dropped as a stale delivery.
Load(w) ==
    /\ pc[w] = "claimed"
    /\ \/ /\ row[held[w]].status \in Active
          /\ pc' = [pc EXCEPT ![w] = "driving"]
          /\ copy' = [copy EXCEPT ![w] = Marked(row[held[w]], "RUNNING", row[held[w]].date)]
          /\ UNCHANGED held
       \/ /\ row[held[w]].status \notin Active
          /\ Release(w)
    /\ UNCHANGED <<row, ahead, budgets>>

\* get() raised: it is outside handle's try, so the lease re-drives the run.
LoadRaises(w) ==
    /\ pc[w] = "claimed"
    /\ faults < MaxFaults
    /\ faults' = faults + 1
    /\ Release(w)
    /\ UNCHANGED <<row, ahead, wakes, crashes>>

\* The drive settles on what to save.
Decide(w, status, date, next) ==
    /\ pc[w] = "driving"
    /\ copy' = [copy EXCEPT ![w] = Marked(copy[w], status, date)]
    /\ pc' = [pc EXCEPT ![w] = next]
    /\ UNCHANGED <<row, ahead, held, budgets>>

\* _schedule: a poll or a retry later. Step deadlines and max_retries bound
\* how often a run can come back, which MaxVersion stands for.
Reschedule(w) ==
    /\ copy[w].version < MaxVersion
    /\ Decide(w, "RUNNING", "future", "saving")

\* The plan is done, a step failed for good, or the ticket was rejected.
Finish(w) == \E end \in Terminal : Decide(w, end, "null", "saving")

\* Something around the steps raised: _crash marks the run FAILED.
DriveRaises(w) == Decide(w, "FAILED", "null", "quiet")

\* Mutant: last writer wins.
AnyVersion(w) == TRUE
\* The version check of save(): nobody saved since w loaded.
VersionMatches(w) == row[held[w]].version = copy[w].version

\* Mutant: a save does not take the next version.
SavedSameVersion(w) == copy[w]
\* The row save() writes.
Saved(w) == [copy[w] EXCEPT !.version = copy[w].version + 1]

Write(w) ==
    /\ VersionMatches(w)
    /\ row' = [row EXCEPT ![held[w]] = Saved(w)]
    /\ ahead' = Unqueued(held[w])

\* save() commits; the drive is over.
Save(w) ==
    /\ pc[w] \in {"saving", "quiet"}
    /\ Write(w)
    /\ Release(w)
    /\ UNCHANGED budgets

\* StaleRunError: another drive saved first, and this one's copy is dropped.
SaveStale(w) ==
    /\ pc[w] \in {"saving", "quiet"}
    /\ ~VersionMatches(w)
    /\ Release(w)
    /\ UNCHANGED <<row, ahead, budgets>>

\* What an exception out of save() leads to: from _drive to _crash, which marks
\* the copy FAILED and saves once more; from _save_quietly to nothing.
AfterSaveRaised(w) ==
    \/ /\ pc[w] = "saving"
       /\ pc' = [pc EXCEPT ![w] = "quiet"]
       /\ copy' = [copy EXCEPT ![w] = Marked(copy[w], "FAILED", "null")]
       /\ UNCHANGED held
    \/ /\ pc[w] = "quiet"
       /\ Release(w)

\* save() raises, before the commit or after it (the answer is lost; the copy
\* keeps the old version).
SaveRaises(w) ==
    /\ faults < MaxFaults
    /\ faults' = faults + 1
    /\ AfterSaveRaised(w)
    /\ Write(w) \/ UNCHANGED <<row, ahead>>
    /\ UNCHANGED <<wakes, crashes>>

\* The process dies and is restarted; the lease is all that is left.
Crash(w) ==
    /\ pc[w] # "idle"
    /\ crashes < MaxCrashes
    /\ crashes' = crashes + 1
    /\ Release(w)
    /\ UNCHANGED <<row, ahead, wakes, faults>>

-----------------------------------------------------------------------------
(* What worker w does on its own account when nothing fails. *)
Work(w) ==
    \/ \E r \in Runs : Claim(w, r)
    \/ Load(w)
    \/ Reschedule(w)
    \/ Finish(w)
    \/ Save(w)
    \/ SaveStale(w)

Fault(w) ==
    \/ \E r \in Runs : ClaimAnswerLost(w, r)
    \/ LoadRaises(w)
    \/ DriveRaises(w)
    \/ SaveRaises(w)
    \/ Crash(w)

Next ==
    \/ \E r \in Runs : Trigger(r) \/ Wake(r) \/ Elapse(r)
    \/ \E w \in Workers : Work(w) \/ Fault(w)

Spec == Init /\ [][Next]_vars

(* Worker loops keep running (a crashed daemon is restarted) and time passes. *)
Fairness ==
    /\ \A w \in Workers : WF_vars(Work(w))
    /\ \A r \in Runs : WF_vars(Elapse(r))

FairSpec == Spec /\ Fairness

-----------------------------------------------------------------------------
(* Properties. *)

\* A run that is not over always has a date, so some worker comes back to it
\* whatever crashed, raised or was overtaken in between: the lease of claim_due
\* and the rule that _drive sets a date before every non-terminal save.
NoStrandedRun == \A r \in Runs : row[r].status \in Active => row[r].date # "null"

\* A run that is over has no date: no worker claims it again, and no late
\* callback (wake) brings it back. claim_due does not look at the status, so
\* this is all that keeps a finished run from being driven.
TerminalAtRest == \A r \in Runs : row[r].status \in Terminal => row[r].date = "null"

\* A finished row is never written again, not by the drive that lost the race
\* to finish it, not by _crash after a save whose answer was lost.
TerminalIsFinal ==
    [][\A r \in Runs : row[r].status \in Terminal => row'[r] = row[r]]_vars

\* Optimistic concurrency: the version never goes back, and whoever changes the
\* status of an existing run takes the next version, so of several overlapping
\* drives of one version at most one is ever persisted.
VersionsGrow ==
    [][\A r \in Runs :
          \/ row'[r].version = row[r].version + 1
          \/ /\ row'[r].version = row[r].version
             /\ row[r].status # "ABSENT" => row'[r].status = row[r].status]_vars

\* No run is overtaken: while r waits to be claimed, a run gets before it only
\* when a callback dates r anew, and a run behind it is claimed first only
\* while r's row is locked by a save (claim_due: oldest first, SKIP LOCKED).
NoOvertaking ==
    [][\A r, s \in Runs :
          r # s /\ row[r].date = "due" /\ row'[r].date = "due" =>
              /\ s \in ahead'[r] => s \in ahead[r] \/ wakes' > wakes
              /\ row[s].date = "due" /\ row'[s].date = LeaseDate /\ s \notin ahead[r] =>
                    RowLocked(r) \/ row'[s].version > row[s].version]_vars

\* Two workers never work on one run. worker.py says so of SKIP LOCKED; it
\* takes a lease that outlives the drive and no callback in the meantime.
ExclusiveDrive ==
    \A v, w \in Workers : held[v] = held[w] /\ held[v] # NoRun => v = w

\* Every triggered run ends, whatever crashes and database errors (finitely
\* many) hit its drives: the lease re-drives it.
EventuallySettled ==
    \A r \in Runs : row[r].status \in Active ~> row[r].status \in Terminal

\* What a worker's private copy has to do with the row it came from. A worker
\* holds an existing run exactly while it is busy; its copy is never newer than
\* the row; and while it is as new, the run is not over, so a save that passes
\* the version check cannot overwrite an ending.
CopiesTrackRows ==
    \A w \in Workers :
        /\ held[w] = NoRun <=> pc[w] = "idle"
        /\ pc[w] # "idle" => row[held[w]].status # "ABSENT"
        /\ pc[w] \in {"driving", "saving", "quiet"} =>
              /\ copy[w].version <= row[held[w]].version
              /\ VersionMatches(w) => row[held[w]].status \in Active

\* What a worker is about to save is a run to come back to, or an ending.
DecidedCopies ==
    \A w \in Workers :
        pc[w] \in {"saving", "quiet"} =>
            \/ copy[w].status = "RUNNING" /\ copy[w].date = "future"
            \/ copy[w].status \in Terminal /\ copy[w].date = "null"

\* A run nobody triggered has no date, so it cannot be claimed.
AbsentUnscheduled == \A r \in Runs : row[r].status = "ABSENT" => row[r].date = "null"

\* The due runs are ordered by their dates: no other run is in the order, and
\* of two due runs one is before the other.
QueueOrdered ==
    /\ \A r \in Runs : ahead[r] \subseteq Due \ {r} /\ (r \notin Due => ahead[r] = {})
    /\ \A r, s \in Due : r # s => r \in ahead[s] \/ s \in ahead[r]

\* The inductive invariant behind the properties above.
StoreInv ==
    /\ TypeOK
    /\ NoStrandedRun
    /\ TerminalAtRest
    /\ AbsentUnscheduled
    /\ CopiesTrackRows
    /\ DecidedCopies
    /\ QueueOrdered

\* The statuses the store goes through are those of RunLifecycle.
Lifecycle == INSTANCE RunLifecycle WITH status <- [r \in Runs |-> row[r].status]

\* Refinement: every step of the store is a lifecycle step or leaves the
\* statuses alone.
ImplementsLifecycle == Lifecycle!Spec
=============================================================================
