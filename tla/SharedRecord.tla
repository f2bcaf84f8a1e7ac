---------------------------- MODULE SharedRecord ----------------------------
(***************************************************************************)
(* Several runs on one record of the resource manager (the resource steps  *)
(* of orchestration/steps.py, the release of orchestration/escalator.py,   *)
(* the calls of adapters/project_manager.py).                              *)
(*                                                                         *)
(* Nothing stops callers from asking for an update and a deletion of a     *)
(* record at the same time, for an update while it is still being created  *)
(* (it can be listed from the POST on, before the run that creates it is   *)
(* saved), or under an id the record no longer has. Each run writes the    *)
(* record's state as it goes, under the vendor id it was given, and a      *)
(* finalize may move the record to the id the engine provisioned.          *)
(* RunDriver has the steps of one run in detail; here a run is reduced to  *)
(* its calls to the resource manager and to what a worker that dies        *)
(* forgets. The resource manager and the ticket system answer, and drives  *)
(* of one run do not overlap.                                              *)
(***************************************************************************)
EXTENDS Naturals

CONSTANTS
    Runs,        \* the runs on the record
    Creator,     \* the one that creates it
    None,        \* no vendor id
    MaxCrashes   \* bound: workers that die

\* A CREATE keys its record by the run id; an engine may publish another id.
VendorIds == Runs \X {"placeholder", "real"}

ASSUME RecordAssumption ==
    /\ Creator \in Runs
    /\ None \notin VendorIds
    /\ MaxCrashes \in Nat

VARIABLES
    rec,      \* the record: its state and the vendor id it lives under
    run,      \* run[r]: what r does, how far it is and what it knows
    crashes,
    made,     \* history: how often create_resource has made the record
    stood     \* history: stood[id] is the last making in which the record
              \* stood under id, 0 if it never did

history == <<made, stood>>
vars == <<rec, run, crashes, made, stood>>

Operations == {"CREATE", "UPDATE", "DELETE"}

\* OPERATION_STATES.
OperationState(op) ==
    CASE op = "CREATE" -> "PROVISIONING"
      [] op = "UPDATE" -> "UPDATING"
      [] OTHER -> "DELETING"

InFlightStates == {"PROVISIONING", "UPDATING", "DELETING"}

\* "working": configured, up to the end of the engine run; "deleting": the
\* record is marked DELETED; "ending": the outcome is decided and not saved.
Stages == {"none", "new", "working", "finalizing", "deleting", "releasing", "ending", "over"}

\* key is the vendor id that is persisted, at the one in the worker's memory,
\* out what the engine publishes if it succeeds; saved tells whether the row
\* says that the resource is configured; since is the making of the record that
\* the caller of an update or delete has seen.
Progress == [op : Operations, stage : Stages, key : VendorIds \cup {None},
             at : VendorIds \cup {None}, out : VendorIds \cup {None}, saved : BOOLEAN,
             since : Nat, result : {"none", "COMPLETED", "FAILED"}]

Untriggered == [op |-> "CREATE", stage |-> "none", key |-> None, at |-> None, out |-> None,
                saved |-> FALSE, since |-> 0, result |-> "none"]

Init ==
    /\ rec = [state |-> "absent", key |-> None]
    /\ run = [r \in Runs |-> Untriggered]
    /\ crashes = 0
    /\ made = 0
    /\ stood = [id \in VendorIds |-> 0]

Triggered == {r \in Runs : run[r].stage # "none"}

-----------------------------------------------------------------------------
(* The resource manager. *)

Found(id) == rec.state # "absent" /\ rec.key = id

\* update_resource and delete_resource on the id; a 404 changes nothing.
Patched(id, state) == IF Found(id) THEN [rec EXCEPT !.state = state] ELSE rec
Removed(id) == IF Found(id) THEN [state |-> "absent", key |-> None] ELSE rec

\* create_resource is keyed: it makes no second record.
Created(id) == IF rec.state = "absent" THEN [state |-> "PROVISIONING", key |-> id] ELSE rec

-----------------------------------------------------------------------------
(* A run. *)

To(r, stage) == run' = [run EXCEPT ![r].stage = stage]

End(r, result) == run' = [run EXCEPT ![r].stage = "ending", ![r].result = result]

\* What trigger lets through: a CREATE, whose id is the run's own, or an update
\* or delete of whatever id the caller has seen the record under. Whether the
\* record still stands under it, and how far the run that creates it is, is not
\* asked. What the engine publishes is of no use to a DELETE.
Trigger(r, op) ==
    /\ run[r].stage = "none"
    /\ op = "CREATE" <=> r = Creator
    /\ \E id \in VendorIds, out \in {None, <<r, "real">>} :
          /\ IF op = "CREATE" THEN id = <<r, "placeholder">> ELSE stood[id] # 0
          /\ op = "DELETE" => out = None
          /\ run' = [run EXCEPT ![r] = [op |-> op, stage |-> "new", key |-> id, at |-> id,
                                        out |-> out, saved |-> FALSE, since |-> stood[id],
                                        result |-> "none"]]
    /\ UNCHANGED <<rec, crashes, history>>

\* ConfigureResourceStep. A record that is not there fails the run, which then
\* has nothing to release.
Configure(r) ==
    /\ run[r].stage = "new"
    /\ \/ /\ run[r].op = "CREATE"
          /\ rec' = Created(run[r].at)
          /\ made' = IF rec.state = "absent" THEN made + 1 ELSE made
          /\ stood' = IF rec.state = "absent" THEN [stood EXCEPT ![run[r].at] = made + 1] ELSE stood
          /\ To(r, "working")
       \/ /\ run[r].op # "CREATE"
          /\ Found(run[r].at)
          /\ rec' = Patched(run[r].at, OperationState(run[r].op))
          /\ To(r, "working")
          /\ UNCHANGED history
       \/ /\ run[r].op # "CREATE"
          /\ ~Found(run[r].at)
          /\ End(r, "FAILED")
          /\ UNCHANGED <<rec, history>>
    /\ UNCHANGED crashes

\* Waiting for the approval or the engine saves the run.
SavePoll(r) ==
    /\ run[r].stage = "working"
    /\ ~run[r].saved
    /\ run' = [run EXCEPT ![r].saved = TRUE]
    /\ UNCHANGED <<rec, crashes, history>>

\* The engine run succeeded; it was polled, so the run has been saved.
EngineSucceeds(r) ==
    /\ run[r].stage = "working"
    /\ run[r].saved
    /\ To(r, "finalizing")
    /\ UNCHANGED <<rec, crashes, history>>

\* Rejected, refused or failed.
EndsBadly(r) ==
    /\ run[r].stage = "working"
    /\ To(r, "releasing")
    /\ UNCHANGED <<rec, crashes, history>>

\* Mutant: an update's record is left as it is.
OnlyDeleted(r) == IF run[r].op = "CREATE" THEN Removed(run[r].at) ELSE rec
\* _release_resource: the record of a CREATE goes, another's is READY again; a
\* record that is not found is let be.
Released(r) ==
    IF run[r].op = "CREATE" THEN Removed(run[r].at) ELSE Patched(run[r].at, "READY")

Release(r) ==
    /\ run[r].stage = "releasing"
    /\ rec' = Released(r)
    /\ End(r, "FAILED")
    /\ UNCHANGED <<crashes, history>>

FinalKey(r) == IF run[r].out = None THEN run[r].at ELSE run[r].out

\* Mutant: the record is moved and keeps its state.
MovedOnly(r) == [rec EXCEPT !.key = FinalKey(r)]
\* _finalize_fields: READY, under the id the engine published if there is one.
Finalized(r) == [state |-> "READY", key |-> FinalKey(r)]

\* FinalizeResourceStep of a CREATE or UPDATE. A record that is not found any
\* more fails the run, which releases what it configured.
Finalize(r) ==
    /\ run[r].stage = "finalizing"
    /\ run[r].op # "DELETE"
    /\ \/ /\ Found(run[r].at)
          /\ rec' = Finalized(r)
          /\ run' = [run EXCEPT ![r].stage = "ending", ![r].result = "COMPLETED",
                                ![r].at = FinalKey(r)]
          /\ stood' = [stood EXCEPT ![FinalKey(r)] = made]
       \/ /\ ~Found(run[r].at)
          /\ To(r, "releasing")
          /\ UNCHANGED <<rec, stood>>
    /\ UNCHANGED <<crashes, made>>

\* _finalize_delete marks the record ...
MarkDeleted(r) ==
    /\ run[r].stage = "finalizing"
    /\ run[r].op = "DELETE"
    /\ rec' = Patched(run[r].at, "DELETED")
    /\ To(r, "deleting")
    /\ UNCHANGED <<crashes, history>>

\* Mutant: the mark is all that is done.
Retired(r) == rec
Deleted(r) == Removed(run[r].at)

\* ... and deletes it; neither minds a record that is gone.
DeleteRecord(r) ==
    /\ run[r].stage = "deleting"
    /\ rec' = Deleted(r)
    /\ End(r, "COMPLETED")
    /\ UNCHANGED <<crashes, history>>

\* The ending is saved; what only the drive knew is forgotten.
SaveEnd(r) ==
    /\ run[r].stage = "ending"
    /\ run' = [run EXCEPT ![r].stage = "over", ![r].at = None, ![r].out = None]
    /\ UNCHANGED <<rec, crashes, history>>

\* Where a drive starts with what is persisted.
Resumed(r) == IF run[r].saved THEN "working" ELSE "new"

\* A worker dies: the run is driven again from what is persisted, so a step
\* whose marker was not saved is repeated, under the id the row has. A death
\* with nothing to forget changes nothing.
Crash(r) ==
    /\ run[r].stage \notin {"none", "over", Resumed(r)}
    /\ crashes < MaxCrashes
    /\ crashes' = crashes + 1
    /\ run' = [run EXCEPT ![r].stage = Resumed(r), ![r].at = run[r].key, ![r].result = "none"]
    /\ UNCHANGED <<rec, history>>

-----------------------------------------------------------------------------
Drive(r) ==
    \/ Configure(r)
    \/ SavePoll(r)
    \/ EngineSucceeds(r)
    \/ EndsBadly(r)
    \/ Release(r)
    \/ Finalize(r)
    \/ MarkDeleted(r)
    \/ DeleteRecord(r)
    \/ SaveEnd(r)

Next ==
    \E r \in Runs :
        \/ \E op \in Operations : Trigger(r, op)
        \/ Drive(r)
        \/ Crash(r)

Spec == Init /\ [][Next]_vars

(* Workers come back to a run until it is over (EventuallySettled of RunStore *)
(* and RunDriver).                                                           *)
FairSpec == Spec /\ \A r \in Runs : WF_vars(Drive(r))

-----------------------------------------------------------------------------
(* Properties. *)

TypeOK ==
    /\ rec \in [state : {"absent", "READY", "DELETED"} \cup InFlightStates,
                key : VendorIds \cup {None}]
    /\ run \in [Runs -> Progress]
    /\ crashes \in Nat
    /\ made \in Nat
    /\ stood \in [VendorIds -> Nat]

\* Not decided yet how they end.
Undecided == {r \in Triggered : run[r].stage \notin {"ending", "over"}}

Owns(r) == run[r].key = rec.key /\ OperationState(run[r].op) = rec.state

\* The ids the record has had since it was last made.
Trail == {id \in VendorIds : made # 0 /\ stood[id] = made}

\* What a run may rely on about itself.
Sound(r) ==
    /\ run[r].stage = "none" <=> run[r].key = None
    /\ run[r].saved => run[r].stage \notin {"none", "new"}
    /\ run[r].stage = "finalizing" => run[r].saved
    /\ run[r].out \in {None, <<r, "real">>}
    /\ r \in Undecided => run[r].at = run[r].key
    /\ r \in Triggered /\ run[r].op = "CREATE" =>
          r = Creator /\ run[r].key = <<r, "placeholder">>
    /\ r \in Triggered /\ run[r].op # "CREATE" =>
          run[r].key # <<r, "real">> /\ run[r].since <= stood[run[r].key]

\* An id the record was moved away from is not its id again until the record is
\* made anew, although the run that moved it may be driven once more under the
\* old id.
MovedForGood(r) ==
    /\ stood[<<r, "real">>] # 0 => run[r].saved
    /\ <<r, "real">> \in Trail => run[r].key \in Trail /\ rec.key # run[r].key

\* The record is made once, and once more for a worker that died before it had
\* saved that the record is there.
MadeForDeaths ==
    /\ made <= crashes + 1
    /\ run[Creator].stage \in {"none", "new"} => made <= crashes

\* The inductive invariant. An undecided run answers for a record in flight, so
\* that a run whose ending is about to be saved never does; and what a DELETE
\* removed stays away from the moment it is done until the record is made anew.
RecordInv ==
    /\ TypeOK
    /\ rec.state = "absent" <=> rec.key = None
    /\ \A id \in VendorIds : stood[id] <= made
    /\ rec.key # None => rec.key \in Trail
    /\ rec.state \in InFlightStates => \E r \in Undecided : Owns(r)
    /\ MadeForDeaths
    /\ \A r \in Runs :
          /\ Sound(r)
          /\ MovedForGood(r)
          /\ run[r].op = "DELETE" /\ run[r].stage \in {"ending", "over"}
                /\ run[r].result = "COMPLETED" /\ Found(run[r].key) => run[r].since < made

\* A record says that it is being provisioned, updated or deleted only while a
\* run that does so, on the id the record stands under, is not over: whoever
\* ends last of those that overlap, and whatever was forgotten in a crash.
InFlightIsOwned ==
    rec.state \in InFlightStates =>
        \E r \in Triggered : run[r].stage # "over" /\ Owns(r)

\* A record stands under an id that a DELETE has completed on only if
\* create_resource made it anew, after the caller of the DELETE saw it; and it is
\* made anew at most once per worker that died, which has to be the worker of
\* the CREATE between the POST and the save. No other run that was under way, is
\* driven again or comes with an old id brings a deleted record back.
DeleteIsFinal ==
    /\ made <= crashes + 1
    /\ \A r \in Runs :
          run[r].op = "DELETE" /\ run[r].stage = "over" /\ run[r].result = "COMPLETED"
              /\ Found(run[r].key) => run[r].since < made

\* Every record that is shown in flight is shown at rest again, or removed.
EventuallyAtRest == rec.state \in InFlightStates ~> rec.state \in {"READY", "absent"}
=============================================================================
