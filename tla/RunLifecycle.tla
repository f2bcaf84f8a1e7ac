---------------------------- MODULE RunLifecycle ----------------------------
(***************************************************************************)
(* What the run store promises about the status of a run, whoever drives   *)
(* it: a run is created PENDING, may be RUNNING for as long as it takes,   *)
(* and ends in exactly one of three terminal statuses it never leaves.     *)
(* RunStore (rows, versions, leases, workers) implements this.             *)
(***************************************************************************)
CONSTANT Runs

VARIABLE status     \* status[r]: the persisted status of run r

Active   == {"PENDING", "RUNNING"}
Terminal == {"COMPLETED", "FAILED", "REJECTED"}
Statuses == {"ABSENT"} \cup Active \cup Terminal

Init == status = [r \in Runs |-> "ABSENT"]

Trigger(r) ==
    /\ status[r] = "ABSENT"
    /\ status' = [status EXCEPT ![r] = "PENDING"]

\* A drive that has to come back: the run waits for a poll or a retry.
Continue(r) ==
    /\ status[r] \in Active
    /\ status' = [status EXCEPT ![r] = "RUNNING"]

\* A drive that ends the run. A run can end in its very first drive.
Settle(r) ==
    /\ status[r] \in Active
    /\ \E end \in Terminal : status' = [status EXCEPT ![r] = end]

Next == \E r \in Runs : Trigger(r) \/ Continue(r) \/ Settle(r)

Spec == Init /\ [][Next]_status
=============================================================================
