--------------------------- MODULE RunStoreProofs ---------------------------
(***************************************************************************)
(* TLAPS proofs about RunStore, for any sets of runs and workers and any   *)
(* bounds.                                                                 *)
(***************************************************************************)
EXTENDS RunStore, TLAPS

\* The initial states satisfy the inductive invariant.
LEMMA InitStoreInv == Init => StoreInv
BY NoRunAssumption
   DEF Init, StoreInv, TypeOK, NoStrandedRun, TerminalAtRest, AbsentUnscheduled,
       CopiesTrackRows, DecidedCopies, QueueOrdered, Due, Blank, Row, Statuses,
       Active, Terminal, Dates, Points

-----------------------------------------------------------------------------
(* Type correctness. *)

USE DEF Row, Statuses, Active, Terminal, Dates, Points, Marked, Blank

\* A step keeps every variable in its type.
LEMMA NextTypeOK == TypeOK /\ CopiesTrackRows /\ [Next]_vars => TypeOK'
<1> SUFFICES ASSUME TypeOK, CopiesTrackRows, [Next]_vars PROVE TypeOK'
  OBVIOUS
<1> USE NoRunAssumption
<1>1. ASSUME NEW r \in Runs, Trigger(r) PROVE TypeOK'
  BY <1>1 DEF TypeOK, Trigger, Queued, Due, budgets
<1>2. ASSUME NEW r \in Runs, Wake(r) PROVE TypeOK'
  BY <1>2 DEF TypeOK, Wake, Queued, Due
<1>3. ASSUME NEW r \in Runs, Elapse(r) PROVE TypeOK'
  BY <1>3 DEF TypeOK, Elapse, Queued, Due, budgets
<1>4. ASSUME NEW w \in Workers, NEW r \in Runs, Claim(w, r) PROVE TypeOK'
  BY <1>4 DEF TypeOK, Claim, Lease, LeaseDate, Unqueued, budgets
<1>5. ASSUME NEW w \in Workers, NEW r \in Runs, ClaimAnswerLost(w, r) PROVE TypeOK'
  BY <1>5 DEF TypeOK, ClaimAnswerLost, Lease, LeaseDate, Unqueued
<1>6. ASSUME NEW w \in Workers, Load(w) PROVE TypeOK'
  <2>1. held[w] \in Runs /\ row[held[w]] \in Row
    BY <1>6 DEF TypeOK, CopiesTrackRows, Load
  <2>2. CASE row[held[w]].status \in Active
    <3>1. Marked(row[held[w]], "RUNNING", row[held[w]].date) \in Row
      BY <2>1
    <3>2. copy' = [copy EXCEPT ![w] = Marked(row[held[w]], "RUNNING", row[held[w]].date)]
          /\ pc' = [pc EXCEPT ![w] = "driving"]
          /\ UNCHANGED <<held, row, ahead, wakes, crashes, faults>>
      BY <1>6, <2>2 DEF Load, budgets
    <3> HIDE DEF Marked, Row
    <3>3. QED BY <3>1, <3>2 DEF TypeOK
  <2>3. CASE row[held[w]].status \notin Active
    BY <1>6, <2>3 DEF TypeOK, Load, Release, budgets
  <2>4. QED BY <2>2, <2>3
<1>7. ASSUME NEW w \in Workers, LoadRaises(w) PROVE TypeOK'
  BY <1>7 DEF TypeOK, LoadRaises, Release
<1>8. ASSUME NEW w \in Workers, Reschedule(w) PROVE TypeOK'
  BY <1>8 DEF TypeOK, Reschedule, Decide, budgets
<1>9. ASSUME NEW w \in Workers, Finish(w) PROVE TypeOK'
  BY <1>9 DEF TypeOK, Finish, Decide, budgets
<1>10. ASSUME NEW w \in Workers, DriveRaises(w) PROVE TypeOK'
  BY <1>10 DEF TypeOK, DriveRaises, Decide, budgets
<1>11. ASSUME NEW w \in Workers, Save(w) PROVE TypeOK'
  BY <1>11 DEF TypeOK, CopiesTrackRows, Save, Write, Saved, Unqueued, Release, budgets
<1>12. ASSUME NEW w \in Workers, SaveStale(w) PROVE TypeOK'
  BY <1>12 DEF TypeOK, SaveStale, Release, budgets
<1>13. ASSUME NEW w \in Workers, SaveRaises(w) PROVE TypeOK'
  <2>1. row' \in [Runs -> Row] /\ ahead' \in [Runs -> SUBSET Runs]
    BY <1>13 DEF TypeOK, CopiesTrackRows, SaveRaises, AfterSaveRaised, Write, Saved, Unqueued
  <2>2. CASE pc[w] = "saving"
    <3>1. Marked(copy[w], "FAILED", "null") \in Row
      BY DEF TypeOK
    <3>2. copy' = [copy EXCEPT ![w] = Marked(copy[w], "FAILED", "null")]
          /\ pc' = [pc EXCEPT ![w] = "quiet"]
          /\ UNCHANGED <<held, wakes, crashes>> /\ faults' = faults + 1
      BY <1>13, <2>2 DEF SaveRaises, AfterSaveRaised
    <3> HIDE DEF Marked, Row
    <3>3. QED BY <2>1, <3>1, <3>2 DEF TypeOK
  <2>3. CASE pc[w] = "quiet"
    <3>1. Release(w) /\ UNCHANGED <<wakes, crashes>> /\ faults' = faults + 1
      BY <1>13, <2>3 DEF SaveRaises, AfterSaveRaised
    <3>2. QED BY <2>1, <3>1 DEF TypeOK, Release
  <2>4. QED BY <1>13, <2>2, <2>3 DEF SaveRaises, AfterSaveRaised
<1>14. ASSUME NEW w \in Workers, Crash(w) PROVE TypeOK'
  BY <1>14 DEF TypeOK, Crash, Release
<1>15. CASE UNCHANGED vars
  BY <1>15 DEF TypeOK, vars
<1>16. QED
  BY <1>1, <1>2, <1>3, <1>4, <1>5, <1>6, <1>7, <1>8, <1>9, <1>10, <1>11, <1>12,
     <1>13, <1>14, <1>15 DEF Next, Work, Fault

-----------------------------------------------------------------------------
(* The inductive invariant. *)

\* A step keeps dates and statuses in agreement.
LEMMA NextDates ==
    StoreInv /\ [Next]_vars => (NoStrandedRun /\ TerminalAtRest /\ AbsentUnscheduled)'
<1> DEFINE Agree == NoStrandedRun /\ TerminalAtRest /\ AbsentUnscheduled
<1> SUFFICES ASSUME StoreInv, [Next]_vars PROVE Agree'
  OBVIOUS
<1> USE NoRunAssumption DEF NoStrandedRun, TerminalAtRest, AbsentUnscheduled
<1>0. TypeOK /\ Agree
  BY DEF StoreInv
<1>1. ASSUME NEW r \in Runs, Trigger(r) PROVE Agree'
  BY <1>0, <1>1 DEF TypeOK, Trigger
<1>2. ASSUME NEW r \in Runs, Wake(r) PROVE Agree'
  BY <1>0, <1>2 DEF TypeOK, Wake, Wakeable
<1>3. ASSUME NEW r \in Runs, Elapse(r) PROVE Agree'
  BY <1>0, <1>3 DEF TypeOK, Elapse
<1>4. ASSUME NEW r \in Runs, Lease(r) PROVE Agree'
  BY <1>0, <1>4 DEF TypeOK, Lease, Claimable, LeaseDate
<1>5. ASSUME NEW w \in Workers, pc[w] \in {"saving", "quiet"}, Write(w) PROVE Agree'
  <2>1. held[w] \in Runs /\ copy[w] \in Row
    BY <1>0, <1>5 DEF TypeOK, StoreInv, CopiesTrackRows
  <2>2. row' = [row EXCEPT ![held[w]] = Saved(w)]
    BY <1>5 DEF Write
  <2>3. \/ Saved(w).status = "RUNNING" /\ Saved(w).date = "future"
        \/ Saved(w).status \in Terminal /\ Saved(w).date = "null"
    BY <1>5, <2>1 DEF StoreInv, DecidedCopies, Saved
  <2>4. QED BY <1>0, <2>1, <2>2, <2>3 DEF TypeOK
<1>6. ASSUME UNCHANGED row PROVE Agree'
  BY <1>0, <1>6
<1>7. \/ \E r \in Runs : Trigger(r) \/ Wake(r) \/ Elapse(r) \/ Lease(r)
      \/ \E w \in Workers : pc[w] \in {"saving", "quiet"} /\ Write(w)
      \/ UNCHANGED row
  BY DEF Next, Work, Fault, Claim, ClaimAnswerLost, Load, LoadRaises, Reschedule, Finish,
         DriveRaises, Decide, Save, SaveStale, SaveRaises, AfterSaveRaised, Crash, vars
<1>8. QED
  BY <1>1, <1>2, <1>3, <1>4, <1>5, <1>6, <1>7

\* A step that decides on an outcome decides on a well-formed one.
LEMMA NextDecided == StoreInv /\ [Next]_vars => DecidedCopies'
<1> SUFFICES ASSUME StoreInv, [Next]_vars PROVE DecidedCopies'
  OBVIOUS
<1>0. TypeOK /\ DecidedCopies
  BY DEF StoreInv
<1>1. CASE UNCHANGED <<pc, copy>>
  BY <1>0, <1>1 DEF DecidedCopies
<1>2. ASSUME NEW w \in Workers, Release(w) PROVE DecidedCopies'
  BY <1>0, <1>2 DEF TypeOK, DecidedCopies, Release
<1>3. ASSUME NEW w \in Workers, pc' = [pc EXCEPT ![w] = "claimed"], UNCHANGED copy
      PROVE DecidedCopies'
  BY <1>0, <1>3 DEF TypeOK, DecidedCopies
<1>4. ASSUME NEW w \in Workers, Load(w) PROVE DecidedCopies'
  BY <1>0, <1>2, <1>4 DEF TypeOK, DecidedCopies, Load
<1>5. ASSUME NEW w \in Workers, Reschedule(w) PROVE DecidedCopies'
  BY <1>0, <1>5 DEF TypeOK, DecidedCopies, Reschedule, Decide
<1>6. ASSUME NEW w \in Workers, Finish(w) PROVE DecidedCopies'
  BY <1>0, <1>6 DEF TypeOK, DecidedCopies, Finish, Decide
<1>7. ASSUME NEW w \in Workers, DriveRaises(w) PROVE DecidedCopies'
  BY <1>0, <1>7 DEF TypeOK, DecidedCopies, DriveRaises, Decide
<1>8. ASSUME NEW w \in Workers, SaveRaises(w) PROVE DecidedCopies'
  BY <1>0, <1>2, <1>8 DEF TypeOK, DecidedCopies, SaveRaises, AfterSaveRaised
<1>9. QED
  BY <1>1, <1>2, <1>3, <1>4, <1>5, <1>6, <1>7, <1>8
     DEF Next, Work, Fault, Trigger, Wake, Elapse, Claim, ClaimAnswerLost, LoadRaises,
         Save, SaveStale, Crash, vars

\* A step keeps every copy at or behind its row, and behind a finished one.
LEMMA NextCopies == StoreInv /\ [Next]_vars => CopiesTrackRows'
<1> SUFFICES ASSUME StoreInv, [Next]_vars PROVE CopiesTrackRows'
  OBVIOUS
<1> USE NoRunAssumption DEF VersionMatches
<1>0. TypeOK /\ CopiesTrackRows /\ NoStrandedRun /\ TerminalAtRest /\ AbsentUnscheduled
  BY DEF StoreInv
<1>1. ASSUME NEW r \in Runs, Trigger(r) PROVE CopiesTrackRows'
  BY <1>0, <1>1 DEF TypeOK, CopiesTrackRows, Trigger
<1>2. ASSUME NEW r \in Runs, Wake(r) PROVE CopiesTrackRows'
  BY <1>0, <1>2 DEF TypeOK, CopiesTrackRows, Wake
<1>3. ASSUME NEW r \in Runs, Elapse(r) PROVE CopiesTrackRows'
  BY <1>0, <1>3 DEF TypeOK, CopiesTrackRows, Elapse
<1>4. ASSUME NEW r \in Runs, Lease(r), UNCHANGED <<pc, held, copy>> PROVE CopiesTrackRows'
  BY <1>0, <1>4 DEF TypeOK, CopiesTrackRows, Lease
<1>5. ASSUME NEW w \in Workers, NEW r \in Runs, Claim(w, r) PROVE CopiesTrackRows'
  <2>1. row[r].status # "ABSENT"
    BY <1>0, <1>5 DEF TypeOK, Claim, Lease, Claimable, AbsentUnscheduled
  <2>2. QED BY <1>0, <1>5, <2>1 DEF TypeOK, CopiesTrackRows, Claim, Lease, LeaseDate
<1>6. ASSUME NEW w \in Workers, Release(w), UNCHANGED row PROVE CopiesTrackRows'
  BY <1>0, <1>6 DEF TypeOK, CopiesTrackRows, Release
<1>7. ASSUME NEW w \in Workers, Load(w) PROVE CopiesTrackRows'
  BY <1>0, <1>6, <1>7 DEF TypeOK, CopiesTrackRows, Load
<1>8. ASSUME NEW w \in Workers, NEW status \in Statuses, NEW date \in Dates,
             NEW next \in {"saving", "quiet"}, Decide(w, status, date, next)
      PROVE CopiesTrackRows'
  BY <1>0, <1>8 DEF TypeOK, CopiesTrackRows, Decide
<1>9. ASSUME NEW w \in Workers, pc[w] \in {"saving", "quiet"}, Write(w)
      PROVE /\ held[w] \in Runs
            /\ row' = [row EXCEPT ![held[w]] = Saved(w)]
            /\ Saved(w).version = row[held[w]].version + 1
            /\ Saved(w).status # "ABSENT"
  BY <1>0, <1>9 DEF TypeOK, StoreInv, CopiesTrackRows, DecidedCopies, Write, Saved
<1>10. ASSUME NEW w \in Workers, pc[w] \in {"saving", "quiet"}, Write(w), Release(w)
       PROVE CopiesTrackRows'
  BY <1>0, <1>9, <1>10 DEF TypeOK, CopiesTrackRows, Release
<1>11. ASSUME NEW w \in Workers, pc[w] = "saving", AfterSaveRaised(w),
              Write(w) \/ UNCHANGED row
       PROVE CopiesTrackRows'
  BY <1>0, <1>9, <1>11 DEF TypeOK, CopiesTrackRows, AfterSaveRaised
<1>12. CASE UNCHANGED vars
  BY <1>0, <1>12 DEF CopiesTrackRows, vars
<1>13. ASSUME NEW w \in Workers, Work(w) PROVE CopiesTrackRows'
  BY <1>5, <1>6, <1>7, <1>8, <1>10, <1>13
     DEF Work, Reschedule, Finish, Save, SaveStale
<1>14. ASSUME NEW w \in Workers, Fault(w) PROVE CopiesTrackRows'
  BY <1>4, <1>6, <1>8, <1>10, <1>11, <1>14
     DEF Fault, ClaimAnswerLost, LoadRaises, DriveRaises, SaveRaises, AfterSaveRaised, Crash
<1>15. QED
  BY <1>1, <1>2, <1>3, <1>12, <1>13, <1>14 DEF Next

\* What one step can do to the order of the due runs: a run comes in behind all
\* the others (a callback's one may have been in before), a run that is not due
\* any more leaves it, or it stays as it is.
LEMMA QueueSteps ==
    ASSUME StoreInv, [Next]_vars
    PROVE  \/ \E r \in Runs :
                /\ row'[r].date = "due"
                /\ \A s \in Runs \ {r} : row'[s] = row[s]
                /\ ahead' = Queued(r)
                /\ row[r].date # "due" \/ wakes' = wakes + 1
           \/ \E r \in Runs :
                /\ row'[r].date # "due"
                /\ \A s \in Runs \ {r} : row'[s] = row[s]
                /\ ahead' = Unqueued(r)
                /\ Claimable(r) \/ row'[r].version > row[r].version
           \/ UNCHANGED <<row, ahead>>
<1>0. TypeOK /\ AbsentUnscheduled
  BY DEF StoreInv
<1> DEFINE In(r) == /\ row'[r].date = "due"
                    /\ \A s \in Runs \ {r} : row'[s] = row[s]
                    /\ ahead' = Queued(r)
                    /\ row[r].date # "due" \/ wakes' = wakes + 1
           Out(r) == /\ row'[r].date # "due"
                     /\ \A s \in Runs \ {r} : row'[s] = row[s]
                     /\ ahead' = Unqueued(r)
                     /\ Claimable(r) \/ row'[r].version > row[r].version
<1>1. ASSUME NEW r \in Runs, Trigger(r) PROVE In(r)
  <2>1. row[r].date # "due"
    BY <1>0, <1>1 DEF Trigger, AbsentUnscheduled
  <2>2. QED BY <1>0, <1>1, <2>1 DEF TypeOK, Trigger
<1>2. ASSUME NEW r \in Runs, Wake(r) PROVE In(r)
  BY <1>0, <1>2 DEF TypeOK, Wake
<1>3. ASSUME NEW r \in Runs, Elapse(r) PROVE In(r)
  BY <1>0, <1>3 DEF TypeOK, Elapse
<1>4. ASSUME NEW r \in Runs, Lease(r) PROVE Out(r)
  BY <1>0, <1>4 DEF TypeOK, Lease, LeaseDate
<1>5. ASSUME NEW w \in Workers, pc[w] \in {"saving", "quiet"}, Write(w)
      PROVE  held[w] \in Runs /\ Out(held[w])
  <2>1. held[w] \in Runs /\ copy[w] \in Row
    BY <1>0, <1>5 DEF TypeOK, StoreInv, CopiesTrackRows
  <2>2. Saved(w).date # "due" /\ Saved(w).version > row[held[w]].version
    BY <1>0, <1>5, <2>1 DEF TypeOK, StoreInv, DecidedCopies, Write, VersionMatches, Saved
  <2>3. QED BY <1>0, <1>5, <2>1, <2>2 DEF TypeOK, Write
<1>6. \/ \E r \in Runs : Trigger(r) \/ Wake(r) \/ Elapse(r) \/ Lease(r)
      \/ \E w \in Workers : pc[w] \in {"saving", "quiet"} /\ Write(w)
      \/ UNCHANGED <<row, ahead>>
  BY DEF Next, Work, Fault, Claim, ClaimAnswerLost, Load, LoadRaises, Reschedule, Finish,
         DriveRaises, Decide, Save, SaveStale, SaveRaises, AfterSaveRaised, Crash, vars
<1> HIDE DEF In, Out
<1>7. (\E r \in Runs : In(r)) \/ (\E r \in Runs : Out(r)) \/ UNCHANGED <<row, ahead>>
  BY <1>1, <1>2, <1>3, <1>4, <1>5, <1>6
<1>8. QED
  BY <1>7 DEF In, Out

\* A step keeps the due runs in order.
LEMMA NextQueue == StoreInv /\ [Next]_vars => QueueOrdered'
<1> SUFFICES ASSUME StoreInv, [Next]_vars PROVE QueueOrdered'
  OBVIOUS
<1>0. QueueOrdered
  BY DEF StoreInv
<1>1. ASSUME NEW r \in Runs, row'[r].date = "due",
             \A s \in Runs \ {r} : row'[s] = row[s], ahead' = Queued(r)
      PROVE  QueueOrdered'
  <2>1. Due' = Due \cup {r}
    BY <1>1 DEF Due
  <2>2. ahead'[r] = Due \ {r} /\ \A s \in Runs \ {r} : ahead'[s] = ahead[s] \ {r}
    BY <1>1 DEF Queued
  <2>3. QED BY <1>0, <2>1, <2>2 DEF QueueOrdered, Due
<1>2. ASSUME NEW r \in Runs, row'[r].date # "due",
             \A s \in Runs \ {r} : row'[s] = row[s], ahead' = Unqueued(r)
      PROVE  QueueOrdered'
  <2>1. Due' = Due \ {r}
    BY <1>2 DEF Due
  <2>2. ahead'[r] = {} /\ \A s \in Runs \ {r} : ahead'[s] = ahead[s] \ {r}
    BY <1>2 DEF Unqueued
  <2>3. QED BY <1>0, <2>1, <2>2 DEF QueueOrdered, Due
<1>3. CASE UNCHANGED <<row, ahead>>
  BY <1>0, <1>3 DEF QueueOrdered, Due
<1>4. QED
  BY <1>1, <1>2, <1>3, QueueSteps

\* The invariant behind every safety property of the store holds for ever.
THEOREM StoreInvariant == Spec => []StoreInv
<1>1. StoreInv /\ [Next]_vars => StoreInv'
  BY NextTypeOK, NextDates, NextDecided, NextCopies, NextQueue DEF StoreInv
<1>2. QED
  BY InitStoreInv, <1>1, PTL DEF Spec

-----------------------------------------------------------------------------
(* The safety properties. *)

\* A run that is not over always keeps a date (claim_due, save, wake).
THEOREM NeverStranded == Spec => []NoStrandedRun
<1>1. StoreInv => NoStrandedRun
  BY DEF StoreInv
<1>2. QED
  BY StoreInvariant, <1>1, PTL

\* A run that is over never has a date, so it is never claimed again.
THEOREM TerminalNeverScheduled == Spec => []TerminalAtRest
<1>1. StoreInv => TerminalAtRest
  BY DEF StoreInv
<1>2. QED
  BY StoreInvariant, <1>1, PTL

\* What one step can do to a row: create it, move its date while the run is
\* alive, or save the copy of a worker that is at the row's version.
LEMMA RowSteps ==
    ASSUME StoreInv, [Next]_vars, NEW r \in Runs
    PROVE  \/ row'[r] = row[r]
           \/ row[r].status = "ABSENT" /\ row'[r] = Marked(row[r], "PENDING", "due")
           \/ /\ row[r].status \in Active
              /\ row'[r].status = row[r].status
              /\ row'[r].version = row[r].version
           \/ /\ row[r].status \in Active
              /\ row'[r].status \in {"RUNNING"} \cup Terminal
              /\ row'[r].version = row[r].version + 1
<1> DEFINE P == \/ row'[r] = row[r]
                \/ row[r].status = "ABSENT" /\ row'[r] = Marked(row[r], "PENDING", "due")
                \/ /\ row[r].status \in Active
                   /\ row'[r].status = row[r].status
                   /\ row'[r].version = row[r].version
                \/ /\ row[r].status \in Active
                   /\ row'[r].status \in {"RUNNING"} \cup Terminal
                   /\ row'[r].version = row[r].version + 1
<1>0. TypeOK /\ TerminalAtRest /\ AbsentUnscheduled
  BY DEF StoreInv
<1>1. ASSUME NEW s \in Runs, Trigger(s) PROVE P
  BY <1>0, <1>1 DEF TypeOK, Trigger
<1>2. ASSUME NEW s \in Runs, Wake(s) PROVE P
  BY <1>0, <1>2 DEF TypeOK, Wake, Wakeable
<1>3. ASSUME NEW s \in Runs, row[s].date # "null", NEW d \in Dates,
             row' = [row EXCEPT ![s].date = d]
      PROVE P
  BY <1>0, <1>3 DEF TypeOK, TerminalAtRest, AbsentUnscheduled
<1>4. ASSUME NEW s \in Runs, Elapse(s) PROVE P
  BY <1>3, <1>4 DEF Elapse
<1>5. ASSUME NEW s \in Runs, Lease(s) PROVE P
  BY <1>3, <1>5 DEF Lease, Claimable, LeaseDate
<1>6. ASSUME NEW w \in Workers, pc[w] \in {"saving", "quiet"}, Write(w) PROVE P
  <2>1. held[w] \in Runs /\ copy[w] \in Row /\ row[held[w]].status \in Active
    BY <1>0, <1>6, NoRunAssumption DEF TypeOK, StoreInv, CopiesTrackRows, Write
  <2>2. row' = [row EXCEPT ![held[w]] = Saved(w)]
        /\ Saved(w).version = row[held[w]].version + 1
        /\ Saved(w).status \in {"RUNNING"} \cup Terminal
    BY <1>6, <2>1 DEF StoreInv, DecidedCopies, Write, VersionMatches, Saved
  <2>3. QED BY <1>0, <2>1, <2>2 DEF TypeOK
<1>7. CASE UNCHANGED row
  BY <1>7
<1>8. \/ \E s \in Runs : Trigger(s) \/ Wake(s) \/ Elapse(s) \/ Lease(s)
      \/ \E w \in Workers : pc[w] \in {"saving", "quiet"} /\ Write(w)
      \/ UNCHANGED row
  BY DEF Next, Work, Fault, Claim, ClaimAnswerLost, Load, LoadRaises, Reschedule, Finish,
         DriveRaises, Decide, Save, SaveStale, SaveRaises, AfterSaveRaised, Crash, vars
<1>9. QED
  BY <1>1, <1>2, <1>4, <1>5, <1>6, <1>7, <1>8

\* A finished row is never written again (save's version check, wake's status
\* filter).
THEOREM TerminalForever == Spec => TerminalIsFinal
<1>1. StoreInv /\ [Next]_vars
        => [\A r \in Runs : row[r].status \in Terminal => row'[r] = row[r]]_vars
  BY RowSteps
<1>2. QED
  BY StoreInvariant, <1>1, PTL DEF Spec, TerminalIsFinal

\* Versions grow by one, and with every change of status (save).
THEOREM VersionsOnlyGrow == Spec => VersionsGrow
<1>1. ASSUME StoreInv, [Next]_vars, NEW r \in Runs
      PROVE  \/ row'[r].version = row[r].version + 1
             \/ /\ row'[r].version = row[r].version
                /\ row[r].status # "ABSENT" => row'[r].status = row[r].status
  <2>1. CASE row[r].status = "ABSENT" /\ row'[r] = Marked(row[r], "PENDING", "due")
    BY <2>1
  <2>2. CASE row'[r] = row[r]
    BY <2>2
  <2>3. QED BY <1>1, <2>1, <2>2, RowSteps
<1>2. StoreInv /\ [Next]_vars
        => [\A r \in Runs :
              \/ row'[r].version = row[r].version + 1
              \/ /\ row'[r].version = row[r].version
                 /\ row[r].status # "ABSENT" => row'[r].status = row[r].status]_vars
  BY <1>1
<1>3. QED
  BY StoreInvariant, <1>2, PTL DEF Spec, VersionsGrow

\* No due run is overtaken, except by its own callback or while a save locks its
\* row (claim_due takes the oldest due row, and wake re-dates one).
THEOREM NeverOvertaken == Spec => NoOvertaking
<1> DEFINE Kept(r, s) ==
         r # s /\ row[r].date = "due" /\ row'[r].date = "due" =>
             /\ s \in ahead'[r] => s \in ahead[r] \/ wakes' > wakes
             /\ row[s].date = "due" /\ row'[s].date = LeaseDate /\ s \notin ahead[r] =>
                   RowLocked(r) \/ row'[s].version > row[s].version
<1>1. ASSUME StoreInv, [Next]_vars, NEW r \in Runs, NEW s \in Runs
      PROVE  Kept(r, s)
  <2>0. QueueOrdered /\ wakes \in Nat
    BY <1>1 DEF StoreInv, TypeOK
  <2>1. SUFFICES ASSUME r # s, row[r].date = "due", row'[r].date = "due"
                 PROVE  /\ s \in ahead'[r] => s \in ahead[r] \/ wakes' > wakes
                        /\ row[s].date = "due" /\ row'[s].date = LeaseDate /\ s \notin ahead[r] =>
                              RowLocked(r) \/ row'[s].version > row[s].version
    OBVIOUS
  <2>2. ASSUME NEW q \in Runs, row'[q].date = "due",
               \A o \in Runs \ {q} : row'[o] = row[o], ahead' = Queued(q),
               row[q].date # "due" \/ wakes' = wakes + 1
        PROVE  Kept(r, s)
    <3>1. q # r => ahead'[r] = ahead[r] \ {q}
      BY <2>2 DEF Queued
    <3>2. q = r => wakes' > wakes
      BY <2>0, <2>1, <2>2
    <3>3. row[s].date = "due" => row'[s].date # LeaseDate
      BY <2>2 DEF LeaseDate
    <3>4. QED BY <3>1, <3>2, <3>3
  <2>3. ASSUME NEW q \in Runs, row'[q].date # "due",
               \A o \in Runs \ {q} : row'[o] = row[o], ahead' = Unqueued(q),
               Claimable(q) \/ row'[q].version > row[q].version
        PROVE  Kept(r, s)
    <3>1. q # r /\ ahead'[r] = ahead[r] \ {q}
      BY <2>1, <2>3 DEF Unqueued
    <3>2. ASSUME row[s].date = "due", row'[s].date = LeaseDate, s \notin ahead[r]
          PROVE  RowLocked(r) \/ row'[s].version > row[s].version
      <4>1. s = q
        BY <2>3, <3>2 DEF LeaseDate
      <4>2. r \in ahead[s]
        BY <2>0, <2>1, <3>2 DEF QueueOrdered, Due
      <4>3. QED BY <2>3, <4>1, <4>2 DEF Claimable
    <3>3. QED BY <3>1, <3>2
  <2>4. ASSUME UNCHANGED <<row, ahead>> PROVE Kept(r, s)
    BY <2>4 DEF LeaseDate
  <2>5. Kept(r, s)
    <3> HIDE DEF Kept
    <3>1. QED BY <1>1, <2>2, <2>3, <2>4, QueueSteps
  <2>6. QED BY <2>1, <2>5
<1>2. StoreInv /\ [Next]_vars => [\A r, s \in Runs : Kept(r, s)]_vars
  <2> HIDE DEF Kept
  <2>1. QED BY <1>1
<1>3. QED
  BY StoreInvariant, <1>2, PTL DEF Spec, NoOvertaking

\* The store implements the lifecycle: row statuses follow RunLifecycle.
THEOREM StoreImplementsLifecycle == Spec => ImplementsLifecycle
<1> DEFINE st == [r \in Runs |-> row[r].status]
<1>1. Init => Lifecycle!Init
  BY DEF Init, Lifecycle!Init
<1>2. ASSUME StoreInv, [Next]_vars PROVE [Lifecycle!Next]_st
  <2>1. ASSUME NEW r \in Runs, NEW s \in Runs, row'[r] # row[r], row'[s] # row[s]
        PROVE  r = s
    <3>0. row \in [Runs -> Row]
      BY <1>2 DEF StoreInv, TypeOK
    <3>1. ASSUME NEW q \in Runs, Trigger(q) \/ Wake(q) \/ Elapse(q) \/ Lease(q)
          PROVE \A o \in Runs \ {q} : row'[o] = row[o]
      BY <3>0, <3>1 DEF Trigger, Wake, Elapse, Lease
    <3>2. ASSUME NEW w \in Workers, Write(w)
          PROVE \A o \in Runs \ {held[w]} : row'[o] = row[o]
      BY <3>0, <3>2 DEF Write
    <3>3. \/ \E q \in Runs : Trigger(q) \/ Wake(q) \/ Elapse(q) \/ Lease(q)
          \/ \E w \in Workers : Write(w)
          \/ UNCHANGED row
      BY <1>2 DEF Next, Work, Fault, Claim, ClaimAnswerLost, Load, LoadRaises, Reschedule,
           Finish, DriveRaises, Decide, Save, SaveStale, SaveRaises, AfterSaveRaised, Crash, vars
    <3>4. QED BY <2>1, <3>1, <3>2, <3>3
  <2>2. CASE \A r \in Runs : row'[r].status = row[r].status
    BY <2>2
  <2>3. ASSUME NEW r \in Runs, row'[r].status # row[r].status PROVE Lifecycle!Next
    <3>1. \A s \in Runs \ {r} : row'[s] = row[s]
      BY <2>1, <2>3
    <3>2. st' = [st EXCEPT ![r] = row'[r].status]
      <4>1. \A s \in Runs \ {r} : row'[s].status = row[s].status
        BY <3>1
      <4>2. QED BY <4>1
    <3>3. \/ row[r].status = "ABSENT" /\ row'[r].status = "PENDING"
          \/ row[r].status \in Active /\ row'[r].status \in {"RUNNING"} \cup Terminal
      <4>1. CASE row[r].status = "ABSENT" /\ row'[r] = Marked(row[r], "PENDING", "due")
        BY <4>1
      <4>2. QED BY <1>2, <2>3, <4>1, RowSteps
    <3>4. QED BY <3>2, <3>3
      DEF Lifecycle!Next, Lifecycle!Trigger, Lifecycle!Continue, Lifecycle!Settle,
          Lifecycle!Active, Lifecycle!Terminal
  <2>4. QED BY <2>2, <2>3
<1>3. QED
  BY StoreInvariant, <1>1, <1>2, PTL DEF Spec, ImplementsLifecycle, Lifecycle!Spec

-----------------------------------------------------------------------------
(* Exclusive drives. *)

\* A run some worker holds is not due, so nobody else can claim it.
HeldNotDue == \A w \in Workers : held[w] # NoRun => row[held[w]].date # "due"

\* With leases that outlive drives and without callbacks, the claim gives every
\* run to one worker at a time (claim_due, the lease, and save).
THEOREM DrivesAreExclusive ==
    ASSUME LeaseCovers, MaxWakes = 0
    PROVE  Spec => []ExclusiveDrive
<1> DEFINE Inv == StoreInv /\ HeldNotDue /\ ExclusiveDrive
<1> USE NoRunAssumption
<1>1. Init => Inv
  BY InitStoreInv DEF Init, HeldNotDue, ExclusiveDrive
<1>2. ASSUME Inv, [Next]_vars PROVE (HeldNotDue /\ ExclusiveDrive)'
  <2>0. TypeOK /\ HeldNotDue /\ ExclusiveDrive
    BY <1>2 DEF StoreInv
  <2>1. ASSUME NEW r \in Runs, Trigger(r) PROVE (HeldNotDue /\ ExclusiveDrive)'
    <3>1. \A w \in Workers : held[w] # r
      BY <1>2, <2>1 DEF StoreInv, TypeOK, CopiesTrackRows, Trigger
    <3>2. QED BY <2>0, <2>1, <3>1 DEF TypeOK, HeldNotDue, ExclusiveDrive, Trigger
  <2>2. ASSUME NEW r \in Runs, Wake(r) PROVE FALSE
    BY <2>0, <2>2 DEF TypeOK, Wake
  <2>3. ASSUME NEW r \in Runs, Elapse(r) PROVE (HeldNotDue /\ ExclusiveDrive)'
    BY <2>0, <2>3 DEF TypeOK, HeldNotDue, ExclusiveDrive, Elapse, Holders
  <2>4. ASSUME NEW r \in Runs, NEW w \in Workers, Claim(w, r)
        PROVE (HeldNotDue /\ ExclusiveDrive)'
    BY <2>0, <2>4 DEF TypeOK, HeldNotDue, ExclusiveDrive, Claim, Lease, Claimable, LeaseDate
  <2>5. ASSUME NEW r \in Runs, NEW w \in Workers, ClaimAnswerLost(w, r)
        PROVE (HeldNotDue /\ ExclusiveDrive)'
    BY <2>0, <2>5 DEF TypeOK, HeldNotDue, ExclusiveDrive, ClaimAnswerLost, Lease, Claimable,
                      LeaseDate
  <2>6. ASSUME \A w \in Workers : held'[w] \in {held[w], NoRun},
               \A r \in Runs : row'[r].date = row[r].date \/ row'[r].date # "due"
        PROVE (HeldNotDue /\ ExclusiveDrive)'
    BY <2>0, <2>6 DEF TypeOK, HeldNotDue, ExclusiveDrive
  <2>7. ASSUME NEW w \in Workers, pc[w] \in {"saving", "quiet"}, Write(w)
        PROVE \A r \in Runs : row'[r].date = row[r].date \/ row'[r].date # "due"
    BY <1>2, <2>0, <2>7 DEF TypeOK, StoreInv, DecidedCopies, Write, Saved
  <2>8. ASSUME NEW w \in Workers, Work(w) PROVE (HeldNotDue /\ ExclusiveDrive)'
    <3>1. CASE \E r \in Runs : Claim(w, r)
      BY <2>4, <3>1
    <3>2. CASE ~\E r \in Runs : Claim(w, r)
      BY <2>0, <2>6, <2>7, <2>8, <3>2
         DEF Work, TypeOK, Load, Release, Reschedule, Finish, Decide, Save, SaveStale
    <3>3. QED BY <3>1, <3>2
  <2>9. ASSUME NEW w \in Workers, Fault(w) PROVE (HeldNotDue /\ ExclusiveDrive)'
    <3>1. CASE \E r \in Runs : ClaimAnswerLost(w, r)
      BY <2>5, <3>1
    <3>2. CASE ~\E r \in Runs : ClaimAnswerLost(w, r)
      BY <2>0, <2>6, <2>7, <2>9, <3>2
         DEF Fault, TypeOK, LoadRaises, Release, DriveRaises, Decide, SaveRaises,
             AfterSaveRaised, Crash
    <3>3. QED BY <3>1, <3>2
  <2>10. CASE UNCHANGED vars
    BY <2>0, <2>10 DEF HeldNotDue, ExclusiveDrive, vars
  <2>11. QED
    BY <1>2, <2>1, <2>2, <2>3, <2>8, <2>9, <2>10 DEF Next
<1>3. Inv /\ [Next]_vars => Inv'
  <2>1. StoreInv /\ [Next]_vars => StoreInv'
    BY NextTypeOK, NextDates, NextDecided, NextCopies, NextQueue DEF StoreInv
  <2>2. QED BY <1>2, <2>1
<1>4. QED
  BY <1>1, <1>3, PTL DEF Spec
=============================================================================
