------------------------- MODULE RunDriverStepProofs ------------------------
(***************************************************************************)
(* What the steps of RunDriver do to the row, proved from the invariant of *)
(* RunDriverProofs: saved progress is kept, and every step is a step of    *)
(* RunStore or leaves what RunStore sees alone.                            *)
(***************************************************************************)
EXTENDS RunDriverProofs

\* A step leaves the row alone, triggers it, dates it, or saves it.
LEMMA RowSteps ==
    ASSUME DriverInv, [Next]_vars
    PROVE  \/ row' = row
           \/ /\ row.status = "ABSENT" /\ row'.status = "PENDING" /\ row'.date = "due"
              /\ row'.version = row.version
           \/ /\ row.date # "null" \/ row.status \in Active
              /\ \E d \in {"future", "due"} : row' = [row EXCEPT !.date = d]
           \/ \E w \in Workers : me[w].pc = "save" /\ Write(w)
<1>1. CASE UNCHANGED vars
  BY <1>1 DEF vars
<1>2. ASSUME NEW kind \in Requests, Trigger(kind)
      PROVE  /\ row.status = "ABSENT" /\ row'.status = "PENDING" /\ row'.date = "due"
             /\ row'.version = row.version
  BY <1>2 DEF Trigger, DriverInv, RowSound, Blank
<1>3. ASSUME NEW w \in Workers, Work(w) \/ SaveRaises(w) \/ Crash(w)
      PROVE  \/ row' = row
             \/ row.date # "null" /\ row' = [row EXCEPT !.date = "future"]
             \/ me[w].pc = "save" /\ Write(w)
  <2>1. ASSUME SoundStep(w) PROVE row' = row
    BY <2>1 DEF SoundStep, others
  <2>2. CASE ExecuteStep(w) \/ Escalate(w)
    BY <2>1, <2>2, ExecuteStepSound, EscalateSound
  <2>3. CASE Claim(w)
    BY <2>3 DEF Claim
  <2>4. CASE Load(w) \/ Crash(w)
    BY <2>4 DEF Load, Crash
  <2>5. CASE Save(w) \/ SaveRaises(w)
    BY <2>5 DEF Save, SaveRaises
  <2> QED BY <1>3, <2>2, <2>3, <2>4, <2>5 DEF Work
<1>4. CASE \E t \in TicketIds, answer \in {"approved", "rejected"} : DecideApproval(t, answer)
  BY <1>4 DEF DecideApproval
<1>5. CASE \E k \in EngineIds : FinishEngine(k)
  BY <1>5 DEF FinishEngine
<1>6. CASE Elapse \/ Overrun \/ FindRun \/ WakeRun
  BY <1>6 DEF Elapse, Overrun, FindRun, WakeRun
<1> QED BY <1>1, <1>2, <1>3, <1>4, <1>5, <1>6 DEF Next

\* Saved progress is never taken back: save() takes a copy only while it is as
\* new as the row, and such a copy has all the row's progress.
THEOREM SavedProgressIsKept == Spec => ProgressIsKept
<1>1. ASSUME DriverInv, [Next]_vars
      PROVE  row.status = "ABSENT" \/ Keeps(row, row')
  <2>1. row \in RunType /\ row.step \in PlanSteps \cup {"none"}
    BY <1>1 DEF DriverInv, TypeOK, RowSound, RunSound
  <2>2. Keeps(row, row)
    <3>1. row.step # "none" => Position(row.step) \in Nat
      BY <2>1, PlanShape
    <3> QED BY <3>1 DEF Keeps
  <2>3. ASSUME NEW d, row' = [row EXCEPT !.date = d] PROVE Keeps(row, row')
    <3>1. row'.step = row.step /\ row'.st = row.st
      BY <2>1, <2>3 DEF RunType
    <3> QED BY <2>2, <3>1 DEF Keeps
  <2>4. ASSUME NEW w \in Workers, me[w].pc = "save", Write(w) PROVE Keeps(row, row')
    <3>1. row.version = Run(w).version /\ row' = [Run(w) EXCEPT !.version = @ + 1]
      BY <2>4 DEF Write, VersionMatches
    <3>2. Tracks(me[w]) /\ me[w].run \in RunType
      BY <1>1, <2>4 DEF DriverInv, WorkerSound, Busy, TypeOK, WorkerType
    <3>3. Keeps(row, Run(w))
      BY <3>1, <3>2 DEF Tracks, Run
    <3>4. row'.step = Run(w).step /\ row'.st = Run(w).st
      BY <3>1, <3>2 DEF RunType, Run
    <3> QED BY <3>3, <3>4 DEF Keeps
  <2> QED BY <1>1, <2>2, <2>3, <2>4, RowSteps
<1>2. DriverInv /\ [Next]_vars =>
        [\/ row.status = "ABSENT"
         \/ /\ row.st.ticket # 0 => row'.st.ticket = row.st.ticket
            /\ row.st.configured => row'.st.configured
            /\ row.st.finalized => row'.st.finalized
            /\ row.st.submitted => row'.st.submitted
            /\ row.step # "none" /\ row'.step # "none" =>
                  Position(row.step) <= Position(row'.step)]_vars
  BY <1>1 DEF Keeps
<1> QED BY <1>2, DriverInvariant, PTL DEF Spec, ProgressIsKept

-----------------------------------------------------------------------------
(* The view of RunStore. *)

\* What the view shows of a worker and of the row.
LEMMA ViewValues ==
    ASSUME NEW w \in Workers
    PROVE  /\ PointView[w] = StorePoint(me[w]) /\ CopyView[w] = Shown(me[w].run)
           /\ me[w].pc # "idle" => HeldView[w] = "run"
           /\ RowView["run"] = Shown(row)
           /\ AheadView["run"] = {}
BY DEF PointView, CopyView, HeldView, RowView, AheadView

\* One worker changes.
LEMMA WorkerView ==
    ASSUME me \in [Workers -> WorkerType], NEW w \in Workers, NEW m,
           me' = [me EXCEPT ![w] = m]
    PROVE  /\ PointView' = [PointView EXCEPT ![w] = StorePoint(m)]
           /\ m.pc = "idle" => HeldView' = [HeldView EXCEPT ![w] = "nobody"]
           /\ m.pc # "idle" => HeldView' = [HeldView EXCEPT ![w] = "run"]
           /\ CopyView' = [CopyView EXCEPT ![w] = Shown(m.run)]
<1>1. \A u \in Workers : me'[u] = IF u = w THEN m ELSE me[u]
  OBVIOUS
<1>2. PointView' = [PointView EXCEPT ![w] = StorePoint(m)]
  BY <1>1 DEF PointView
<1>3. HeldView' = [HeldView EXCEPT ![w] = IF m.pc = "idle" THEN "nobody" ELSE "run"]
  BY <1>1 DEF HeldView
<1>4. CopyView' = [CopyView EXCEPT ![w] = Shown(m.run)]
  BY <1>1 DEF CopyView
<1> QED BY <1>2, <1>3, <1>4

\* No worker changes.
LEMMA SameWorkers ==
    ASSUME me' = me
    PROVE  UNCHANGED <<PointView, HeldView, CopyView>>
BY DEF PointView, HeldView, CopyView

\* There is one run only, so nothing is ever ahead of it.
LEMMA NothingAhead ==
    /\ UNCHANGED AheadView
    /\ AheadView' = Store!Queued("run")
    /\ AheadView' = Store!Unqueued("run")
<1>1. Store!Due \ {"run"} = {}
  BY DEF Store!Due
<1> QED BY <1>1 DEF AheadView, Store!Queued, Store!Unqueued

\* The row is written.
LEMMA RowWritten ==
    ASSUME NEW r, row' = r
    PROVE  RowView' = [RowView EXCEPT !["run"] = Shown(r)]
BY DEF RowView

\* The row is dated.
LEMMA RowDated ==
    ASSUME row \in RunType, NEW d, row' = [row EXCEPT !.date = d]
    PROVE  RowView' = [RowView EXCEPT !["run"].date = d]
<1>1. Shown(row') = [Shown(row) EXCEPT !.date = d]
  BY DEF Shown, RunType
<1> QED BY <1>1 DEF RowView

\* A worker goes idle.
LEMMA ReleaseView ==
    ASSUME me \in [Workers -> WorkerType], NEW w \in Workers, me' = [me EXCEPT ![w] = Idle]
    PROVE  Store!Release(w)
<1>1. StorePoint(Idle) = "idle" /\ Idle.pc = "idle" /\ Shown(Idle.run) = Store!Blank
  BY DEF StorePoint, Idle, Shown, Blank, Store!Blank
<1>2. /\ PointView' = [PointView EXCEPT ![w] = StorePoint(Idle)]
      /\ (Idle.pc = "idle" => HeldView' = [HeldView EXCEPT ![w] = "nobody"])
      /\ (Idle.pc # "idle" => HeldView' = [HeldView EXCEPT ![w] = "run"])
      /\ CopyView' = [CopyView EXCEPT ![w] = Shown(Idle.run)]
  BY WorkerView
<1> QED BY <1>1, <1>2 DEF Store!Release

\* Where RunStore sees a worker.
LEMMA PointIs ==
    ASSUME NEW m
    PROVE  /\ m.pc = "idle" => StorePoint(m) = "idle"
           /\ m.pc = "claimed" => StorePoint(m) = "claimed"
           /\ m.pc \in Driving => StorePoint(m) = "driving"
           /\ m.pc \in Escalating \cup {"save"} /\ m.quiet = TRUE => StorePoint(m) = "quiet"
           /\ m.pc \in Escalating \cup {"save"} /\ m.quiet = FALSE => StorePoint(m) = "saving"
<1>1. ASSUME m.pc = "idle" PROVE StorePoint(m) = "idle"
  BY <1>1 DEF StorePoint
<1>2. ASSUME m.pc = "claimed" PROVE StorePoint(m) = "claimed"
  BY <1>2 DEF StorePoint
<1>3. ASSUME m.pc \in Driving PROVE StorePoint(m) = "driving"
  BY <1>3 DEF StorePoint, Driving
<1>4. ASSUME m.pc \in Escalating \cup {"save"}
      PROVE  StorePoint(m) = IF m.quiet THEN "quiet" ELSE "saving"
  BY <1>4 DEF StorePoint, Escalating
<1> QED BY <1>1, <1>2, <1>3, <1>4

-----------------------------------------------------------------------------
(* Every step is a step of RunStore or leaves its view alone. *)

\* What RunStore does not see.
Unseen == UNCHANGED <<RowView, AheadView, PointView, HeldView, CopyView, wakes, crashes, dbFaults>>

\* A step of a run being driven: a drive that goes on is not seen; one that
\* settles on what to save is a Reschedule or a Finish.
LEMMA DriveView ==
    ASSUME DriverInv, NEW w \in Workers, me[w].pc \in Driving, SoundStep(w)
    PROVE  Unseen \/ Store!Reschedule(w) \/ Store!Finish(w)
<1>1. PICK m \in WorkerType :
         /\ me' = [me EXCEPT ![w] = m] /\ WorkerSound(m) /\ m.pc \in Busy
         /\ m.quiet = me[w].quiet /\ m.run.version = Run(w).version
         /\ m.pc \in Driving => m.run.date = Run(w).date
  BY DEF SoundStep, SoundMove
<1>2. /\ me \in [Workers -> WorkerType] /\ me[w].quiet = FALSE
      /\ Run(w).status = "RUNNING" /\ Run(w) = me[w].run /\ me[w].pc # "idle"
  BY DrivingFacts DEF DriverInv, TypeOK, Ready, WorkerType, Run, Driving
<1>3. /\ UNCHANGED <<RowView, AheadView, wakes, crashes, dbFaults>>
  BY NothingAhead DEF SoundStep, others, RowView
<1>4. /\ PointView[w] = "driving" /\ HeldView[w] = "run" /\ CopyView[w] = Shown(Run(w))
      /\ PointView \in [Workers -> {PointView[u] : u \in Workers}]
      /\ HeldView = [u \in Workers |-> HeldView[u]] /\ CopyView = [u \in Workers |-> CopyView[u]]
      /\ PointView = [u \in Workers |-> PointView[u]]
  BY <1>2, ViewValues, PointIs DEF PointView, HeldView, CopyView
<1>5. /\ PointView' = [PointView EXCEPT ![w] = StorePoint(m)]
      /\ m.pc # "idle" => HeldView' = [HeldView EXCEPT ![w] = "run"]
      /\ CopyView' = [CopyView EXCEPT ![w] = Shown(m.run)]
  BY <1>1, <1>2, WorkerView
<1>6. m.pc # "idle" /\ UNCHANGED HeldView
  BY <1>1, <1>4, <1>5 DEF Busy, Driving, Escalating
<1>7. PointSound(m) /\ m.run.version < VersionBound /\ m.quiet = FALSE
  BY <1>1, <1>2 DEF WorkerSound, Ranked
<1>8. CASE m.pc \in Driving
  <2>1. StorePoint(m) = "driving" /\ Shown(m.run) = Shown(Run(w))
    BY <1>1, <1>2, <1>7, <1>8, PointIs DEF PointSound, Shown
  <2> QED BY <1>3, <1>4, <1>5, <1>6, <2>1 DEF Unseen
<1>9. CASE m.pc \notin Driving
  <2>1. StorePoint(m) = "saving"
    BY <1>1, <1>7, <1>9, PointIs DEF Busy
  <2>2. \/ m.run.status = "RUNNING" /\ m.run.date = "future"
        \/ m.run.status \in Terminal /\ m.run.date = "null"
    BY <1>1, <1>7, <1>9 DEF PointSound, Busy, Terminal
  <2>3. /\ CopyView[w].version = m.run.version
        /\ Shown(m.run) = Store!Marked(CopyView[w], m.run.status, m.run.date)
    BY <1>1, <1>4 DEF Shown, Store!Marked
  <2>4. Store!Decide(w, m.run.status, m.run.date, "saving")
    BY <1>3, <1>4, <1>5, <1>6, <2>1, <2>3 DEF Store!Decide, Store!budgets
  <2> QED BY <1>7, <2>2, <2>3, <2>4 DEF Store!Reschedule, Store!Finish, Terminal, Store!Terminal
<1> QED BY <1>8, <1>9

\* Escalation is not seen.
LEMMA EscalateView ==
    ASSUME DriverInv, NEW w \in Workers, me[w].pc \in Escalating, SoundStep(w)
    PROVE  Unseen
<1>1. PICK m \in WorkerType :
         /\ me' = [me EXCEPT ![w] = m] /\ WorkerSound(m) /\ m.pc \in Busy
         /\ m.quiet = me[w].quiet /\ m.run.version = Run(w).version
         /\ m.run.status = Run(w).status /\ m.pc \notin Driving
  BY DEF SoundStep, SoundMove, Driving, Escalating
<1>2. /\ me \in [Workers -> WorkerType] /\ me[w].quiet \in BOOLEAN /\ Run(w) = me[w].run
      /\ PointSound(me[w]) /\ me[w].pc # "idle"
  BY DEF DriverInv, TypeOK, WorkerType, WorkerSound, Run, Escalating
<1>3. /\ UNCHANGED <<RowView, AheadView, wakes, crashes, dbFaults>>
  BY NothingAhead DEF SoundStep, others, RowView
<1>4. /\ PointView' = [PointView EXCEPT ![w] = StorePoint(m)]
      /\ m.pc # "idle" => HeldView' = [HeldView EXCEPT ![w] = "run"]
      /\ CopyView' = [CopyView EXCEPT ![w] = Shown(m.run)]
  BY <1>1, <1>2, WorkerView
<1>5. m.pc \in Escalating \cup {"save"} /\ m.pc # "idle" /\ PointSound(m)
  BY <1>1 DEF Busy, Driving, Escalating, WorkerSound
<1>6. StorePoint(m) = StorePoint(me[w])
  BY <1>1, <1>2, <1>5, PointIs
<1>7. Run(w).status \in {"FAILED", "REJECTED"} /\ Run(w).date = "null"
  BY <1>2 DEF PointSound
<1>8. m.run.date = "null"
  BY <1>1, <1>5, <1>7 DEF PointSound
<1>9. Shown(m.run) = Shown(me[w].run)
  BY <1>1, <1>2, <1>7, <1>8 DEF Shown
<1>10. UNCHANGED <<PointView, HeldView, CopyView>>
  BY <1>2, <1>4, <1>5, <1>6, <1>9 DEF PointView, HeldView, CopyView
<1> QED BY <1>3, <1>10 DEF Unseen

\* Claiming, and loading what was claimed.
LEMMA ClaimView ==
    ASSUME DriverInv, NEW w \in Workers, Claim(w)
    PROVE  Store!Claim(w, "run")
<1>1. /\ me[w].pc = "idle" /\ row.date = "due" /\ row' = [row EXCEPT !.date = "future"]
      /\ me' = [me EXCEPT ![w] = [me[w] EXCEPT !.pc = "claimed"]]
      /\ UNCHANGED <<wakes, crashes, dbFaults>>
  BY DEF Claim
<1>2. /\ me \in [Workers -> WorkerType] /\ me[w] \in WorkerType /\ row \in RunType
  BY DEF DriverInv, TypeOK
<1> DEFINE m == [me[w] EXCEPT !.pc = "claimed"]
<1>3. m.pc = "claimed" /\ m.run = me[w].run
  BY <1>2 DEF WorkerType
<1> HIDE DEF m
<1>4. me' = [me EXCEPT ![w] = m]
  BY <1>1 DEF m
<1>5. /\ PointView' = [PointView EXCEPT ![w] = "claimed"]
      /\ HeldView' = [HeldView EXCEPT ![w] = "run"]
      /\ CopyView' = [CopyView EXCEPT ![w] = CopyView[w]]
  <2>1. StorePoint(m) = "claimed"
    BY <1>3, PointIs
  <2>2. CopyView[w] = Shown(m.run)
    BY <1>3, ViewValues
  <2>3. m.pc # "idle"
    BY <1>3
  <2>4. /\ PointView' = [PointView EXCEPT ![w] = StorePoint(m)]
        /\ (m.pc = "idle" => HeldView' = [HeldView EXCEPT ![w] = "nobody"])
        /\ (m.pc # "idle" => HeldView' = [HeldView EXCEPT ![w] = "run"])
        /\ CopyView' = [CopyView EXCEPT ![w] = Shown(m.run)]
    BY <1>2, <1>4, WorkerView
  <2> QED BY <2>1, <2>2, <2>3, <2>4
<1>6. UNCHANGED CopyView
  BY <1>5 DEF CopyView
<1>7. PointView[w] = "idle" /\ RowView["run"].date = "due"
  <2>1. StorePoint(me[w]) = "idle"
    BY <1>1, PointIs
  <2>2. PointView[w] = StorePoint(me[w])
    BY ViewValues
  <2>3. RowView["run"] = Shown(row)
    BY ViewValues
  <2>4. Shown(row).date = row.date
    BY DEF Shown
  <2> QED BY <1>1, <2>1, <2>2, <2>3, <2>4
<1>8. RowView' = [RowView EXCEPT !["run"].date = "future"]
  BY <1>1, <1>2, RowDated
<1> QED BY <1>1, <1>5, <1>6, <1>7, <1>8, NothingAhead, ViewValues
        DEF Store!Claim, Store!Lease, Store!Claimable, Store!LeaseDate, Store!budgets

\* Loading is loading of the store.
LEMMA LoadView ==
    ASSUME DriverInv, NEW w \in Workers, Load(w)
    PROVE  Store!Load(w)
<1>1. /\ me[w].pc = "claimed" /\ UNCHANGED <<row, wakes, crashes, dbFaults>>
  BY DEF Load
<1>2. /\ me \in [Workers -> WorkerType] /\ me[w] \in WorkerType /\ row \in RunType
  BY DEF DriverInv, TypeOK
<1>3. /\ PointView[w] = "claimed" /\ HeldView[w] = "run" /\ RowView["run"] = Shown(row)
      /\ RowView["run"].status = row.status
  <2>1. StorePoint(me[w]) = "claimed" /\ me[w].pc # "idle"
    BY <1>1, PointIs
  <2>2. PointView[w] = StorePoint(me[w])
    BY ViewValues
  <2>3. HeldView[w] = "run"
    BY <2>1, ViewValues
  <2>4. RowView["run"] = Shown(row)
    BY ViewValues
  <2>5. Shown(row).status = row.status
    BY DEF Shown
  <2> QED BY <2>1, <2>2, <2>3, <2>4, <2>5
<1>4. UNCHANGED <<RowView, AheadView>>
  BY <1>1, NothingAhead DEF RowView
<1>5. CASE ~Unfinished /\ me' = [me EXCEPT ![w] = Idle]
  BY <1>1, <1>2, <1>3, <1>4, <1>5, ReleaseView
     DEF Unfinished, Store!Load, Store!budgets, Active, Store!Active
<1>6. CASE Unfinished /\ Goto(w, IF Late THEN "overdue" ELSE "step",
                  [row EXCEPT !.status = "RUNNING", !.step = IF @ = "none" THEN Plan[1] ELSE @])
  <2> DEFINE p   == IF Late THEN "overdue" ELSE "step"
             run == [row EXCEPT !.status = "RUNNING", !.step = IF @ = "none" THEN Plan[1] ELSE @]
             m   == [pc |-> p, err |-> me[w].err, order |-> me[w].order, quiet |-> me[w].quiet,
                     run |-> run]
  <2>1. me' = [me EXCEPT ![w] = m]
    BY <1>2, <1>6, GotoIs
  <2>2. m.pc \in Driving /\ m.pc # "idle" /\ m.run = run
    BY DEF Driving
  <2>3. run.status = "RUNNING" /\ run.date = row.date /\ run.version = row.version
    BY <1>2 DEF RunType
  <2> HIDE DEF m, run
  <2>4. Shown(m.run) = Store!Marked(RowView["run"], "RUNNING", RowView["run"].date)
    BY <1>3, <2>2, <2>3 DEF Shown, Store!Marked
  <2>5. /\ PointView' = [PointView EXCEPT ![w] = "driving"]
        /\ HeldView' = [HeldView EXCEPT ![w] = "run"]
        /\ CopyView' = [CopyView EXCEPT ![w] = Shown(m.run)]
    <3>1. StorePoint(m) = "driving"
      BY <2>2, PointIs
    <3>2. /\ PointView' = [PointView EXCEPT ![w] = StorePoint(m)]
          /\ (m.pc = "idle" => HeldView' = [HeldView EXCEPT ![w] = "nobody"])
          /\ (m.pc # "idle" => HeldView' = [HeldView EXCEPT ![w] = "run"])
          /\ CopyView' = [CopyView EXCEPT ![w] = Shown(m.run)]
      BY <1>2, <2>1, WorkerView
    <3> QED BY <2>2, <3>1, <3>2
  <2>6. UNCHANGED HeldView
    BY <1>3, <2>5 DEF HeldView
  <2> QED BY <1>1, <1>3, <1>4, <1>6, <2>4, <2>5, <2>6
          DEF Unfinished, Store!Load, Store!budgets, Active, Store!Active
<1> QED BY <1>5, <1>6 DEF Load

\* What RunStore sees of a worker that is about to save.
LEMMA SaverView ==
    ASSUME DriverInv, NEW w \in Workers, me[w].pc = "save"
    PROVE  /\ HeldView[w] = "run" /\ CopyView[w] = Shown(Run(w)) /\ RowView["run"] = Shown(row)
           /\ me[w].quiet = TRUE => PointView[w] = "quiet"
           /\ me[w].quiet = FALSE => PointView[w] = "saving"
           /\ VersionMatches(w) <=> Store!VersionMatches(w)
<1>1. me[w].pc \in Escalating \cup {"save"} /\ me[w].pc # "idle"
  OBVIOUS
<1>2. PointView[w] = StorePoint(me[w])
  BY ViewValues
<1>3. HeldView[w] = "run"
  BY <1>1, ViewValues
<1>4. CopyView[w] = Shown(Run(w))
  BY ViewValues DEF Run
<1>5. RowView["run"] = Shown(row)
  BY ViewValues
<1>6. /\ me[w].quiet = TRUE => StorePoint(me[w]) = "quiet"
      /\ me[w].quiet = FALSE => StorePoint(me[w]) = "saving"
  BY <1>1, PointIs
<1>7. Shown(row).version = row.version /\ Shown(Run(w)).version = Run(w).version
  BY DEF Shown
<1>8. VersionMatches(w) <=> Store!VersionMatches(w)
  BY <1>3, <1>4, <1>5, <1>7 DEF VersionMatches, Store!VersionMatches
<1> QED BY <1>2, <1>3, <1>4, <1>5, <1>6, <1>8

\* A save that takes effect.
LEMMA WriteView ==
    ASSUME DriverInv, NEW w \in Workers, me[w].pc = "save", Write(w)
    PROVE  Store!Write(w)
<1>1. /\ VersionMatches(w) /\ row' = [Run(w) EXCEPT !.version = @ + 1]
  BY DEF Write
<1>2. Run(w) \in RunType
  BY DEF DriverInv, TypeOK, WorkerType, Run
<1>3. HeldView[w] = "run" /\ CopyView[w] = Shown(Run(w)) /\ Store!VersionMatches(w)
  BY <1>1, SaverView
<1>4. Shown(row') = Store!Saved(w)
  BY <1>1, <1>2, <1>3 DEF Shown, Store!Saved, RunType
<1>5. RowView' = [RowView EXCEPT !["run"] = Shown(row')]
  BY RowWritten
<1> QED BY <1>3, <1>4, <1>5, NothingAhead DEF Store!Write

\* A save is the store's, or is refused as stale.
LEMMA SaveView ==
    ASSUME DriverInv, NEW w \in Workers, Save(w)
    PROVE  Store!Save(w) \/ Store!SaveStale(w)
<1>1. /\ me[w].pc = "save" /\ me' = [me EXCEPT ![w] = Idle]
      /\ UNCHANGED <<wakes, crashes, dbFaults>>
      /\ Write(w) \/ (~VersionMatches(w) /\ UNCHANGED row)
  BY DEF Save
<1>2. me \in [Workers -> WorkerType] /\ me[w].quiet \in BOOLEAN
  BY DEF DriverInv, TypeOK, WorkerType
<1>3. PointView[w] \in {"saving", "quiet"}
  BY <1>1, <1>2, SaverView
<1>4. Store!Release(w)
  BY <1>1, <1>2, ReleaseView
<1>5. CASE Write(w)
  BY <1>1, <1>3, <1>4, <1>5, WriteView DEF Store!Save, Store!budgets
<1>6. CASE ~VersionMatches(w) /\ UNCHANGED row
  <2>1. ~Store!VersionMatches(w)
    BY <1>1, <1>6, SaverView
  <2>2. UNCHANGED <<RowView, AheadView>>
    BY <1>6, NothingAhead DEF RowView
  <2> QED BY <1>1, <1>3, <1>4, <2>1, <2>2 DEF Store!SaveStale, Store!budgets
<1> QED BY <1>1, <1>5, <1>6

\* An exception out of save().
LEMMA SaveRaisesView ==
    ASSUME DriverInv, NEW w \in Workers, SaveRaises(w)
    PROVE  Store!SaveRaises(w)
<1>1. /\ me[w].pc = "save" /\ dbFaults < MaxDbFaults /\ dbFaults' = dbFaults + 1
      /\ UNCHANGED <<wakes, crashes>>
      /\ Write(w) \/ UNCHANGED row
  BY DEF SaveRaises
<1>2. /\ me \in [Workers -> WorkerType] /\ me[w] \in WorkerType /\ me[w].quiet \in BOOLEAN
      /\ Run(w) \in RunType /\ PointSound(me[w])
  BY DEF DriverInv, TypeOK, WorkerType, WorkerSound, Run
<1>3. Store!Write(w) \/ UNCHANGED <<RowView, AheadView>>
  BY <1>1, WriteView, NothingAhead DEF RowView
<1>4. ASSUME NEW m, me' = [me EXCEPT ![w] = m], me[w].quiet = FALSE, m.quiet = TRUE,
             m.pc \in Escalating \cup {"save"}, m.run.status = "FAILED", m.run.date = "null",
             m.run.version = Run(w).version
      PROVE  Store!AfterSaveRaised(w)
  <2>1. PointView[w] = "saving" /\ HeldView[w] = "run" /\ CopyView[w] = Shown(Run(w))
    BY <1>1, <1>4, SaverView
  <2>2. m.pc # "idle" /\ StorePoint(m) = "quiet"
    BY <1>4, PointIs DEF Escalating
  <2>3. /\ PointView' = [PointView EXCEPT ![w] = StorePoint(m)]
        /\ (m.pc # "idle" => HeldView' = [HeldView EXCEPT ![w] = "run"])
        /\ CopyView' = [CopyView EXCEPT ![w] = Shown(m.run)]
    BY <1>2, <1>4, WorkerView
  <2>4. Shown(m.run) = Store!Marked(CopyView[w], "FAILED", "null")
    BY <1>4, <2>1 DEF Shown, Store!Marked
  <2>5. UNCHANGED HeldView
    BY <2>1, <2>2, <2>3 DEF HeldView
  <2> QED BY <2>1, <2>2, <2>3, <2>4, <2>5 DEF Store!AfterSaveRaised
<1>5. ASSUME ~me[w].quiet, SaveRaised(w) PROVE Store!AfterSaveRaised(w)
  <2>1. me[w].quiet = FALSE
    BY <1>2, <1>5
  <2>2. CASE Run(w).status = "FAILED"
    <3> DEFINE m == [me[w] EXCEPT !.quiet = TRUE]
    <3>1. me' = [me EXCEPT ![w] = m]
      BY <1>5, <2>2 DEF SaveRaised
    <3>2. m.quiet = TRUE /\ m.pc = "save" /\ m.run = Run(w)
      BY <1>1, <1>2 DEF WorkerType, Run
    <3>3. Run(w).date = "null"
      BY <1>1, <1>2, <2>2 DEF PointSound, Run
    <3> HIDE DEF m
    <3> QED BY <1>4, <2>1, <2>2, <3>1, <3>2, <3>3
  <2>3. CASE Run(w).status # "FAILED"
    <3> DEFINE m == [[[[me[w] EXCEPT !.quiet = TRUE] EXCEPT !.pc = "incident"]
                        EXCEPT !.err = "unclassified"] EXCEPT !.run = Failed(Run(w))]
    <3>1. me' = [me EXCEPT ![w] = m]
      BY <1>5, <2>3 DEF SaveRaised
    <3>2. m.quiet = TRUE /\ m.pc = "incident" /\ m.run = Failed(Run(w))
      BY <1>2 DEF WorkerType
    <3>3. /\ Failed(Run(w)).status = "FAILED" /\ Failed(Run(w)).date = "null"
          /\ Failed(Run(w)).version = Run(w).version
      BY <1>2 DEF Failed, RunType
    <3>4. m.pc \in Escalating \cup {"save"}
      BY <3>2 DEF Escalating
    <3> HIDE DEF m
    <3> QED BY <1>4, <2>1, <3>1, <3>2, <3>3, <3>4
  <2> QED BY <2>2, <2>3
<1>6. ASSUME me[w].quiet, me' = [me EXCEPT ![w] = Idle] PROVE Store!AfterSaveRaised(w)
  <2>1. me[w].quiet = TRUE
    BY <1>2, <1>6
  <2>2. PointView[w] = "quiet"
    BY <1>1, <2>1, SaverView
  <2> QED BY <1>2, <1>6, <2>2, ReleaseView DEF Store!AfterSaveRaised
<1>7. Store!AfterSaveRaised(w)
  BY <1>5, <1>6 DEF SaveRaises
<1> QED BY <1>1, <1>3, <1>7 DEF Store!SaveRaises

\* A crash is the store's.
LEMMA CrashView ==
    ASSUME DriverInv, NEW w \in Workers, Crash(w)
    PROVE  Store!Crash(w)
<1>1. /\ me[w].pc # "idle" /\ crashes < MaxCrashes /\ crashes' = crashes + 1
      /\ me' = [me EXCEPT ![w] = Idle] /\ UNCHANGED <<row, wakes, dbFaults>>
  BY DEF Crash
<1>2. me \in [Workers -> WorkerType] /\ me[w] \in WorkerType
  BY DEF DriverInv, TypeOK
<1>3. PointView[w] # "idle"
  <2>1. StorePoint(me[w]) # "idle"
    BY <1>1 DEF StorePoint
  <2>2. PointView[w] = StorePoint(me[w])
    BY ViewValues
  <2> QED BY <2>1, <2>2
<1>4. UNCHANGED <<RowView, AheadView>>
  BY <1>1, NothingAhead DEF RowView
<1> QED BY <1>1, <1>2, <1>3, <1>4, ReleaseView DEF Store!Crash

\* The API triggers the run, and a date passes.
LEMMA TriggerView ==
    ASSUME DriverInv, NEW kind \in Requests, Trigger(kind)
    PROVE  Store!Trigger("run")
<1>1. /\ request = "none" /\ UNCHANGED <<me, wakes, crashes, dbFaults>>
      /\ row' = [Blank EXCEPT !.status = "PENDING", !.date = "due", !.st = NewState(kind)]
  BY DEF Trigger
<1>2. row = Blank
  BY <1>1 DEF DriverInv, RowSound
<1>3. RowView["run"] = Shown(Blank)
  BY <1>2 DEF RowView
<1>4. /\ Shown(Blank).status = "ABSENT"
      /\ Shown(row') = Store!Marked(Shown(Blank), "PENDING", "due")
  BY <1>1 DEF Shown, Blank, Store!Marked
<1>5. RowView' = [RowView EXCEPT !["run"] = Shown(row')]
  BY RowWritten
<1> QED BY <1>1, <1>3, <1>4, <1>5, NothingAhead, SameWorkers DEF Store!Trigger, Store!budgets

\* Time passing is the elapsing of the one row.
LEMMA ElapseView ==
    ASSUME DriverInv, Elapse
    PROVE  Store!Elapse("run")
<1>1. /\ row.date = "future" /\ row' = [row EXCEPT !.date = "due"]
      /\ LeaseCovers => \A w \in Workers : me[w].pc = "idle"
      /\ UNCHANGED <<me, wakes, crashes, dbFaults>>
  BY DEF Elapse
<1>2. RowView["run"].date = "future"
  <2>1. RowView["run"] = Shown(row)
    BY DEF RowView
  <2> QED BY <1>1, <2>1 DEF Shown
<1>3. LeaseCovers => Store!Holders("run") = {}
  BY <1>1 DEF Store!Holders, HeldView
<1>4. RowView' = [RowView EXCEPT !["run"].date = "due"]
  BY <1>1, RowDated DEF DriverInv, TypeOK
<1> QED BY <1>1, <1>2, <1>3, <1>4, NothingAhead, SameWorkers DEF Store!Elapse, Store!budgets

\* A callback wakes the run, or finds it over and is not seen.
LEMMA WakeView ==
    ASSUME DriverInv, WakeRun
    PROVE  Unseen \/ Store!Wake("run")
<1>1. found /\ UNCHANGED <<me, crashes, dbFaults>>
  BY DEF WakeRun
<1>2. wakes < MaxWakes /\ row \in RunType
  BY <1>1 DEF DriverInv, TypeOK
<1>3. CASE row.status \in Active /\ row' = [row EXCEPT !.date = "due"] /\ wakes' = wakes + 1
  <2>1. RowView["run"] = Shown(row)
    BY DEF RowView
  <2>2. Store!Wakeable("run")
    BY <1>3, <2>1 DEF Shown, Store!Wakeable, Active, Store!Active
  <2>3. RowView' = [RowView EXCEPT !["run"].date = "due"]
    BY <1>2, <1>3, RowDated
  <2> QED BY <1>1, <1>2, <1>3, <2>2, <2>3, NothingAhead, SameWorkers DEF Store!Wake
<1>4. CASE UNCHANGED <<row, wakes>>
  BY <1>1, <1>4, NothingAhead, SameWorkers DEF Unseen, RowView
<1> QED BY <1>3, <1>4 DEF WakeRun

\* Step by step, the driver is one of the drives RunStore allows, so what is
\* proved of RunStore holds of it.
THEOREM DriverImplementsStore == Spec => ImplementsStore
<1>1. ASSUME Init PROVE Store!Init
  <2>1. row = Blank /\ me = [w \in Workers |-> Idle] /\ wakes = 0 /\ crashes = 0 /\ dbFaults = 0
    BY <1>1 DEF Init
  <2>2. RowView = [r \in {"run"} |-> Store!Blank]
    BY <2>1 DEF RowView, Shown, Blank, Store!Blank
  <2>3. AheadView = [r \in {"run"} |-> {}]
    BY DEF AheadView
  <2>4. StorePoint(Idle) = "idle" /\ Idle.pc = "idle" /\ Shown(Idle.run) = Store!Blank
    BY DEF StorePoint, Idle, Shown, Blank, Store!Blank
  <2>5. /\ PointView = [w \in Workers |-> "idle"] /\ HeldView = [w \in Workers |-> "nobody"]
        /\ CopyView = [w \in Workers |-> Store!Blank]
    BY <2>1, <2>4 DEF PointView, HeldView, CopyView
  <2> QED BY <2>1, <2>2, <2>3, <2>5 DEF Store!Init
<1>2. ASSUME DriverInv, [Next]_vars PROVE [Store!Next]_(Store!vars)
  <2>1. ASSUME Unseen PROVE UNCHANGED Store!vars
    BY <2>1 DEF Unseen, Store!vars
  <2>2. ASSUME UNCHANGED <<row, me, wakes, crashes, dbFaults>> PROVE Unseen
    BY <2>2, NothingAhead, SameWorkers DEF Unseen, RowView
  <2>3. CASE UNCHANGED vars
    BY <2>1, <2>2, <2>3 DEF vars
  <2>4. ASSUME NEW kind \in Requests, Trigger(kind) PROVE Store!Next
    BY <1>2, <2>4, TriggerView DEF Store!Next
  <2>5. ASSUME NEW w \in Workers, Work(w) \/ SaveRaises(w) \/ Crash(w)
        PROVE  Store!Next \/ Unseen
    <3>1. CASE Claim(w)
      BY <1>2, <3>1, ClaimView DEF Store!Next, Store!Work
    <3>2. CASE Load(w)
      BY <1>2, <3>2, LoadView DEF Store!Next, Store!Work
    <3>3. CASE ExecuteStep(w)
      <4>1. me[w].pc \in Driving
        BY <3>3 DEF ExecuteStep, DeadlineExceeded, CreateTicket, OrderTicket, TagTicket,
           ConfigureResource, AwaitApproval, ValidateResource, TriggerEngine, PollEngine,
           FinalizeResource, MarkDeleted, DeleteRecord, CloseTicket, SubmitLegacy, At, Driving
      <4> QED BY <1>2, <3>3, <4>1, ExecuteStepSound, DriveView DEF Store!Next, Store!Work
    <3>4. CASE Escalate(w)
      <4>1. me[w].pc \in Escalating
        BY <3>4 DEF Escalate, OpenIncident, LogDocumentationIncident,
           ResolveDocumentationIncident, CloseUnsuccessful, ReleaseResource, Escalating
      <4> QED BY <1>2, <3>4, <4>1, EscalateSound, EscalateView
    <3>5. CASE Save(w)
      BY <1>2, <3>5, SaveView DEF Store!Next, Store!Work
    <3>6. CASE SaveRaises(w)
      BY <1>2, <3>6, SaveRaisesView DEF Store!Next, Store!Fault
    <3>7. CASE Crash(w)
      BY <1>2, <3>7, CrashView DEF Store!Next, Store!Fault
    <3> QED BY <2>5, <3>1, <3>2, <3>3, <3>4, <3>5, <3>6, <3>7 DEF Work
  <2>6. CASE \E t \in TicketIds, answer \in {"approved", "rejected"} : DecideApproval(t, answer)
    BY <2>1, <2>2, <2>6 DEF DecideApproval
  <2>7. CASE \E k \in EngineIds : FinishEngine(k)
    BY <2>1, <2>2, <2>7 DEF FinishEngine
  <2>8. CASE Overrun \/ FindRun
    BY <2>1, <2>2, <2>8 DEF Overrun, FindRun
  <2>9. CASE Elapse
    BY <1>2, <2>9, ElapseView DEF Store!Next
  <2>10. CASE WakeRun
    BY <1>2, <2>1, <2>10, WakeView DEF Store!Next
  <2> QED BY <1>2, <2>1, <2>3, <2>4, <2>5, <2>6, <2>7, <2>8, <2>9, <2>10 DEF Next
<1> QED BY <1>1, <1>2, DriverInvariant, PTL DEF Spec, ImplementsStore, Store!Spec

-----------------------------------------------------------------------------
(* The lifecycle. *)

\* What a step makes of the status of the run: a run is triggered, its save
\* takes it on, or ends it.
LEMMA StatusSteps ==
    ASSUME DriverInv, [Next]_vars
    PROVE  \/ row'.status = row.status
           \/ row.status = "ABSENT" /\ row'.status = "PENDING"
           \/ row.status \in Active /\ row'.status \in {"RUNNING"} \cup Terminal
<1>1. row \in RunType
  BY DEF DriverInv, TypeOK
<1>2. ASSUME NEW d, row' = [row EXCEPT !.date = d] PROVE row'.status = row.status
  BY <1>1, <1>2 DEF RunType
<1>3. ASSUME NEW w \in Workers, me[w].pc = "save", Write(w)
      PROVE  row.status \in Active /\ row'.status \in {"RUNNING"} \cup Terminal
  <2>1. row.version = Run(w).version /\ row' = [Run(w) EXCEPT !.version = @ + 1]
    BY <1>3 DEF Write, VersionMatches
  <2>2. /\ PointSound(me[w]) /\ Tracks(me[w]) /\ Run(w) \in RunType
    BY <1>3 DEF DriverInv, WorkerSound, Busy, TypeOK, WorkerType, Run
  <2>3. row.status \in Active
    BY <2>1, <2>2 DEF Tracks, Run
  <2>4. Run(w).status \in {"RUNNING"} \cup Terminal
    BY <1>3, <2>2 DEF PointSound, Run
  <2>5. row'.status = Run(w).status
    BY <2>1, <2>2 DEF RunType
  <2> QED BY <2>3, <2>4, <2>5
<1> QED BY <1>2, <1>3, RowSteps

\* A run that is not over has a date, and no other run has one.
Scheduled == row.date = "null" <=> row.status \notin Active

\* What a step makes of the date and the version of a run that is scheduled.
LEMMA ScheduledSteps ==
    ASSUME DriverInv, [Next]_vars, Scheduled
    PROVE  /\ Scheduled'
           /\ row.status \in Terminal => row' = row
           /\ \/ row'.version = row.version + 1
              \/ /\ row'.version = row.version
                 /\ row.status # "ABSENT" => row'.status = row.status
<1>1. row \in RunType /\ Active \cap Terminal = {} /\ "ABSENT" \notin Active
  BY DEF DriverInv, TypeOK, Active, Terminal
<1>2. CASE row' = row
  BY <1>2 DEF Scheduled
<1>3. CASE /\ row.status = "ABSENT" /\ row'.status = "PENDING" /\ row'.date = "due"
           /\ row'.version = row.version
  BY <1>3 DEF Scheduled, Active, Terminal
<1>4. ASSUME row.date # "null" \/ row.status \in Active,
             NEW d \in {"future", "due"}, row' = [row EXCEPT !.date = d]
      PROVE  /\ Scheduled' /\ row.status \notin Terminal
             /\ row'.version = row.version /\ row'.status = row.status
  <2>1. row'.version = row.version /\ row'.status = row.status /\ row'.date = d
    BY <1>1, <1>4 DEF RunType
  <2>2. row.status \in Active
    BY <1>4 DEF Scheduled
  <2> QED BY <1>1, <2>1, <2>2 DEF Scheduled
<1>5. ASSUME NEW w \in Workers, me[w].pc = "save", Write(w)
      PROVE  Scheduled' /\ row.status \notin Terminal /\ row'.version = row.version + 1
  <2>1. row.version = Run(w).version /\ row' = [Run(w) EXCEPT !.version = @ + 1]
    BY <1>5 DEF Write, VersionMatches
  <2>2. PointSound(me[w]) /\ Tracks(me[w]) /\ Run(w) \in RunType
    BY <1>5 DEF DriverInv, WorkerSound, Busy, TypeOK, WorkerType, Run
  <2>3. row.status \in Active
    BY <2>1, <2>2 DEF Tracks, Run
  <2>4. \/ Run(w).status = "RUNNING" /\ Run(w).date = "future"
        \/ Run(w).status \in Terminal /\ Run(w).date = "null"
    BY <1>5, <2>2 DEF PointSound, Run
  <2>5. row'.status = Run(w).status /\ row'.date = Run(w).date /\ row'.version = row.version + 1
    BY <2>1, <2>2 DEF RunType
  <2> QED BY <1>1, <2>3, <2>4, <2>5 DEF Scheduled, Active
<1> QED BY <1>2, <1>3, <1>4, <1>5, RowSteps

\* Driven step by step, a run that is not over always has a date on which a
\* worker comes back to it, and one that is over has none (the save of every
\* drive, wake, and claim_due, which does not look at the status).
THEOREM DrivenRunsAreScheduled == Spec => [](Store!NoStrandedRun /\ Store!TerminalAtRest)
<1>1. Init => Scheduled
  BY DEF Init, Scheduled, Blank, Active
<1>2. DriverInv /\ Scheduled /\ [Next]_vars => Scheduled'
  BY ScheduledSteps
<1>3. Scheduled => Store!NoStrandedRun /\ Store!TerminalAtRest
  <2>1. RowView["run"] = Shown(row)
    BY DEF RowView
  <2>2. RowView["run"].status = row.status /\ RowView["run"].date = row.date
    BY <2>1 DEF Shown
  <2> QED BY <2>2 DEF Scheduled, Store!NoStrandedRun, Store!TerminalAtRest, Active, Terminal,
                      Store!Active, Store!Terminal
<1> QED BY <1>1, <1>2, <1>3, DriverInvariant, PTL DEF Spec

\* The row of a run that is over never changes, and nobody changes the status of
\* a run without taking the next version (save, also of a drive that was
\* overtaken, or whose save was lost).
THEOREM DrivenRunsEndForGood == Spec => Store!TerminalIsFinal /\ Store!VersionsGrow
<1>1. Init => Scheduled
  BY DEF Init, Scheduled, Blank, Active
<1>2. DriverInv /\ Scheduled /\ [Next]_vars => Scheduled'
  BY ScheduledSteps
<1> DEFINE Final == \A r \in {"run"} :
                       RowView[r].status \in Store!Terminal => RowView'[r] = RowView[r]
           Grow  == \A r \in {"run"} :
                       \/ RowView'[r].version = RowView[r].version + 1
                       \/ /\ RowView'[r].version = RowView[r].version
                          /\ RowView[r].status # "ABSENT" => RowView'[r].status = RowView[r].status
<1>3. ASSUME DriverInv, Scheduled, [Next]_vars
      PROVE  Final /\ Grow
  <2>1. RowView["run"] = Shown(row) /\ RowView'["run"] = Shown(row')
    BY DEF RowView, Shown
  <2>2. /\ RowView["run"].status = row.status /\ RowView'["run"].status = row'.status
        /\ RowView["run"].version = row.version /\ RowView'["run"].version = row'.version
    BY <2>1 DEF Shown
  <2>3. Store!Terminal = Terminal
    BY DEF Terminal, Store!Terminal
  <2>4. Final
    BY <1>3, <2>1, <2>2, <2>3, ScheduledSteps
  <2>5. Grow
    BY <1>3, <2>2, ScheduledSteps
  <2> QED BY <2>4, <2>5
<1>4. DriverInv /\ Scheduled /\ [Next]_vars => [Final]_(Store!vars) /\ [Grow]_(Store!vars)
  <2> HIDE DEF Final, Grow
  <2> QED BY <1>3
<1> QED BY <1>1, <1>2, <1>4, DriverInvariant, PTL
        DEF Spec, Store!TerminalIsFinal, Store!VersionsGrow

\* Driven step by step by any number of workers, whose drives overlap, die and
\* are taken up again, a run goes through the lifecycle that RunLifecycle
\* promises to whoever watches it: what RunStore implements through RowView, the
\* driver implements too.
THEOREM DriverImplementsLifecycle == Spec => Store!ImplementsLifecycle
<1> DEFINE st == [r \in {"run"} |-> RowView[r].status]
<1>1. Init => st = [r \in {"run"} |-> "ABSENT"]
  BY DEF Init, RowView, Shown, Blank
<1>2. ASSUME DriverInv, [Next]_vars
      PROVE  [Store!Lifecycle!Next]_st
  <2>1. st' = [st EXCEPT !["run"] = row'.status] /\ st["run"] = row.status
    BY DEF RowView, Shown
  <2>2. row'.status = row.status => st' = st
    BY DEF RowView, Shown
  <2>3. CASE row.status = "ABSENT" /\ row'.status = "PENDING"
    <3>1. st["run"] = "ABSENT" /\ st' = [st EXCEPT !["run"] = "PENDING"]
      BY <2>1, <2>3
    <3>2. Store!Lifecycle!Trigger("run")
      BY <3>1 DEF Store!Lifecycle!Trigger
    <3> QED BY <3>2 DEF Store!Lifecycle!Next
  <2>4. CASE row.status \in Active /\ row'.status = "RUNNING"
    <3>1. st["run"] \in Store!Lifecycle!Active /\ st' = [st EXCEPT !["run"] = "RUNNING"]
      BY <2>1, <2>4 DEF Active, Store!Lifecycle!Active
    <3>2. Store!Lifecycle!Continue("run")
      BY <3>1 DEF Store!Lifecycle!Continue
    <3> QED BY <3>2 DEF Store!Lifecycle!Next
  <2>5. CASE row.status \in Active /\ row'.status \in Terminal
    <3>1. PICK end \in Store!Lifecycle!Terminal : end = row'.status
      BY <2>5 DEF Terminal, Store!Lifecycle!Terminal
    <3>2. st["run"] \in Store!Lifecycle!Active /\ st' = [st EXCEPT !["run"] = end]
      BY <2>1, <2>5, <3>1 DEF Active, Store!Lifecycle!Active
    <3>3. Store!Lifecycle!Settle("run")
      BY <3>2 DEF Store!Lifecycle!Settle
    <3> QED BY <3>3 DEF Store!Lifecycle!Next
  <2> QED BY <1>2, <2>2, <2>3, <2>4, <2>5, StatusSteps
<1> QED BY <1>1, <1>2, DriverInvariant, PTL
        DEF Spec, Store!ImplementsLifecycle, Store!Lifecycle!Spec, Store!Lifecycle!Init
=============================================================================
