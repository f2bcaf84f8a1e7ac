------------------------ MODULE RunDriverWorldProofs ------------------------
(***************************************************************************)
(* What a run has done to the world when it is over: the record, the       *)
(* ticket and who was told, after drives that died and calls that failed.  *)
(***************************************************************************)
EXTENDS RunDriverSoleProofs

-----------------------------------------------------------------------------
(* The inductive invariants: what the copies say of the world. *)

\* The steps past the configuration of the record.
PastConfigure == {"AWAIT_APPROVAL"} \cup AfterApproval

\* The markers of a copy stand for what was done to the world.
DoneAsMarked(run) ==
    /\ run.st.vendor = "real" => run.st.finalized
    /\ run.st.finalized =>
          /\ HasResource /\ run.st.configured
          /\ request = "DELETE" => AllRecords({"absent"})
          /\ request # "DELETE" => /\ ext.record[run.st.vendor] = "READY"
                                   /\ AllRecords({"absent", "READY"})
    /\ run.st.submitted => ext.handovers >= 1

\* The steps a copy has behind it are marked, and the last one has closed the
\* ticket.
MarkedAsDone(run) ==
    /\ request = "AUTOMATION" /\ run.status # "ABSENT" => run.st.ticket # 0
    /\ HasResource /\ run.step \in PastConfigure => run.st.configured
    /\ HasResource /\ run.step = "CLOSE_TICKET" => run.st.finalized
    /\ run.status \in Active => ~run.st.closed
    /\ run.status = "COMPLETED" =>
          /\ HasResource => run.st.finalized
          /\ request # "LEGACY" => ext.ticket[run.st.ticket] = "closed"
          /\ request = "LEGACY" => run.st.submitted

\* The same of the row, and of the copy of a worker whose save() raised: it does
\* not touch what the row says is done.
AllDone ==
    /\ ext.record["real"] \in {"absent", "READY"}
    /\ request \in {"none", "DELETE"} => ext.record["real"] = "absent"
    /\ \A run \in Copies \cup {row} : DoneAsMarked(run) /\ MarkedAsDone(run)
    /\ \A w \in Workers : me[w].quiet =>
          /\ me[w].pc \in {"incident", "release", "save"}
          /\ me[w].pc = "incident" => me[w].err = "unclassified"
          /\ row.st.finalized => Run(w).st.finalized
    /\ \A w \in Workers : me[w].pc = "delete" => request = "DELETE" /\ ~Run(w).st.finalized

\* Somebody was told of a failure.
Told(run) ==
    \/ ext.incidents > 0
    \/ run.st.ticket # 0 /\ ext.ticket[run.st.ticket] = "unsuccessful"

\* While the ticket system answers, an escalation past the incident has opened
\* one, or has a ticket to close.
FailuresTold ==
    /\ row.status = "FAILED" => Told(row)
    /\ \A w \in Workers : Run(w).status = "FAILED" /\ me[w].pc # "incident" =>
          Told(Run(w)) \/ (me[w].pc = "closing" /\ Run(w).st.ticket # 0)

\* Only a step that waits for an answer has a clock, so only such a step is ever
\* found to be overdue.
Timed(run) ==
    run.status \in Active /\ run.st.clock > 0 => run.step \in {"AWAIT_APPROVAL", "RUN_ENGINE"}

ClocksRun ==
    /\ overdue => row.st.clock > 0
    /\ \A run \in Copies \cup {row} : Timed(run)
    /\ \A w \in Workers : me[w].pc = "overdue" => Run(w).st.clock > 0

\* The copy of a worker answers for a record that is not at rest: it has the mark
\* that makes the escalator release the record, or it is on its way to configuring
\* it again, which nothing prevents while the ticket system answers.
Answers(m) ==
    \/ m.run.st.configured /\ (m.pc = "save" => m.run.status \in Active)
    \/ m.pc \in Driving /\ "ticket" \notin Faulty

GivenAtRest == ext.record["given"] \in {"absent", "READY"}

\* A record that is not at rest is one that the run, which is not over, answers for.
InFlightHeld ==
    /\ \A w \in Workers : me[w].quiet => dbFaults > 0
    /\ ~GivenAtRest =>
          /\ HasResource /\ row.status \in Active
          /\ \A w \in Workers : me[w].pc \in Busy => Answers(me[w])
          /\ \/ \E w \in Workers : me[w].pc \in Busy
             \/ row.st.configured
             \/ "ticket" \notin Faulty

\* The steps at and past the engine.
FromEngineOn == {"RUN_ENGINE", "FINALIZE_RESOURCE", "CLOSE_TICKET"}

\* The row says that the run has come to the engine.
EngineSaved == row.status \in Terminal \/ row.step \in FromEngineOn

\* A copy that polls an engine run, or is past it.
PastLaunch(m) ==
    \/ m.run.step \in {"FINALIZE_RESOURCE", "CLOSE_TICKET"}
    \/ m.pc \in Driving /\ m.run.st.engine # 0

Placed(run) ==
    /\ run.st.vendor = "given"
    /\ run.status \in Active /\ run.st.engine # 0 => run.step \in FromEngineOn

\* An engine run is saved before it is polled, so a drive that takes the run up
\* again after its record was deleted does so at a step that can bear that.
RedrivesFindTheWorld ==
    /\ request \in Requests \cup {"none"}
    /\ \A run \in Copies \cup {row} : Placed(run)
    /\ \A w \in Workers :
          /\ PastLaunch(me[w]) => EngineSaved
          /\ me[w].pc = "save" /\ Run(w).status = "RUNNING" => Run(w).step # "none"
    /\ request = "DELETE" /\ ext.record["given"] = "absent" => EngineSaved

\* A failure that may still become the run's is one of a step that may fail.
RealFailure(run) ==
    run.status = "FAILED" /\ faults = 0 /\ dbFaults = 0 /\ run.version >= row.version
        => run.step \in {"AWAIT_APPROVAL", "VALIDATE_RESOURCE", "RUN_ENGINE"}

FailuresAreReal == \A run \in Copies \cup {row} : RealFailure(run)

-----------------------------------------------------------------------------
(* How a step moves a worker, and what it does to the world meanwhile. *)

\* a has done what b has, and has b's ticket if b has one.
SameWork(a, b) ==
    /\ a.st.configured = b.st.configured /\ a.st.finalized = b.st.finalized
    /\ a.st.closed = b.st.closed /\ a.st.submitted = b.st.submitted
    /\ a.st.vendor = b.st.vendor
    /\ b.st.ticket # 0 => a.st.ticket = b.st.ticket

\* The marker of the step a copy is at is set, if the step has one.
Passed(run) ==
    /\ run.step = "CONFIGURE_RESOURCE" => run.st.configured
    /\ run.step = "RUN_ENGINE" => run.st.engine # 0
    /\ run.step = "FINALIZE_RESOURCE" => run.st.finalized
    /\ run.step = "CLOSE_TICKET" => run.st.closed
    /\ run.step = "SUBMIT_LEGACY" => run.st.submitted

\* The step is done, with run.
Continues(w, m, run) ==
    /\ SameWork(m.run, run) /\ m.run.st.engine = run.st.engine /\ m.run.st.clock = 0
    /\ \/ m.pc = "step" /\ m.run.status = "RUNNING" /\ Follows(Run(w).step, m.run.step)
       \/ /\ m.pc = "save" /\ m.run.status = "COMPLETED" /\ m.run.step = "none"
          /\ Run(w).step \in {"CLOSE_TICKET", "SUBMIT_LEGACY"}

\* Who may be to blame when a call of the first steps raises.
MayRaise(step, provider) ==
    /\ step = "CREATE_TICKET" => provider = "ticket"
    /\ step = "CONFIGURE_RESOURCE" => provider = "resource"

\* The step raised: the run is saved to be retried, or it is FAILED.
Fails(w, m) ==
    /\ SameWork(m.run, Run(w)) /\ m.run.step = Run(w).step
    /\ m.run.st.ticket = Run(w).st.ticket /\ m.run.st.engine \in {Run(w).st.engine, 0}
    /\ \/ m.pc = "save" /\ m.run.status = "RUNNING" /\ m.run.st.clock = 0
       \/ m.pc = "incident" /\ m.run.status = "FAILED"
       \/ /\ m.pc = "closing" /\ m.run.status = "FAILED"
          /\ Run(w).step \in {"VALIDATE_RESOURCE", "RUN_ENGINE"}
    /\ \/ faults' > 0 /\ \E provider \in Faulty : MayRaise(Run(w).step, provider)
       \/ me[w].pc = "overdue"
       \/ Run(w).step \in {"VALIDATE_RESOURCE", "RUN_ENGINE"}
       \/ /\ Run(w).step \in {"CONFIGURE_RESOURCE", "FINALIZE_RESOURCE"}
          /\ RecordOf(Run(w)) = "absent"
          /\ Run(w).step = "FINALIZE_RESOURCE" => request # "DELETE"

\* The step waits for an answer, or an approver said no.
Waits(w, m) ==
    /\ SameWork(m.run, Run(w)) /\ m.run.step = Run(w).step
    /\ m.run.st.ticket = Run(w).st.ticket
    /\ \/ /\ m.pc = "save" /\ m.run.status = "RUNNING"
          /\ \/ m.run.step = "AWAIT_APPROVAL" /\ m.run.st.engine = Run(w).st.engine
             \/ m.run.step = "RUN_ENGINE"
       \/ /\ m.pc = "release" /\ m.run.status = "REJECTED"
          /\ m.run.step = "AWAIT_APPROVAL" /\ m.run.st.engine = Run(w).st.engine

\* The step goes on to its next call.
GoesOn(w, m) ==
    /\ m.run = Run(w)
    /\ \/ m.pc \in {"order", "tag"} /\ Run(w).step = "CREATE_TICKET"
       \/ m.pc = "delete" /\ Run(w).step = "FINALIZE_RESOURCE" /\ request = "DELETE"

\* Nothing but a ticket that is ordered.
Still ==
    /\ ext'.record = ext.record /\ ext'.handovers = ext.handovers
    /\ \A t \in TicketIds : ext.ticket[t] # "none" => ext'.ticket[t] = ext.ticket[t]

\* What only the resource manager sees.
OnRecord == ext'.ticket = ext.ticket /\ ext'.handovers = ext.handovers

Plain(w, m) ==
    /\ Still
    /\ \/ Continues(w, m, Run(w)) /\ Passed(Run(w))
       \/ Fails(w, m)
       \/ Waits(w, m)
       \/ GoesOn(w, m) /\ m.pc # "delete"

Configures(w, m) ==
    /\ Run(w).step = "CONFIGURE_RESOURCE" /\ ~Run(w).st.configured /\ OnRecord
    /\ Run(w).st.vendor = "given" => ext'.record["real"] = ext.record["real"]
    /\ request = "DELETE" /\ ext'.record["given"] = "absent" => ext.record["given"] = "absent"
    /\ \/ Continues(w, m, [Run(w) EXCEPT !.st.configured = TRUE])
       \/ Fails(w, m) /\ "resource" \in Faulty

Finalizes(w, m) ==
    /\ Run(w).step = "FINALIZE_RESOURCE" /\ ~Run(w).st.finalized /\ request # "DELETE" /\ OnRecord
    /\ \E v \in {"given", "real"} :
          /\ Run(w).st.vendor = "given" => \/ ext'.record = ext.record
                                           \/ /\ ext'.record[v] = "READY"
                                              /\ ext'.record["real"] \in {ext.record["real"], "READY"}
                                              /\ ext'.record["given"] \in {"absent", "READY"}
          /\ \/ /\ Continues(w, m, [Run(w) EXCEPT !.st.finalized = TRUE, !.st.vendor = v])
                /\ Run(w).st.vendor = "given" =>
                      ext'.record[v] = "READY" /\ ext'.record["given"] \in {"absent", "READY"}
             \/ Fails(w, m) /\ "resource" \in Faulty

MarksDeleted(w, m) ==
    /\ Run(w).step = "FINALIZE_RESOURCE" /\ ~Run(w).st.finalized /\ request = "DELETE" /\ OnRecord
    /\ Run(w).st.vendor = "given" => ext'.record["real"] = ext.record["real"]
    /\ ext'.record["given"] = "absent" => ext.record["given"] = "absent"
    /\ \/ GoesOn(w, m) /\ m.pc = "delete"
       \/ Fails(w, m) /\ "resource" \in Faulty

Deletes(w, m) ==
    /\ me[w].pc = "delete" /\ OnRecord
    /\ Run(w).step = "FINALIZE_RESOURCE"
    /\ \/ ext'.record = ext.record
       \/ ext'.record = [ext.record EXCEPT ![Run(w).st.vendor] = "absent"]
    /\ \/ /\ Continues(w, m, [Run(w) EXCEPT !.st.finalized = TRUE])
          /\ ext'.record = [ext.record EXCEPT ![Run(w).st.vendor] = "absent"]
       \/ Fails(w, m) /\ "resource" \in Faulty

Closes(w, m) ==
    /\ Run(w).step = "CLOSE_TICKET" /\ ~Run(w).st.closed
    /\ ext'.record = ext.record /\ ext'.handovers = ext.handovers
    /\ \/ /\ Continues(w, m, [Run(w) EXCEPT !.st.closed = TRUE])
          /\ ext'.ticket = [ext.ticket EXCEPT ![Run(w).st.ticket] = "closed"]
       \/ Fails(w, m) /\ "ticket" \in Faulty

Submits(w, m) ==
    /\ Run(w).step = "SUBMIT_LEGACY" /\ ~Run(w).st.submitted
    /\ ext'.record = ext.record /\ ext'.ticket = ext.ticket /\ ext'.handovers >= ext.handovers
    /\ \/ /\ Continues(w, m, [Run(w) EXCEPT !.st.submitted = TRUE])
          /\ ext'.handovers >= 1
       \/ Fails(w, m)

Effect(w, m) ==
    \/ Plain(w, m) \/ Configures(w, m) \/ Finalizes(w, m) \/ MarksDeleted(w, m)
    \/ Deletes(w, m) \/ Closes(w, m) \/ Submits(w, m)

Affects(w) == \E m : me' = [me EXCEPT ![w] = m] /\ Effect(w, m)

Plainly(w) == \E m : me' = [me EXCEPT ![w] = m] /\ Plain(w, m)

\* The step is done.
LEMMA AdvanceContinues ==
    ASSUME DriverInv, NEW w \in Workers, me[w].pc \in Driving, NEW run, Ready(w, run), Advance(w, run)
    PROVE  \E m : me' = [me EXCEPT ![w] = m] /\ Continues(w, m, run)
<1>1. /\ run \in RunType /\ run.step = Run(w).step /\ run.status = "RUNNING"
      /\ me \in [Workers -> WorkerType] /\ Run(w).step \in PlanSteps
  BY DrivingFacts DEF Ready, DriverInv, TypeOK
<1>2. PICK m : /\ me' = [me EXCEPT ![w] = m]
               /\ SameMarks(m.run, run)
               /\ m.run.st.engine = run.st.engine /\ m.run.st.clock = 0
               /\ \/ /\ m.pc = "step" /\ m.run.status = run.status
                     /\ Position(run.step) < Len(Plan)
                     /\ m.run.step = Plan[Position(run.step) + 1]
                  \/ /\ m.pc = "save" /\ m.run.status = "COMPLETED" /\ m.run.step = "none"
                     /\ ~(Position(run.step) < Len(Plan))
  BY <1>1, AdvanceFields
<1>3. SameWork(m.run, run)
  BY <1>2 DEF SameMarks, SameWork
<1>4. Position(run.step) < Len(Plan) => Follows(Run(w).step, Plan[Position(run.step) + 1])
  BY <1>1, PlanNext
<1>5. ~(Position(run.step) < Len(Plan)) => Run(w).step \in {"CLOSE_TICKET", "SUBMIT_LEGACY"}
  <2>1. CASE request = "AUTOMATION"
    <3>1. /\ Len(Plan) = 2 /\ Position("RUN_ENGINE") = 1
          /\ PlanSteps = {"RUN_ENGINE", "CLOSE_TICKET"}
      BY <2>1, AutomationPlan
    <3>2. PICK i : i = Position(run.step)
      OBVIOUS
    <3>3. ~(i < 2) => Run(w).step = "CLOSE_TICKET"
      BY <1>1, <3>1, <3>2
    <3> QED BY <3>1, <3>2, <3>3
  <2>2. CASE request = "LEGACY"
    BY <1>1, <2>2, LegacyPlan
  <2>3. CASE request \notin {"AUTOMATION", "LEGACY"}
    <3>1. /\ Len(Plan) = 7 /\ PlanSteps = Steps \ {"SUBMIT_LEGACY"}
          /\ Position("CREATE_TICKET") = 1 /\ Position("CONFIGURE_RESOURCE") = 2
          /\ Position("AWAIT_APPROVAL") = 3 /\ Position("VALIDATE_RESOURCE") = 4
          /\ Position("RUN_ENGINE") = 5 /\ Position("FINALIZE_RESOURCE") = 6
      BY <2>3, ResourcePlan
    <3>2. PICK i : i = Position(run.step)
      OBVIOUS
    <3>3. ~(i < 7) => Run(w).step = "CLOSE_TICKET"
      BY <1>1, <3>1, <3>2 DEF Steps
    <3> QED BY <3>1, <3>2, <3>3
  <2> QED BY <2>1, <2>2, <2>3
<1>6. Continues(w, m, run)
  BY <1>1, <1>2, <1>3, <1>4, <1>5 DEF Continues
<1> QED BY <1>2, <1>6

\* The step is not done.
LEMMA PollWaits ==
    ASSUME DriverInv, NEW w \in Workers, me[w].pc \in Driving, NEW run, Ready(w, run),
           SameMarks(run, Run(w)), Poll(w, run),
           Run(w).step = "RUN_ENGINE" \/ (Run(w).step = "AWAIT_APPROVAL" /\ run = Run(w))
    PROVE  \E m : me' = [me EXCEPT ![w] = m] /\ Waits(w, m)
<1>1. /\ run \in RunType /\ run.step = Run(w).step /\ run.status = "RUNNING"
      /\ me \in [Workers -> WorkerType]
  BY DEF Ready, DriverInv, TypeOK
<1>2. PICK m : /\ me' = [me EXCEPT ![w] = m]
               /\ SameMarks(m.run, run) /\ m.run.st.engine = run.st.engine
               /\ m.pc = "save" /\ m.run.status = run.status /\ m.run.step = run.step
  BY <1>1, PollFields
<1>3. SameWork(m.run, Run(w)) /\ m.run.st.ticket = Run(w).st.ticket
  BY <1>2 DEF SameMarks, SameWork
<1>4. Waits(w, m)
  BY <1>1, <1>2, <1>3 DEF Waits
<1> QED BY <1>2, <1>4

\* The step raised.
LEMMA StepErrorFails ==
    ASSUME DriverInv, NEW w \in Workers, me[w].pc \in Driving, NEW run, Ready(w, run),
           SameMarks(run, Run(w)), run.st.engine = Run(w).st.engine,
           NEW err, StepError(w, run, err),
           OpensIncident(err) \/ Run(w).step \in {"VALIDATE_RESOURCE", "RUN_ENGINE"},
           \/ faults' > 0 /\ \E provider \in Faulty : MayRaise(Run(w).step, provider)
           \/ me[w].pc = "overdue"
           \/ Run(w).step \in {"VALIDATE_RESOURCE", "RUN_ENGINE"}
           \/ /\ Run(w).step \in {"CONFIGURE_RESOURCE", "FINALIZE_RESOURCE"}
              /\ RecordOf(Run(w)) = "absent"
              /\ Run(w).step = "FINALIZE_RESOURCE" => request # "DELETE"
    PROVE  \E m : me' = [me EXCEPT ![w] = m] /\ Fails(w, m)
<1>1. /\ run \in RunType /\ run.step = Run(w).step /\ run.status = "RUNNING"
      /\ me \in [Workers -> WorkerType] /\ run.st.attempts <= MaxRetries
  BY DrivingFacts DEF Ready, DriverInv, TypeOK
<1>2. PICK m : /\ me' = [me EXCEPT ![w] = m]
               /\ SameMarks(m.run, run) /\ m.run.step = run.step
               /\ m.run.st.engine \in {run.st.engine, 0}
               /\ \/ m.pc = "save" /\ m.run.status = run.status /\ m.run.st.clock = 0
                  \/ /\ m.pc \in {"incident", "closing"} /\ m.run.status = "FAILED"
                     /\ m.pc = EscalationPoint(err)
  BY <1>1, StepErrorFields
<1>3. SameWork(m.run, Run(w)) /\ m.run.st.ticket = Run(w).st.ticket
  BY <1>2 DEF SameMarks, SameWork
<1>4. OpensIncident(err) => EscalationPoint(err) = "incident"
  BY DEF EscalationPoint
<1>5. Fails(w, m)
  BY <1>1, <1>2, <1>3, <1>4 DEF Fails
<1> QED BY <1>2, <1>5

\* A marker that is set is set, and nothing else changes.
LEMMA MarkFields ==
    ASSUME NEW run \in RunType
    PROVE  /\ SameMarks(run, run)
           /\ \A t : /\ SameWork([run EXCEPT !.st.ticket = t], run) \/ run.st.ticket # 0
                     /\ [run EXCEPT !.st.ticket = t].st.engine = run.st.engine
           /\ \A x : /\ SameMarks([run EXCEPT !.st.output = x], run)
                     /\ [run EXCEPT !.st.output = x].st.engine = run.st.engine
           /\ \A x : SameMarks([run EXCEPT !.st.engine = x], run)
           /\ \A x : /\ SameMarks([run EXCEPT !.st.failure = x], run)
                     /\ [run EXCEPT !.st.failure = x].st.engine = run.st.engine
BY DEF RunType, StateType, SameMarks, SameWork

\* A copy that has done the same continues the same.
LEMMA SameContinues ==
    ASSUME NEW w, NEW m, NEW a, NEW b, SameWork(a, b), a.st.engine = b.st.engine,
           Continues(w, m, a)
    PROVE  Continues(w, m, b)
<1>1. SameWork(m.run, b)
  BY DEF Continues, SameWork
<1> QED BY <1>1 DEF Continues

\* What a provider call of a step may do: it succeeds, or it raises.
LEMMA CallForm ==
    ASSUME DriverInv, NEW w \in Workers, me[w].pc \in Driving, NEW run, Ready(w, run),
           NEW provider, MayRaise(Run(w).step, provider),
           NEW effect, Call(w, provider, effect, run)
    PROVE  \E m : /\ me' = [me EXCEPT ![w] = m]
                  /\ \/ ext' = effect /\ Continues(w, m, run)
                     \/ ext' \in {ext, effect} /\ Fails(w, m) /\ provider \in Faulty
<1>1. Ready(w, Run(w)) /\ Run(w) \in RunType /\ faults \in Nat
  BY DrivingFacts DEF Ready, DriverInv, TypeOK
<1>2. CASE ext' = effect /\ Advance(w, run)
  BY <1>2, AdvanceContinues
<1>3. CASE Raises(provider) /\ ext' \in {ext, effect} /\ StepError(w, Run(w), "unclassified")
  <2>1. faults' > 0 /\ provider \in Faulty
    BY <1>1, <1>3 DEF Raises
  <2>2. OpensIncident("unclassified") /\ SameMarks(Run(w), Run(w))
    BY DEF OpensIncident, SameMarks
  <2> QED BY <1>1, <1>3, <2>1, <2>2, StepErrorFails
<1> QED BY <1>2, <1>3 DEF Call

\* The moves that leave the world as it is.
LEMMA PlainForm ==
    ASSUME DriverInv, NEW w \in Workers, me[w].pc \in Driving
    PROVE  /\ Skip(w) /\ Passed(Run(w)) => Plainly(w)
           /\ \A provider : MayRaise(Run(w).step, provider) /\ ReadRaises(w, provider) => Plainly(w)
           /\ /\ NotFound(w) /\ Run(w).step \in {"CONFIGURE_RESOURCE", "FINALIZE_RESOURCE"}
              /\ Run(w).step = "FINALIZE_RESOURCE" => request # "DELETE"
              => Plainly(w)
<1>1. Ready(w, Run(w)) /\ Run(w) \in RunType /\ faults \in Nat /\ SameMarks(Run(w), Run(w))
  BY DrivingFacts DEF Ready, DriverInv, TypeOK, SameMarks
<1>2. OpensIncident("unclassified")
  BY DEF OpensIncident
<1>3. UNCHANGED ext => Still
  BY DEF Still
<1>4. ASSUME Skip(w), Passed(Run(w)) PROVE Plainly(w)
  <2>1. Advance(w, Run(w)) /\ Still
    BY <1>3, <1>4 DEF Skip
  <2> QED BY <1>1, <1>4, <2>1, AdvanceContinues DEF Plain, Plainly
<1>5. ASSUME NEW provider, MayRaise(Run(w).step, provider), ReadRaises(w, provider)
      PROVE  Plainly(w)
  <2>1. faults' > 0 /\ provider \in Faulty /\ Still /\ StepError(w, Run(w), "unclassified")
    BY <1>1, <1>3, <1>5 DEF ReadRaises, Raises
  <2> QED BY <1>1, <1>2, <1>5, <2>1, StepErrorFails DEF Plain, Plainly
<1>6. ASSUME NotFound(w), Run(w).step \in {"CONFIGURE_RESOURCE", "FINALIZE_RESOURCE"},
             Run(w).step = "FINALIZE_RESOURCE" => request # "DELETE" PROVE Plainly(w)
  <2>1. Still /\ StepError(w, Run(w), "unclassified") /\ RecordOf(Run(w)) = "absent"
    BY <1>3, <1>6 DEF NotFound
  <2> QED BY <1>1, <1>2, <1>6, <2>1, StepErrorFails DEF Plain, Plainly
<1> QED BY <1>4, <1>5, <1>6

\* The record becomes x, and nothing else changes.
Recorded(e, x) ==
    /\ e.record = x
    /\ e.ticket = ext.ticket /\ e.handovers = ext.handovers /\ e.incidents = ext.incidents

\* What the calls to the resource manager do to the record.
LEMMA RecordEffects ==
    ASSUME ext \in ExtType, NEW run \in RunType
    PROVE  /\ \A x : Recorded(SetRecord(run, x), [ext.record EXCEPT ![run.st.vendor] = x])
           /\ \E x : Recorded(Created, x) /\ x["real"] = ext.record["real"]
           /\ \E x : /\ Recorded(Finalized(run), x)
                     /\ run.st.vendor = "given" =>
                           /\ run.st.output => x = [given |-> "absent", real |-> "READY"]
                           /\ ~run.st.output => x = [ext.record EXCEPT !["given"] = "READY"]
<1>1. run.st.vendor \in {"given", "real"} /\ run.st.output \in BOOLEAN
  BY DEF RunType, StateType
<1>2. ext.record \in [{"given", "real"} -> {"absent", "READY", "DELETED"} \cup InFlightStates]
  BY DEF ExtType
<1>4. ASSUME NEW v, NEW x
      PROVE  Recorded([ext EXCEPT !.record[v] = x], [ext.record EXCEPT ![v] = x])
  BY DEF ExtType, Recorded
<1>5. ASSUME NEW x PROVE Recorded([ext EXCEPT !.record = x], x)
  BY DEF ExtType, Recorded
<1>6. ASSUME NEW x
      PROVE  Recorded(SetRecord(run, x), [ext.record EXCEPT ![run.st.vendor] = x])
  <2>1. SetRecord(run, x) = [ext EXCEPT !.record[run.st.vendor] = x]
    BY DEF SetRecord
  <2> QED BY <1>4, <2>1
<1>7. \E x : Recorded(Created, x) /\ x["real"] = ext.record["real"]
  <2>1. CASE Created = ext
    BY <2>1 DEF Recorded
  <2>2. CASE Created = [ext EXCEPT !.record["given"] = "PROVISIONING"]
    <3>1. Recorded(Created, [ext.record EXCEPT !["given"] = "PROVISIONING"])
      BY <1>4, <2>2
    <3>2. [ext.record EXCEPT !["given"] = "PROVISIONING"]["real"] = ext.record["real"]
      BY <1>2
    <3> QED BY <3>1, <3>2
  <2> QED BY <2>1, <2>2 DEF Created
<1>8. \E x : /\ Recorded(Finalized(run), x)
             /\ run.st.vendor = "given" =>
                   /\ run.st.output => x = [given |-> "absent", real |-> "READY"]
                   /\ ~run.st.output => x = [ext.record EXCEPT !["given"] = "READY"]
  <2>1. CASE run.st.output /\ run.st.vendor = "given"
    <3>1. Finalized(run) = [ext EXCEPT !.record = [given |-> "absent", real |-> "READY"]]
      BY <2>1 DEF Finalized
    <3>2. Recorded(Finalized(run), [given |-> "absent", real |-> "READY"])
      BY <1>5, <3>1
    <3> QED BY <2>1, <3>2
  <2>2. CASE ~(run.st.output /\ run.st.vendor = "given")
    <3>1. Finalized(run) = SetRecord(run, "READY")
      BY <2>2 DEF Finalized
    <3>2. Recorded(Finalized(run), [ext.record EXCEPT ![run.st.vendor] = "READY"])
      BY <1>6, <3>1
    <3>3. run.st.vendor = "given" => ~run.st.output
      BY <2>2
    <3> QED BY <3>2, <3>3
  <2> QED BY <2>1, <2>2
<1> QED BY <1>6, <1>7, <1>8

\* ConfigureResourceStep.
LEMMA ConfigureEffect ==
    ASSUME DriverInv, NEW w \in Workers, ConfigureResource(w)
    PROVE  Affects(w)
<1> DEFINE run == [Run(w) EXCEPT !.st.configured = TRUE]
<1>1. me[w].pc \in Driving /\ Run(w).step = "CONFIGURE_RESOURCE"
  BY DEF ConfigureResource, At, Driving
<1>2. Ready(w, run) /\ Run(w) \in RunType /\ ext \in ExtType
  BY <1>1, DrivingFacts, MarkedReady DEF Ready, DriverInv, TypeOK
<1>3. Plainly(w) => Affects(w)
  BY DEF Plainly, Affects, Effect
<1>4. CASE Run(w).st.configured /\ Skip(w)
  <2>1. Passed(Run(w))
    BY <1>1, <1>4 DEF Passed
  <2> QED BY <1>1, <1>3, <1>4, <2>1, PlainForm
<1>5. CASE NotFound(w)
  BY <1>1, <1>3, <1>5, PlainForm
<1>6. ASSUME NEW effect, NEW x, Call(w, "resource", effect, run), ~Run(w).st.configured,
             Recorded(effect, x), Run(w).st.vendor = "given" => x["real"] = ext.record["real"],
             request = "DELETE" /\ x["given"] = "absent" => ext.record["given"] = "absent"
      PROVE  Affects(w)
  <2> HIDE DEF run
  <2>1. PICK m : /\ me' = [me EXCEPT ![w] = m]
                 /\ \/ ext' = effect /\ Continues(w, m, run)
                    \/ ext' \in {ext, effect} /\ Fails(w, m) /\ "resource" \in Faulty
    BY <1>1, <1>2, <1>6, CallForm DEF MayRaise
  <2>2. Configures(w, m)
    BY <1>1, <1>6, <2>1 DEF Configures, OnRecord, Recorded, run
  <2> QED BY <2>1, <2>2 DEF Affects, Effect
<1>7. CASE ~Run(w).st.configured /\ request = "CREATE" /\ Call(w, "resource", Created, run)
  <2>1. PICK x : Recorded(Created, x) /\ x["real"] = ext.record["real"]
    BY <1>2, RecordEffects
  <2> HIDE DEF run
  <2> QED BY <1>6, <1>7, <2>1
<1>8. CASE ~Run(w).st.configured /\ request # "CREATE" /\ RecordOf(Run(w)) # "absent"
           /\ Call(w, "resource", SetRecord(Run(w), OperationState), run)
  <2> DEFINE x == [ext.record EXCEPT ![Run(w).st.vendor] = OperationState]
  <2>1. OperationState # "absent"
    BY DEF OperationState
  <2>2. Recorded(SetRecord(Run(w), OperationState), x)
    BY <1>2, RecordEffects
  <2>3. /\ Run(w).st.vendor = "given" => x["real"] = ext.record["real"]
        /\ x["given"] = "absent" => ext.record["given"] = "absent"
    BY <1>2, <2>1 DEF RunType, StateType, ExtType
  <2> HIDE DEF run, x
  <2> QED BY <1>6, <1>8, <2>2, <2>3
<1> QED BY <1>4, <1>5, <1>7, <1>8 DEF ConfigureResource

\* FinalizeResourceStep for a CREATE or an UPDATE.
LEMMA FinalizeEffect ==
    ASSUME DriverInv, NEW w \in Workers, FinalizeResource(w)
    PROVE  Affects(w)
<1>1. me[w].pc \in Driving /\ Run(w).step = "FINALIZE_RESOURCE"
  BY DEF FinalizeResource, At, Driving
<1>2. Run(w) \in RunType /\ ext \in ExtType
  BY <1>1, DrivingFacts DEF Ready, DriverInv, TypeOK
<1>3. Plainly(w) => Affects(w)
  BY DEF Plainly, Affects, Effect
<1>4. CASE Run(w).st.finalized /\ Skip(w)
  <2>1. Passed(Run(w))
    BY <1>1, <1>4 DEF Passed
  <2> QED BY <1>1, <1>3, <1>4, <2>1, PlainForm
<1>5. CASE request # "DELETE" /\ NotFound(w)
  BY <1>1, <1>3, <1>5, PlainForm
<1>6. CASE /\ ~Run(w).st.finalized /\ request # "DELETE"
           /\ Call(w, "resource", Finalized(Run(w)),
                        [Run(w) EXCEPT !.st.finalized = TRUE,
                                       !.st.vendor = IF Run(w).st.output THEN "real" ELSE @])
  <2>1. PICK v \in {"given", "real"} : v = IF Run(w).st.output THEN "real" ELSE Run(w).st.vendor
    BY <1>2 DEF RunType, StateType
  <2> DEFINE run == [Run(w) EXCEPT !.st.finalized = TRUE, !.st.vendor = v]
  <2>2. run = [Run(w) EXCEPT !.st.finalized = TRUE,
                             !.st.vendor = IF Run(w).st.output THEN "real" ELSE @]
    BY <1>2, <2>1 DEF RunType, StateType
  <2>3. Ready(w, run)
    BY <1>1, MarkedReady
  <2>4. PICK effect : effect = Finalized(Run(w)) /\ Call(w, "resource", effect, run)
    BY <1>6, <2>2
  <2>5. PICK x : /\ Recorded(effect, x)
                 /\ Run(w).st.vendor = "given" =>
                       /\ Run(w).st.output => x = [given |-> "absent", real |-> "READY"]
                       /\ ~Run(w).st.output => x = [ext.record EXCEPT !["given"] = "READY"]
    BY <1>2, <2>4, RecordEffects
  <2>6. Run(w).st.vendor = "given" =>
           /\ x[v] = "READY" /\ x["given"] \in {"absent", "READY"}
           /\ x["real"] \in {ext.record["real"], "READY"}
    <3>1. ext.record \in [{"given", "real"} -> {"absent", "READY", "DELETED"} \cup InFlightStates]
      BY <1>2 DEF ExtType
    <3>2. CASE Run(w).st.output
      BY <2>1, <2>5, <3>2
    <3>3. CASE ~Run(w).st.output
      BY <2>1, <2>5, <3>1, <3>3
    <3> QED BY <3>2, <3>3
  <2> HIDE DEF run
  <2>7. PICK m : /\ me' = [me EXCEPT ![w] = m]
                 /\ \/ ext' = effect /\ Continues(w, m, run)
                    \/ ext' \in {ext, effect} /\ Fails(w, m) /\ "resource" \in Faulty
    BY <1>1, <2>3, <2>4, CallForm DEF MayRaise
  <2>8. /\ OnRecord
        /\ Run(w).st.vendor = "given" => \/ ext'.record = ext.record
                                         \/ /\ ext'.record[v] = "READY"
                                            /\ ext'.record["real"] \in {ext.record["real"], "READY"}
                                            /\ ext'.record["given"] \in {"absent", "READY"}
    BY <2>5, <2>6, <2>7 DEF OnRecord, Recorded
  <2>9. \/ /\ Continues(w, m, run)
           /\ Run(w).st.vendor = "given" =>
                 ext'.record[v] = "READY" /\ ext'.record["given"] \in {"absent", "READY"}
        \/ Fails(w, m) /\ "resource" \in Faulty
    BY <2>5, <2>6, <2>7 DEF Recorded
  <2>10. Finalizes(w, m)
    BY <1>1, <1>6, <2>8, <2>9 DEF Finalizes, run
  <2> QED BY <2>7, <2>10 DEF Affects, Effect
<1> QED BY <1>4, <1>5, <1>6 DEF FinalizeResource

\* FinalizeResourceStep for a DELETE, first half.
LEMMA MarkDeletedEffect ==
    ASSUME DriverInv, NEW w \in Workers, MarkDeleted(w)
    PROVE  Affects(w)
<1>1. me[w].pc \in Driving /\ Run(w).step = "FINALIZE_RESOURCE" /\ request = "DELETE"
      /\ ~Run(w).st.finalized
  BY DEF MarkDeleted, At, Driving
<1>2. /\ Ready(w, Run(w)) /\ Run(w) \in RunType /\ ext \in ExtType /\ faults \in Nat
      /\ me \in [Workers -> WorkerType]
  BY <1>1, DrivingFacts DEF Ready, DriverInv, TypeOK
<1>3. PICK marked : marked = IF RecordOf(Run(w)) = "absent" THEN ext ELSE SetRecord(Run(w), "DELETED")
  OBVIOUS
<1>4. PICK x : /\ Recorded(marked, x)
               /\ Run(w).st.vendor = "given" => x["real"] = ext.record["real"]
               /\ x["given"] = "absent" => ext.record["given"] = "absent"
  <2>1. CASE marked = ext
    BY <2>1 DEF Recorded
  <2>2. CASE marked = SetRecord(Run(w), "DELETED")
    <3> DEFINE x == [ext.record EXCEPT ![Run(w).st.vendor] = "DELETED"]
    <3>1. Recorded(marked, x)
      BY <1>2, <2>2, RecordEffects
    <3>2. /\ Run(w).st.vendor = "given" => x["real"] = ext.record["real"]
          /\ x["given"] = "absent" => ext.record["given"] = "absent"
      BY <1>2 DEF RunType, StateType, ExtType
    <3> HIDE DEF x
    <3> QED BY <3>1, <3>2
  <2> QED BY <1>3, <2>1, <2>2
<1>5. ext' \in {ext, marked}
  BY <1>3 DEF MarkDeleted
<1>6. /\ OnRecord
      /\ Run(w).st.vendor = "given" => ext'.record["real"] = ext.record["real"]
      /\ ext'.record["given"] = "absent" => ext.record["given"] = "absent"
  BY <1>4, <1>5 DEF OnRecord, Recorded
<1>7. CASE Goto(w, "delete", Run(w))
  <2> DEFINE m == [pc |-> "delete", err |-> me[w].err, order |-> me[w].order,
                   quiet |-> me[w].quiet, run |-> Run(w)]
  <2>1. me' = [me EXCEPT ![w] = m]
    BY <1>2, <1>7, GotoIs
  <2>2. m.pc = "delete" /\ m.run = Run(w)
    OBVIOUS
  <2> HIDE DEF m
  <2>3. GoesOn(w, m)
    BY <1>1, <2>2 DEF GoesOn
  <2>4. MarksDeleted(w, m)
    BY <1>1, <1>6, <2>2, <2>3 DEF MarksDeleted
  <2> QED BY <2>1, <2>4 DEF Affects, Effect
<1>8. CASE Raises("resource") /\ StepError(w, Run(w), "unclassified")
  <2>1. faults' > 0 /\ "resource" \in Faulty
    BY <1>2, <1>8 DEF Raises
  <2>2. OpensIncident("unclassified") /\ SameMarks(Run(w), Run(w))
    BY DEF OpensIncident, SameMarks
  <2>3. PICK m : me' = [me EXCEPT ![w] = m] /\ Fails(w, m)
    BY <1>1, <1>2, <1>8, <2>1, <2>2, StepErrorFails DEF MayRaise
  <2>4. MarksDeleted(w, m)
    BY <1>1, <1>6, <2>1, <2>3 DEF MarksDeleted
  <2> QED BY <2>3, <2>4 DEF Affects, Effect
<1> QED BY <1>7, <1>8 DEF MarkDeleted

\* FinalizeResourceStep for a DELETE, second half.
LEMMA DeleteEffect ==
    ASSUME DriverInv, NEW w \in Workers, DeleteRecord(w)
    PROVE  Affects(w)
<1> DEFINE run == [Run(w) EXCEPT !.st.finalized = TRUE]
<1>1. me[w].pc = "delete" /\ me[w].pc \in Driving
  BY DEF DeleteRecord, Driving
<1>2. /\ Run(w) \in RunType /\ ext \in ExtType /\ Ready(w, run)
      /\ Run(w).step = "FINALIZE_RESOURCE"
  BY <1>1, DrivingFacts, MarkedReady DEF Ready, DriverInv, TypeOK, WorkerSound, PointSound, Run
<1>3. PICK effect : effect = RecordDeleted(Run(w)) /\ Call(w, "resource", effect, run)
  BY DEF DeleteRecord
<1>4. Recorded(effect, [ext.record EXCEPT ![Run(w).st.vendor] = "absent"])
  BY <1>2, <1>3, RecordEffects DEF RecordDeleted
<1> HIDE DEF run
<1>5. PICK m : /\ me' = [me EXCEPT ![w] = m]
               /\ \/ ext' = effect /\ Continues(w, m, run)
                  \/ ext' \in {ext, effect} /\ Fails(w, m) /\ "resource" \in Faulty
  BY <1>1, <1>2, <1>3, CallForm DEF MayRaise
<1>6. Deletes(w, m)
  BY <1>1, <1>2, <1>4, <1>5 DEF Deletes, OnRecord, Recorded, run
<1> QED BY <1>5, <1>6 DEF Affects, Effect

\* CloseTicketStep.
LEMMA CloseEffect ==
    ASSUME DriverInv, NEW w \in Workers, CloseTicket(w)
    PROVE  Affects(w)
<1> DEFINE run == [Run(w) EXCEPT !.st.closed = TRUE]
<1>1. me[w].pc \in Driving /\ Run(w).step = "CLOSE_TICKET"
  BY DEF CloseTicket, At, Driving
<1>2. ext \in ExtType /\ Ready(w, run)
  BY <1>1, MarkedReady DEF DriverInv, TypeOK
<1>3. CASE Run(w).st.closed /\ Skip(w)
  <2>1. Passed(Run(w))
    BY <1>1, <1>3 DEF Passed
  <2> QED BY <1>1, <1>3, <2>1, PlainForm DEF Plainly, Affects, Effect
<1>4. CASE ~Run(w).st.closed /\ Call(w, "ticket", TicketClosed(Run(w).st.ticket, "closed"), run)
  <2>1. PICK effect : /\ effect = TicketClosed(Run(w).st.ticket, "closed")
                      /\ Call(w, "ticket", effect, run)
    BY <1>4
  <2>2. /\ effect.record = ext.record /\ effect.handovers = ext.handovers
        /\ effect.ticket = [ext.ticket EXCEPT ![Run(w).st.ticket] = "closed"]
    BY <1>2, <2>1 DEF TicketClosed, ExtType
  <2> HIDE DEF run
  <2>3. PICK m : /\ me' = [me EXCEPT ![w] = m]
                 /\ \/ ext' = effect /\ Continues(w, m, run)
                    \/ ext' \in {ext, effect} /\ Fails(w, m) /\ "ticket" \in Faulty
    BY <1>1, <1>2, <2>1, CallForm DEF MayRaise
  <2>4. Closes(w, m)
    BY <1>1, <1>4, <2>2, <2>3 DEF Closes, run
  <2> QED BY <2>3, <2>4 DEF Affects, Effect
<1> QED BY <1>3, <1>4 DEF CloseTicket

\* SubmitLegacyStep.
LEMMA SubmitEffect ==
    ASSUME DriverInv, NEW w \in Workers, SubmitLegacy(w)
    PROVE  Affects(w)
<1> DEFINE run == [Run(w) EXCEPT !.st.submitted = TRUE]
<1>1. me[w].pc \in Driving /\ Run(w).step = "SUBMIT_LEGACY"
  BY DEF SubmitLegacy, At, Driving
<1>2. ext \in ExtType /\ Ready(w, run)
  BY <1>1, MarkedReady DEF DriverInv, TypeOK
<1>3. CASE Run(w).st.submitted /\ Skip(w)
  <2>1. Passed(Run(w))
    BY <1>1, <1>3 DEF Passed
  <2> QED BY <1>1, <1>3, <2>1, PlainForm DEF Plainly, Affects, Effect
<1>4. CASE ~Run(w).st.submitted /\ Call(w, "legacy", HandedOver, run)
  <2>1. PICK effect : effect = HandedOver /\ Call(w, "legacy", effect, run)
    BY <1>4
  <2>2. /\ effect.record = ext.record /\ effect.ticket = ext.ticket
        /\ effect.handovers = ext.handovers + 1 /\ ext.handovers \in Nat
    BY <1>2, <2>1 DEF HandedOver, ExtType
  <2>3. effect.handovers >= ext.handovers /\ effect.handovers >= 1 /\ ext.handovers >= ext.handovers
    BY <2>2
  <2> HIDE DEF run
  <2>4. PICK m : /\ me' = [me EXCEPT ![w] = m]
                 /\ \/ ext' = effect /\ Continues(w, m, run)
                    \/ ext' \in {ext, effect} /\ Fails(w, m) /\ "legacy" \in Faulty
    BY <1>1, <1>2, <2>1, CallForm DEF MayRaise
  <2>5. Submits(w, m)
    BY <1>1, <1>4, <2>2, <2>3, <2>4 DEF Submits, run
  <2> QED BY <2>4, <2>5 DEF Affects, Effect
<1> QED BY <1>3, <1>4 DEF SubmitLegacy

\* CreateTicketStep: nothing but a ticket may be new.
LEMMA TicketEffects ==
    ASSUME DriverInv, NEW w \in Workers, CreateTicket(w) \/ OrderTicket(w) \/ TagTicket(w)
    PROVE  Plainly(w)
<1>1. me[w].pc \in Driving /\ (me[w].pc = "step" => Run(w).step = "CREATE_TICKET")
  BY DEF CreateTicket, OrderTicket, TagTicket, At, Driving
<1>2. Run(w).step = "CREATE_TICKET"
  BY <1>1 DEF CreateTicket, OrderTicket, TagTicket, At, DriverInv, WorkerSound, PointSound, Run
<1>3. /\ Ready(w, Run(w)) /\ Run(w) \in RunType /\ ext \in ExtType /\ faults \in Nat
      /\ me \in [Workers -> WorkerType] /\ me[w] \in WorkerType
  BY <1>1, DrivingFacts DEF Ready, DriverInv, TypeOK
<1>4. Passed(Run(w))
  BY <1>2 DEF Passed
<1>5. UNCHANGED ext => Still
  BY DEF Still
<1>6. ASSUME NEW t \in TicketIds, Run(w).st.ticket = 0, Still,
             Advance(w, [Run(w) EXCEPT !.st.ticket = t])
      PROVE  Plainly(w)
  <2> DEFINE run == [Run(w) EXCEPT !.st.ticket = t]
  <2>1. Ready(w, run) /\ SameWork(run, Run(w)) /\ run.st.engine = Run(w).st.engine
    BY <1>1, <1>3, <1>6, MarkedReady, MarkFields
  <2> HIDE DEF run
  <2>2. PICK m : me' = [me EXCEPT ![w] = m] /\ Continues(w, m, run)
    BY <1>1, <1>6, <2>1, AdvanceContinues DEF run
  <2>3. Continues(w, m, Run(w))
    BY <2>1, <2>2, SameContinues
  <2> QED BY <1>4, <1>6, <2>2, <2>3 DEF Plain, Plainly
<1>7. ASSUME Raises("ticket"), Still, StepError(w, Run(w), "unclassified")
      PROVE  Plainly(w)
  <2>1. faults' > 0 /\ "ticket" \in Faulty
    BY <1>3, <1>7 DEF Raises
  <2>2. OpensIncident("unclassified") /\ SameMarks(Run(w), Run(w))
    BY DEF OpensIncident, SameMarks
  <2> QED BY <1>1, <1>2, <1>3, <1>7, <2>1, <2>2, StepErrorFails DEF Plain, Plainly, MayRaise
<1>8. ASSUME NEW p \in {"order", "tag"}, NEW m, m.pc = p, m.run = Run(w), Still,
             me' = [me EXCEPT ![w] = m]
      PROVE  Plainly(w)
  <2>1. GoesOn(w, m) /\ m.pc # "delete"
    BY <1>2, <1>8 DEF GoesOn
  <2> QED BY <1>8, <2>1 DEF Plain, Plainly
<1>9. CASE CreateTicket(w)
  <2>1. CASE Skip(w) \/ ReadRaises(w, "ticket")
    BY <1>1, <1>2, <1>4, <2>1, PlainForm DEF MayRaise
  <2>2. CASE /\ Run(w).st.ticket = 0 /\ UNCHANGED ext
             /\ \E t \in AlreadyOrdered : Advance(w, [Run(w) EXCEPT !.st.ticket = t])
    <3>1. PICK t \in ext.tagged : Advance(w, [Run(w) EXCEPT !.st.ticket = t])
      BY <2>2 DEF AlreadyOrdered
    <3>2. t \in TicketIds
      BY <1>3 DEF ExtType
    <3> QED BY <1>5, <1>6, <2>2, <3>1, <3>2
  <2>3. CASE UNCHANGED ext /\ Goto(w, "order", Run(w))
    <3> DEFINE m == [pc |-> "order", err |-> me[w].err, order |-> me[w].order,
                     quiet |-> me[w].quiet, run |-> Run(w)]
    <3>1. me' = [me EXCEPT ![w] = m]
      BY <1>3, <2>3, GotoIs
    <3>2. m.pc = "order" /\ m.run = Run(w)
      OBVIOUS
    <3> HIDE DEF m
    <3> QED BY <1>5, <1>8, <2>3, <3>1, <3>2
  <2> QED BY <1>9, <2>1, <2>2, <2>3 DEF CreateTicket
<1>10. CASE OrderTicket(w)
  <2>1. PICK t \in TicketIds :
           /\ ext.ticket[t] = "none"
           /\ \/ /\ ext' = [ext EXCEPT !.ticket[t] = "open"]
                 /\ me' = [me EXCEPT ![w].pc = "tag", ![w].order = t]
              \/ /\ Raises("ticket")
                 /\ ext' \in {ext, [ext EXCEPT !.ticket[t] = "open"]}
                 /\ StepError(w, Run(w), "unclassified")
    BY <1>10 DEF OrderTicket
  <2>2. Still
    <3>1. CASE ext' = ext
      BY <1>5, <3>1
    <3>2. CASE ext' = [ext EXCEPT !.ticket[t] = "open"]
      <4>1. /\ ext'.record = ext.record /\ ext'.handovers = ext.handovers
            /\ ext'.ticket = [ext.ticket EXCEPT ![t] = "open"]
        BY <1>3, <3>2 DEF ExtType
      <4>2. ext.ticket \in [TicketIds -> {"none", "open", "closed", "unsuccessful"}]
        BY <1>3 DEF ExtType
      <4> QED BY <2>1, <4>1, <4>2 DEF Still
    <3> QED BY <2>1, <3>1, <3>2
  <2>3. CASE me' = [me EXCEPT ![w].pc = "tag", ![w].order = t]
    <3> DEFINE m == [[me[w] EXCEPT !.pc = "tag"] EXCEPT !.order = t]
    <3>1. me' = [me EXCEPT ![w] = m]
      BY <2>3
    <3>2. m.pc = "tag" /\ m.run = Run(w)
      BY <1>3 DEF WorkerType, Run
    <3> HIDE DEF m
    <3> QED BY <1>8, <2>2, <3>1, <3>2
  <2> QED BY <1>7, <2>1, <2>2, <2>3
<1>11. CASE TagTicket(w)
  <2>1. Run(w).st.ticket = 0 /\ me[w].order # 0
    BY <1>11 DEF TagTicket, DriverInv, WorkerSound, PointSound, Run
  <2>2. PICK t \in TicketIds : t = me[w].order
    BY <1>3, <2>1 DEF WorkerType
  <2>3. PICK effect : effect = [ext EXCEPT !.tagged = @ \cup {t}]
    OBVIOUS
  <2>4. /\ effect.record = ext.record /\ effect.handovers = ext.handovers
        /\ effect.ticket = ext.ticket
    BY <1>3, <2>3 DEF ExtType
  <2>5. ext' \in {ext, effect} => Still
    BY <2>4 DEF Still
  <2>6. \/ ext' = effect /\ Advance(w, [Run(w) EXCEPT !.st.ticket = t])
        \/ Raises("ticket") /\ ext' \in {ext, effect} /\ StepError(w, Run(w), "unclassified")
        \/ ext' = ext /\ Advance(w, [Run(w) EXCEPT !.st.ticket = t])
    BY <1>11, <2>2, <2>3 DEF TagTicket, Call
  <2> QED BY <1>6, <1>7, <2>1, <2>5, <2>6
<1> QED BY <1>9, <1>10, <1>11

\* AwaitApprovalStep, ValidateResourceStep, and a budget that is over.
LEMMA WaitingEffects ==
    ASSUME DriverInv, NEW w \in Workers,
           AwaitApproval(w) \/ ValidateResource(w) \/ DeadlineExceeded(w)
    PROVE  Plainly(w)
<1>1. me[w].pc \in Driving
  BY DEF AwaitApproval, ValidateResource, DeadlineExceeded, At, Driving
<1>2. /\ Ready(w, Run(w)) /\ Run(w) \in RunType /\ me \in [Workers -> WorkerType]
      /\ SameMarks(Run(w), Run(w))
  BY <1>1, DrivingFacts DEF Ready, DriverInv, TypeOK, SameMarks
<1>3. UNCHANGED ext => Still
  BY DEF Still
<1>4. CASE AwaitApproval(w)
  <2>1. Run(w).step = "AWAIT_APPROVAL"
    BY <1>4 DEF AwaitApproval, At
  <2>2. Passed(Run(w))
    BY <2>1 DEF Passed
  <2>3. CASE Skip(w) \/ ReadRaises(w, "ticket")
    BY <1>1, <2>1, <2>2, <2>3, PlainForm DEF MayRaise
  <2>4. CASE UNCHANGED ext /\ Poll(w, Run(w))
    BY <1>1, <1>2, <1>3, <2>1, <2>4, PollWaits DEF Plain, Plainly
  <2>5. CASE UNCHANGED ext /\ RejectRun(w)
    <3> DEFINE run == [Run(w) EXCEPT !.status = "REJECTED", !.date = "null"]
               m   == [pc |-> "release", err |-> me[w].err, order |-> me[w].order,
                       quiet |-> me[w].quiet, run |-> run]
    <3>1. me' = [me EXCEPT ![w] = m]
      BY <1>2, <2>5, GotoIs DEF RejectRun
    <3>2. run.st = Run(w).st /\ run.step = Run(w).step /\ run.status = "REJECTED"
      BY <1>2 DEF RunType
    <3> HIDE DEF run
    <3>3. m.pc = "release" /\ m.run = run
      OBVIOUS
    <3> HIDE DEF m
    <3>4. Waits(w, m)
      BY <2>1, <3>2, <3>3 DEF Waits, SameWork
    <3> QED BY <1>3, <2>5, <3>1, <3>4 DEF Plain, Plainly
  <2> QED BY <1>4, <2>3, <2>4, <2>5 DEF AwaitApproval
<1>5. CASE ValidateResource(w)
  <2>1. Run(w).step = "VALIDATE_RESOURCE"
    BY <1>5 DEF ValidateResource, At
  <2>2. Passed(Run(w))
    BY <2>1 DEF Passed
  <2>3. CASE Skip(w) \/ ReadRaises(w, "resource")
    BY <1>1, <2>1, <2>2, <2>3, PlainForm DEF MayRaise
  <2>4. CASE UNCHANGED ext /\ StepError(w, Run(w), "INFRA_PRECHECK")
    BY <1>1, <1>2, <1>3, <2>1, <2>4, StepErrorFails DEF Plain, Plainly
  <2> QED BY <1>5, <2>3, <2>4 DEF ValidateResource
<1>6. CASE DeadlineExceeded(w)
  <2>1. /\ me[w].pc = "overdue" /\ StepError(w, Run(w), "unclassified") /\ UNCHANGED ext
        /\ OpensIncident("unclassified")
    BY <1>6 DEF DeadlineExceeded, OpensIncident
  <2> QED BY <1>1, <1>2, <1>3, <2>1, StepErrorFails DEF Plain, Plainly
<1> QED BY <1>4, <1>5, <1>6

\* RunEngineStep.
LEMMA EngineEffects ==
    ASSUME DriverInv, NEW w \in Workers, TriggerEngine(w) \/ PollEngine(w)
    PROVE  Plainly(w)
<1>1. me[w].pc \in Driving /\ Run(w).step = "RUN_ENGINE"
  BY DEF TriggerEngine, PollEngine, At, Driving
<1>2. /\ Ready(w, Run(w)) /\ Run(w) \in RunType /\ me \in [Workers -> WorkerType]
      /\ ext \in ExtType /\ SameMarks(Run(w), Run(w))
  BY <1>1, DrivingFacts DEF Ready, DriverInv, TypeOK, SameMarks
<1>3. Still
  <2>1. ext' = ext \/ \E k : ext' = Triggered(k)
    BY DEF TriggerEngine, PollEngine
  <2>2. ASSUME NEW k, ext' = Triggered(k)
        PROVE  /\ ext'.record = ext.record /\ ext'.handovers = ext.handovers
               /\ ext'.ticket = ext.ticket
    BY <1>2, <2>2 DEF Triggered, ExtType
  <2> QED BY <2>1, <2>2 DEF Still
<1>4. ASSUME NEW err, StepError(w, Run(w), err) PROVE Plainly(w)
  BY <1>1, <1>2, <1>3, <1>4, StepErrorFails DEF Plain, Plainly
<1>5. CASE Poll(w, Run(w))
  BY <1>1, <1>2, <1>3, <1>5, PollWaits DEF Plain, Plainly
<1>6. ASSUME Advance(w, Run(w)), Run(w).st.engine # 0 PROVE Plainly(w)
  <2>1. Passed(Run(w))
    BY <1>1, <1>6 DEF Passed
  <2> QED BY <1>1, <1>2, <1>3, <1>6, <2>1, AdvanceContinues DEF Plain, Plainly
<1>7. ASSUME NEW b \in BOOLEAN, Advance(w, [Run(w) EXCEPT !.st.output = b]),
             Run(w).st.engine # 0
      PROVE  Plainly(w)
  <2> DEFINE run == [Run(w) EXCEPT !.st.output = b]
  <2>1. Ready(w, run) /\ SameMarks(run, Run(w)) /\ run.st.engine = Run(w).st.engine
    BY <1>1, <1>2, MarkedReady, MarkFields
  <2> HIDE DEF run
  <2>2. PICK m : me' = [me EXCEPT ![w] = m] /\ Continues(w, m, run)
    BY <1>1, <1>7, <2>1, AdvanceContinues DEF run
  <2>3. SameWork(run, Run(w))
    BY <2>1 DEF SameMarks, SameWork
  <2>4. Continues(w, m, Run(w)) /\ Passed(Run(w))
    BY <1>1, <1>7, <2>1, <2>2, <2>3, SameContinues DEF Passed
  <2> QED BY <1>3, <2>2, <2>4 DEF Plain, Plainly
<1>8. ASSUME NEW f \in EngineFailures, NEW err, StepError(w, [Run(w) EXCEPT !.st.failure = f], err)
      PROVE  Plainly(w)
  <2> DEFINE run == [Run(w) EXCEPT !.st.failure = f]
  <2>1. Ready(w, run) /\ SameMarks(run, Run(w)) /\ run.st.engine = Run(w).st.engine
    BY <1>1, <1>2, MarkedReady, MarkFields
  <2> HIDE DEF run
  <2>2. StepError(w, run, err)
    BY <1>8 DEF run
  <2> QED BY <1>1, <1>3, <2>1, <2>2, StepErrorFails DEF Plain, Plainly
<1>9. CASE TriggerEngine(w)
  <2>1. CASE Poll(w, [Run(w) EXCEPT !.st.engine = EngineRunKey(Run(w))])
    <3>1. EngineRunKey(Run(w)) \in EngineIds
      BY <1>1, <1>2, DrivingFacts, DriverAssumption DEF RunType, StateType, EngineRunKey, EngineIds
    <3>2. PICK k \in EngineIds : k = EngineRunKey(Run(w))
      BY <3>1
    <3> DEFINE run == [Run(w) EXCEPT !.st.engine = k]
    <3>3. Ready(w, run) /\ Poll(w, run) /\ SameMarks(run, Run(w))
      BY <1>1, <1>2, <2>1, <3>2, MarkedReady, MarkFields
    <3> HIDE DEF run
    <3> QED BY <1>1, <1>3, <3>3, PollWaits DEF Plain, Plainly
  <2> QED BY <1>4, <1>9, <2>1 DEF TriggerEngine
<1>10. CASE PollEngine(w)
  <2>1. PICK b \in BOOLEAN : b = (HasResource /\ ext.engine[Run(w).st.engine] = "published")
    OBVIOUS
  <2>2. Run(w).st.engine # 0
    BY <1>10 DEF PollEngine
  <2>3. \/ Poll(w, Run(w)) \/ Advance(w, Run(w)) \/ \E err : StepError(w, Run(w), err)
        \/ Advance(w, [Run(w) EXCEPT !.st.output = b])
        \/ \E f \in EngineFailures : \E err : StepError(w, [Run(w) EXCEPT !.st.failure = f], err)
    BY <1>10, <2>1 DEF PollEngine
  <2> QED BY <1>4, <1>5, <1>6, <1>7, <1>8, <2>2, <2>3
<1> QED BY <1>9, <1>10

\* Every step has one of these effects.
LEMMA ExecuteEffects ==
    ASSUME DriverInv, NEW w \in Workers, ExecuteStep(w)
    PROVE  Affects(w)
<1>1. Plainly(w) => Affects(w)
  BY DEF Plainly, Affects, Effect
<1> QED BY <1>1, TicketEffects, WaitingEffects, EngineEffects, ConfigureEffect, FinalizeEffect,
           MarkDeletedEffect, DeleteEffect, CloseEffect, SubmitEffect DEF ExecuteStep

-----------------------------------------------------------------------------
(* How escalation moves a worker, and what it does to the world. *)

\* Only the mark of a closed ticket is new.
Escalates(w, m) ==
    /\ m.quiet = me[w].quiet /\ m.run.status = Run(w).status /\ m.run.step = Run(w).step
    /\ m.run.version = Run(w).version
    /\ m.run.st.ticket = Run(w).st.ticket /\ m.run.st.vendor = Run(w).st.vendor
    /\ m.run.st.configured = Run(w).st.configured /\ m.run.st.finalized = Run(w).st.finalized
    /\ m.run.st.submitted = Run(w).st.submitted
    /\ ext'.handovers = ext.handovers /\ ext'.incidents >= ext.incidents

Pages(w, m) ==
    /\ me[w].pc = "incident" /\ m.pc \in {"document", "closing", "release"}
    /\ me[w].err = "unclassified" => m.pc = "release"
    /\ ext'.record = ext.record /\ ext'.ticket = ext.ticket
    /\ "ticket" \notin Faulty => ext'.incidents > 0

Documents(w, m) ==
    /\ me[w].pc \in {"document", "resolve"} /\ m.pc \in {"resolve", "closing"}
    /\ ext'.record = ext.record /\ ext'.ticket = ext.ticket

Tells(w, m) ==
    LET told == [ext.ticket EXCEPT ![Run(w).st.ticket] = "unsuccessful"]
    IN  /\ me[w].pc = "closing" /\ m.pc = "release" /\ ext'.record = ext.record
        /\ ext'.ticket \in {ext.ticket, told}
        /\ Run(w).st.ticket # 0 /\ "ticket" \notin Faulty => ext'.ticket = told

Releases(w, m) ==
    /\ me[w].pc = "release" /\ m.pc = "save" /\ ext'.ticket = ext.ticket
    /\ \/ ext'.record = ext.record /\ (ResourceInFlight(Run(w)) => "resource" \in Faulty)
       \/ /\ ResourceInFlight(Run(w))
          /\ \E x \in {"absent", "READY"} :
                /\ ext'.record = [ext.record EXCEPT ![Run(w).st.vendor] = x]
                /\ x = "absent" => request = "CREATE" \/ RecordOf(Run(w)) = "absent"

EscalationCall(w, m) == Pages(w, m) \/ Documents(w, m) \/ Tells(w, m) \/ Releases(w, m)

\* Every call of an escalation has one of these effects.
LEMMA EscalateEffects ==
    ASSUME DriverInv, NEW w \in Workers, Escalate(w)
    PROVE  \E m : me' = [me EXCEPT ![w] = m] /\ Escalates(w, m) /\ EscalationCall(w, m)
<1>1. /\ me \in [Workers -> WorkerType] /\ me[w] \in WorkerType /\ Run(w) \in RunType
      /\ ext \in ExtType /\ ext.incidents \in Nat
  BY DEF DriverInv, TypeOK, WorkerType, Run, ExtType
<1> DEFINE Moved(p, run) ==
              \E m : /\ me' = [me EXCEPT ![w] = m] /\ m.quiet = me[w].quiet
                     /\ m.pc = p /\ m.run = run
           Small == ext'.handovers = ext.handovers /\ ext'.incidents >= ext.incidents
<1>2. ASSUME NEW p, me' = [me EXCEPT ![w].pc = p] PROVE Moved(p, Run(w))
  <2> DEFINE m == [me[w] EXCEPT !.pc = p]
  <2>1. me' = [me EXCEPT ![w] = m]
    BY <1>2
  <2>2. m.quiet = me[w].quiet /\ m.pc = p /\ m.run = Run(w)
    BY <1>1 DEF WorkerType, Run
  <2> HIDE DEF m
  <2> QED BY <2>1, <2>2
<1>3. ASSUME NEW p, NEW run, Goto(w, p, run) PROVE Moved(p, run)
  <2> DEFINE m == [pc |-> p, err |-> me[w].err, order |-> me[w].order, quiet |-> me[w].quiet,
                   run |-> run]
  <2>1. me' = [me EXCEPT ![w] = m]
    BY <1>1, <1>3, GotoIs
  <2>2. m.quiet = me[w].quiet /\ m.pc = p /\ m.run = run
    OBVIOUS
  <2> HIDE DEF m
  <2> QED BY <2>1, <2>2
<1>4. ASSUME NEW provider, NEW effect, NEW next, NEW rescue,
             Guarded(w, provider, effect, next, rescue)
      PROVE  \/ ext' = effect /\ Moved(next, Run(w))
             \/ provider \in Faulty /\ ext' \in {ext, effect} /\ Moved(rescue, Run(w))
  <2> HIDE DEF Moved
  <2> QED BY <1>2, <1>4 DEF Guarded, Raises
<1>5. ASSUME NEW p, NEW run, Moved(p, run), Small,
             run = Run(w) \/ run = [Run(w) EXCEPT !.st.closed = TRUE],
             \A m : m.pc = p => EscalationCall(w, m)
      PROVE  \E m : me' = [me EXCEPT ![w] = m] /\ Escalates(w, m) /\ EscalationCall(w, m)
  <2>1. PICK m : /\ me' = [me EXCEPT ![w] = m] /\ m.quiet = me[w].quiet
                 /\ m.pc = p /\ m.run = run
    BY <1>5
  <2>2. /\ run.status = Run(w).status /\ run.step = Run(w).step /\ run.version = Run(w).version
        /\ run.st.ticket = Run(w).st.ticket /\ run.st.vendor = Run(w).st.vendor
        /\ run.st.configured = Run(w).st.configured /\ run.st.finalized = Run(w).st.finalized
        /\ run.st.submitted = Run(w).st.submitted
    BY <1>1, <1>5 DEF RunType, StateType
  <2>3. Escalates(w, m)
    BY <1>5, <2>1, <2>2 DEF Escalates
  <2> QED BY <1>5, <2>1, <2>3
<1>6. UNCHANGED ext => Small
  BY <1>1
<1> HIDE DEF Moved
<1>7. CASE OpenIncident(w)
  <2>1. PICK effect : effect = IncidentOpened /\ Guarded(w, "ticket", effect, AfterIncident(w), "release")
    BY <1>7 DEF OpenIncident
  <2>2. /\ effect.handovers = ext.handovers /\ effect.incidents = ext.incidents + 1
        /\ effect.record = ext.record /\ effect.ticket = ext.ticket
    BY <1>1, <2>1 DEF IncidentOpened, ExtType
  <2>3. Small /\ ext'.record = ext.record /\ ext'.ticket = ext.ticket
    BY <1>1, <1>4, <2>1, <2>2
  <2>4. PICK p \in {AfterIncident(w), "release"} :
           Moved(p, Run(w)) /\ ("ticket" \in Faulty \/ (ext'.incidents > 0 /\ p = AfterIncident(w)))
    BY <1>1, <1>4, <2>1, <2>2
  <2>5. /\ AfterIncident(w) \in {"document", "closing", "release"}
        /\ me[w].err = "unclassified" => AfterIncident(w) = "release"
    BY DEF AfterIncident
  <2>6. ASSUME NEW m, m.pc = p PROVE EscalationCall(w, m)
    BY <1>7, <2>3, <2>4, <2>5, <2>6 DEF EscalationCall, Pages, OpenIncident
  <2> QED BY <1>5, <2>3, <2>4, <2>6
<1>8. CASE LogDocumentationIncident(w) \/ ResolveDocumentationIncident(w)
  <2>1. PICK effect : /\ effect \in {[ext EXCEPT !.docs = @ + 1], [ext EXCEPT !.resolved = @ + 1]}
                      /\ \/ Guarded(w, "ticket", effect, "resolve", "closing")
                         \/ Guarded(w, "ticket", effect, "closing", "closing")
    <3>1. CASE LogDocumentationIncident(w)
      BY <3>1 DEF LogDocumentationIncident
    <3>2. CASE ResolveDocumentationIncident(w)
      BY <3>2 DEF ResolveDocumentationIncident
    <3> QED BY <1>8, <3>1, <3>2
  <2>2. /\ effect.handovers = ext.handovers /\ effect.incidents = ext.incidents
        /\ effect.record = ext.record /\ effect.ticket = ext.ticket
    BY <1>1, <2>1 DEF ExtType
  <2>3. Small /\ ext'.record = ext.record /\ ext'.ticket = ext.ticket
    BY <1>1, <1>4, <2>1, <2>2
  <2>4. PICK p \in {"resolve", "closing"} : Moved(p, Run(w))
    BY <1>4, <2>1
  <2>5. ASSUME NEW m, m.pc = p PROVE EscalationCall(w, m)
    BY <1>8, <2>3, <2>5
       DEF EscalationCall, Documents, LogDocumentationIncident, ResolveDocumentationIncident
  <2> QED BY <1>5, <2>3, <2>4, <2>5
<1>9. CASE CloseUnsuccessful(w)
  <2>1. PICK effect, told : /\ effect = TicketClosed(Run(w).st.ticket, "unsuccessful")
                            /\ told = [ext.ticket EXCEPT ![Run(w).st.ticket] = "unsuccessful"]
    OBVIOUS
  <2>2. /\ effect.handovers = ext.handovers /\ effect.incidents = ext.incidents
        /\ effect.record = ext.record /\ effect.ticket = told
    BY <1>1, <2>1 DEF TicketClosed, ExtType
  <2>3. /\ me[w].pc = "closing" /\ ext' \in {ext, effect}
        /\ Run(w).st.ticket # 0 /\ "ticket" \notin Faulty => ext' = effect
    BY <1>9, <2>1 DEF CloseUnsuccessful, Raises
  <2>4. PICK run \in {Run(w), [Run(w) EXCEPT !.st.closed = TRUE]} : Goto(w, "release", run)
    BY <1>9 DEF CloseUnsuccessful
  <2>5. Moved("release", run) /\ Small
    BY <1>1, <1>3, <2>2, <2>3, <2>4
  <2>6. ASSUME NEW m, m.pc = "release" PROVE EscalationCall(w, m)
    BY <2>1, <2>2, <2>3, <2>6 DEF EscalationCall, Tells
  <2> QED BY <1>5, <2>4, <2>5, <2>6
<1>10. CASE ReleaseResource(w)
  <2>1. PICK effect : effect = Released(Run(w))
    OBVIOUS
  <2>2. /\ me[w].pc = "release"
        /\ \/ ~ResourceInFlight(Run(w)) /\ ext' = ext /\ Goto(w, "save", Run(w))
           \/ ResourceInFlight(Run(w)) /\ Guarded(w, "resource", effect, "save", "save")
    BY <1>10, <2>1 DEF ReleaseResource
  <2>3. /\ Moved("save", Run(w)) /\ ext' \in {ext, effect}
        /\ ResourceInFlight(Run(w)) => ext' = effect \/ "resource" \in Faulty
        /\ ~ResourceInFlight(Run(w)) => ext' = ext
    BY <1>3, <1>4, <2>2
  <2>4. PICK x \in {"absent", "READY"} :
           /\ x = "absent" => request = "CREATE" \/ RecordOf(Run(w)) = "absent"
           /\ Recorded(effect, [ext.record EXCEPT ![Run(w).st.vendor] = x])
    <3>1. \A x : Recorded(SetRecord(Run(w), x), [ext.record EXCEPT ![Run(w).st.vendor] = x])
      BY <1>1, RecordEffects
    <3>2. CASE request = "CREATE"
      <4>1. effect = SetRecord(Run(w), "absent")
        BY <2>1, <3>2 DEF Released, RecordDeleted
      <4>2. Recorded(effect, [ext.record EXCEPT ![Run(w).st.vendor] = "absent"])
        BY <3>1, <4>1
      <4> QED BY <3>2, <4>2
    <3>3. CASE request # "CREATE" /\ RecordOf(Run(w)) = "absent"
      <4>1. effect = ext
        BY <2>1, <3>3 DEF Released
      <4>2. [ext.record EXCEPT ![Run(w).st.vendor] = "absent"] = ext.record
        BY <1>1, <3>3 DEF RecordOf, ExtType
      <4> QED BY <3>3, <4>1, <4>2 DEF Recorded
    <3>4. CASE request # "CREATE" /\ RecordOf(Run(w)) # "absent"
      <4>1. effect = SetRecord(Run(w), "READY")
        BY <2>1, <3>4 DEF Released
      <4>2. Recorded(effect, [ext.record EXCEPT ![Run(w).st.vendor] = "READY"])
        BY <3>1, <4>1
      <4> QED BY <4>2
    <3> QED BY <3>2, <3>3, <3>4
  <2>5. Small /\ ext'.ticket = ext.ticket
    BY <1>1, <2>3, <2>4 DEF Recorded
  <2>6. ASSUME NEW m, m.pc = "save" PROVE EscalationCall(w, m)
    <3>1. Releases(w, m)
      BY <2>2, <2>3, <2>4, <2>5, <2>6 DEF Releases, Recorded
    <3> QED BY <3>1 DEF EscalationCall
  <2> QED BY <1>5, <2>3, <2>5, <2>6
<1> QED BY <1>7, <1>8, <1>9, <1>10 DEF Escalate

-----------------------------------------------------------------------------
(* The steps that touch nothing outside. *)

SameRow ==
    /\ row'.st = row.st /\ row'.step = row.step /\ row'.status = row.status
    /\ row'.version = row.version

\* The copy of w becomes the row.
TakenFrom(w) ==
    /\ me[w].pc = "save" /\ row.version = Run(w).version
    /\ row'.st = Run(w).st /\ row'.step = Run(w).step /\ row'.status = Run(w).status
    /\ row'.version = Run(w).version + 1
    /\ overdue' => Run(w).st.clock > 0

Rests(m) == m.pc \in {"idle", "claimed"} /\ ~m.quiet /\ m.run = Blank

Resumes(w, m) ==
    /\ me[w].pc = "claimed" /\ SameRow /\ overdue' = overdue
    /\ m.pc \in {"overdue", "step"} /\ ~m.quiet
    /\ m.pc = "overdue" => overdue \/ row.st.clock > 0
    /\ row.status \in Active /\ m.run.status = "RUNNING"
    /\ m.run.st = row.st /\ m.run.version = row.version
    /\ m.run.step = IF row.step = "none" THEN Plan[1] ELSE row.step

FailsToSave(w, m) ==
    /\ me[w].pc = "save" /\ ~me[w].quiet /\ m.quiet
    /\ m.run.status = "FAILED" /\ m.run.st = Run(w).st /\ m.run.step = Run(w).step
    /\ \/ Run(w).status = "FAILED" /\ m.pc = "save"
       \/ m.pc = "incident" /\ m.err = "unclassified"

Keeping(w) == Claim(w) \/ Load(w) \/ Save(w) \/ SaveRaises(w) \/ Crash(w)

\* Claiming, loading, saving and dying.
LEMMA KeepingForm ==
    ASSUME DriverInv, NEW w \in Workers, Keeping(w)
    PROVE  /\ UNCHANGED <<request, ext, faults>>
           /\ dbFaults' = dbFaults \/ dbFaults' > 0
           /\ (SameRow /\ overdue' = overdue) \/ TakenFrom(w)
           /\ \E m : /\ me' = [me EXCEPT ![w] = m]
                     /\ Rests(m) \/ Resumes(w, m) \/ (FailsToSave(w, m) /\ dbFaults' > 0)
<1>1. /\ me \in [Workers -> WorkerType] /\ me[w] \in WorkerType /\ Run(w) \in RunType
      /\ row \in RunType /\ dbFaults \in Nat /\ PointSound(me[w])
  BY DEF DriverInv, TypeOK, WorkerType, Run, WorkerSound
<1>2. Rests(Idle)
  BY DEF Rests, Idle
<1>3. ASSUME row' = row PROVE SameRow
  BY <1>3 DEF SameRow
<1>4. ASSUME Write(w), me[w].pc = "save" PROVE TakenFrom(w)
  <2>1. row' = [Run(w) EXCEPT !.version = Run(w).version + 1] /\ row.version = Run(w).version
    BY <1>4 DEF Write, VersionMatches
  <2>2. /\ row'.st = Run(w).st /\ row'.step = Run(w).step /\ row'.status = Run(w).status
        /\ row'.version = Run(w).version + 1
    BY <1>1, <2>1 DEF RunType
  <2>3. overdue' => Run(w).st.clock > 0
    <3>1. PICK c \in Nat : c = Run(w).st.clock
      BY <1>1 DEF RunType, StateType
    <3>2. overdue' => c > 1
      BY <1>4, <3>1 DEF Write
    <3> QED BY <3>1, <3>2
  <2> QED BY <1>4, <2>1, <2>2, <2>3 DEF TakenFrom
<1>5. CASE Claim(w)
  <2>1. row' = [row EXCEPT !.date = "future"]
    BY <1>5 DEF Claim
  <2>2. SameRow
    BY <1>1, <2>1, CopyFields DEF SameRow
  <2>3. me[w] = Idle
    BY <1>1, <1>5 DEF Claim, PointSound
  <2> DEFINE m == [Idle EXCEPT !.pc = "claimed"]
  <2>4. me' = [me EXCEPT ![w] = m]
    BY <1>5, <2>3 DEF Claim
  <2>5. Rests(m)
    BY DEF Rests, Idle
  <2> HIDE DEF m
  <2> QED BY <1>5, <2>2, <2>4, <2>5 DEF Claim, world
<1>6. CASE Load(w)
  <2>1. SameRow /\ me[w] = [Idle EXCEPT !.pc = "claimed"] /\ me[w].pc = "claimed"
    BY <1>1, <1>3, <1>6 DEF Load, PointSound
  <2>2. ~me[w].quiet
    BY <2>1 DEF Idle
  <2>3. CASE ~Unfinished /\ me' = [me EXCEPT ![w] = Idle]
    BY <1>2, <1>6, <2>1, <2>3 DEF Load, world
  <2>4. CASE Unfinished /\ Goto(w, IF Late THEN "overdue" ELSE "step",
                   [row EXCEPT !.status = "RUNNING", !.step = IF @ = "none" THEN Plan[1] ELSE @])
    <3>1. PICK p \in {"overdue", "step"} : p = IF Late THEN "overdue" ELSE "step"
      OBVIOUS
    <3>2. p = "overdue" => overdue \/ row.st.clock > 0
      <4>1. PICK c \in Nat : c = row.st.clock
        BY <1>1 DEF RunType, StateType
      <4>2. MaxPolls \in Nat \ {0}
        BY DriverAssumption
      <4>3. p = "overdue" => overdue \/ c >= MaxPolls
        BY <3>1, <4>1 DEF Late
      <4> QED BY <4>1, <4>2, <4>3
    <3>3. PICK s : s = IF row.step = "none" THEN Plan[1] ELSE row.step
      OBVIOUS
    <3> DEFINE run == [row EXCEPT !.status = "RUNNING", !.step = s]
               m   == [pc |-> p, err |-> me[w].err, order |-> me[w].order,
                       quiet |-> me[w].quiet, run |-> run]
    <3>4. Goto(w, p, run)
      BY <2>4, <3>1, <3>3
    <3>5. run.st = row.st /\ run.version = row.version /\ run.status = "RUNNING" /\ run.step = s
      BY <1>1 DEF RunType
    <3> HIDE DEF run
    <3>6. me' = [me EXCEPT ![w] = m]
      BY <1>1, <3>4, GotoIs
    <3>7. m.pc = p /\ m.quiet = me[w].quiet /\ m.run = run
      OBVIOUS
    <3> HIDE DEF m
    <3>8. row.status \in Active /\ overdue' = overdue
      BY <1>6, <2>4 DEF Unfinished, Load
    <3>9. Resumes(w, m)
      BY <2>1, <2>2, <3>2, <3>3, <3>5, <3>7, <3>8 DEF Resumes
    <3> QED BY <1>6, <2>1, <3>6, <3>8, <3>9 DEF Load, world
  <2> QED BY <1>6, <2>3, <2>4 DEF Load
<1>7. CASE Save(w)
  <2>1. (SameRow /\ overdue' = overdue) \/ TakenFrom(w)
    BY <1>3, <1>4, <1>7 DEF Save
  <2> QED BY <1>2, <1>7, <2>1 DEF Save, world
<1>8. CASE SaveRaises(w)
  <2>1. (SameRow /\ overdue' = overdue) \/ TakenFrom(w)
    BY <1>3, <1>4, <1>8 DEF SaveRaises
  <2>2. UNCHANGED <<request, ext, faults>> /\ dbFaults' > 0 /\ me[w].pc = "save"
    BY <1>1, <1>8 DEF SaveRaises, world
  <2>3. CASE me' = [me EXCEPT ![w] = Idle]
    BY <1>2, <2>1, <2>2, <2>3
  <2>4. CASE ~me[w].quiet /\ SaveRaised(w)
    <3>1. CASE Run(w).status = "FAILED"
      <4> DEFINE m == [me[w] EXCEPT !.quiet = TRUE]
      <4>1. me' = [me EXCEPT ![w] = m]
        BY <2>4, <3>1 DEF SaveRaised
      <4>2. m.quiet = TRUE /\ m.pc = "save" /\ m.run = Run(w)
        BY <1>1, <2>2 DEF WorkerType, Run
      <4> HIDE DEF m
      <4>3. FailsToSave(w, m)
        BY <2>2, <2>4, <3>1, <4>2 DEF FailsToSave
      <4> QED BY <2>1, <2>2, <4>1, <4>3
    <3>2. CASE Run(w).status # "FAILED"
      <4> DEFINE m == [[[[me[w] EXCEPT !.quiet = TRUE] EXCEPT !.pc = "incident"]
                          EXCEPT !.err = "unclassified"] EXCEPT !.run = Failed(Run(w))]
      <4>1. me' = [me EXCEPT ![w] = m]
        BY <2>4, <3>2 DEF SaveRaised
      <4>2. m.quiet = TRUE /\ m.pc = "incident" /\ m.err = "unclassified" /\ m.run = Failed(Run(w))
        BY <1>1 DEF WorkerType
      <4>3. /\ Failed(Run(w)).status = "FAILED" /\ Failed(Run(w)).st = Run(w).st
            /\ Failed(Run(w)).step = Run(w).step
        BY <1>1 DEF Failed, RunType
      <4> HIDE DEF m
      <4>4. FailsToSave(w, m)
        BY <2>2, <2>4, <4>2, <4>3 DEF FailsToSave
      <4> QED BY <2>1, <2>2, <4>1, <4>4
    <3> QED BY <3>1, <3>2
  <2> QED BY <1>8, <2>3, <2>4 DEF SaveRaises
<1>9. CASE Crash(w)
  <2>1. SameRow /\ overdue' = overdue
    BY <1>3, <1>9 DEF Crash
  <2> QED BY <1>2, <1>9, <2>1 DEF Crash, world
<1> QED BY <1>5, <1>6, <1>7, <1>8, <1>9 DEF Keeping

\* A run is triggered; nobody has it yet.
Begins ==
    /\ request = "none" /\ request' \in Requests /\ me' = me /\ overdue' = overdue
    /\ row'.st = NewState(request') /\ row'.step = "none" /\ row'.status = "PENDING"
    /\ ext'.record["real"] = ext.record["real"]
    /\ ext'.record["given"] \in {"absent", "READY"}
    /\ request' = "DELETE" => ext'.record["given"] = "READY"

\* Time passes, people decide, engine runs end, callbacks come.
Passes ==
    /\ request' = request /\ me' = me /\ SameRow
    /\ ext'.record = ext.record /\ ext'.ticket = ext.ticket
    /\ ext'.handovers = ext.handovers /\ ext'.incidents = ext.incidents
    /\ overdue' = overdue \/ row.st.clock > 0

\* What the world does meanwhile.
LEMMA WorldForm ==
    ASSUME DriverInv, [Next]_vars, ~\E w \in Workers : Work(w) \/ SaveRaises(w) \/ Crash(w)
    PROVE  UNCHANGED <<faults, dbFaults>> /\ (Begins \/ Passes)
<1>1. ext \in ExtType /\ row \in RunType
  BY DEF DriverInv, TypeOK
<1>2. UNCHANGED <<faults, dbFaults, me>>
  BY WorldStep
<1>3. row' = row => SameRow
  BY DEF SameRow
<1>4. row' = [row EXCEPT !.date = "due"] => SameRow
  BY <1>1, CopyFields DEF SameRow
<1>5. CASE UNCHANGED vars
  BY <1>2, <1>3, <1>5 DEF vars, Passes
<1>6. CASE \E kind \in Requests : Trigger(kind)
  <2>1. PICK kind \in Requests : Trigger(kind)
    BY <1>6
  <2>2. PICK x, y : /\ ext' = [[ext EXCEPT !.ticket[1] = x] EXCEPT !.record["given"] = y]
                    /\ y = IF kind \in {"UPDATE", "DELETE"} THEN "READY" ELSE "absent"
    BY <2>1 DEF Trigger
  <2>3. ext'.record = [ext.record EXCEPT !["given"] = y]
    BY <1>1, <2>2 DEF ExtType
  <2>4. ext'.record["given"] = y /\ ext'.record["real"] = ext.record["real"]
    BY <1>1, <2>3 DEF ExtType
  <2>5. row' = [Blank EXCEPT !.status = "PENDING", !.date = "due", !.st = NewState(kind)]
    BY <2>1 DEF Trigger
  <2>6. row'.status = "PENDING" /\ row'.st = NewState(kind) /\ row'.step = "none"
    BY <2>5 DEF Blank
  <2>7. /\ y \in {"absent", "READY"}
        /\ kind = "DELETE" => y = "READY"
    BY <2>2
  <2>8. request' = kind /\ request = "none" /\ UNCHANGED overdue
    BY <2>1 DEF Trigger
  <2> QED BY <1>2, <2>4, <2>6, <2>7, <2>8 DEF Begins
<1>7. CASE \E t \in TicketIds, answer \in {"approved", "rejected"} : DecideApproval(t, answer)
  <2>1. PICK t, answer : DecideApproval(t, answer)
    BY <1>7
  <2>2. ext' = [ext EXCEPT !.approval[t] = answer]
    BY <2>1 DEF DecideApproval
  <2>3. /\ ext'.handovers = ext.handovers /\ ext'.incidents = ext.incidents
        /\ ext'.record = ext.record /\ ext'.ticket = ext.ticket
    BY <1>1, <2>2 DEF ExtType
  <2> QED BY <1>2, <1>3, <2>1, <2>3 DEF DecideApproval, Passes
<1>8. CASE \E k \in EngineIds : FinishEngine(k)
  <2>1. PICK k : FinishEngine(k)
    BY <1>8
  <2>2. PICK end : ext' = [ext EXCEPT !.engine[k] = end]
    BY <2>1 DEF FinishEngine
  <2>3. /\ ext'.handovers = ext.handovers /\ ext'.incidents = ext.incidents
        /\ ext'.record = ext.record /\ ext'.ticket = ext.ticket
    BY <1>1, <2>2 DEF ExtType
  <2> QED BY <1>2, <1>3, <2>1, <2>3 DEF FinishEngine, Passes
<1>9. CASE Elapse
  BY <1>2, <1>4, <1>9 DEF Elapse, world, Passes
<1>10. CASE Overrun
  BY <1>2, <1>3, <1>10 DEF Overrun, world, Passes
<1>11. CASE FindRun
  BY <1>2, <1>3, <1>11 DEF FindRun, Passes
<1>12. CASE WakeRun
  <2>1. SameRow
    BY <1>3, <1>4, <1>12 DEF WakeRun
  <2> QED BY <1>2, <1>12, <2>1 DEF WakeRun, Passes
<1> QED BY <1>5, <1>6, <1>7, <1>8, <1>9, <1>10, <1>11, <1>12 DEF Next

\* Nothing else happens.
LEMMA NextForms ==
    ASSUME DriverInv, [Next]_vars
    PROVE  \/ UNCHANGED <<faults, dbFaults>> /\ (Begins \/ Passes)
           \/ \E w \in Workers : Keeping(w) \/ ExecuteStep(w) \/ Escalate(w)
BY WorldForm DEF Work, Keeping

-----------------------------------------------------------------------------
(* Completed runs. *)

\* a has done what b has, but for the closing of the ticket.
Alike(a, b) ==
    /\ a.st.ticket = b.st.ticket /\ a.st.vendor = b.st.vendor
    /\ a.st.configured = b.st.configured /\ a.st.finalized = b.st.finalized
    /\ a.st.submitted = b.st.submitted

\* There are two records: the one that was asked for, and the one the engine
\* reported.
LEMMA TwoRecords ==
    ASSUME ext \in ExtType
    PROVE  \A states : AllRecords(states) <=> ext.record["given"] \in states /\ ext.record["real"] \in states
<1>1. DOMAIN ext.record = {"given", "real"}
  BY DEF ExtType
<1> QED BY <1>1 DEF AllRecords

\* What is done stays done while nobody touches the record of a finalized run,
LEMMA DoneKept ==
    ASSUME NEW a, NEW b, request' = request, ext \in ExtType, ext' \in ExtType, Alike(a, b),
           ext'.handovers >= ext.handovers, b.st.finalized => ext'.record = ext.record,
           DoneAsMarked(b)
    PROVE  DoneAsMarked(a)'
<1>1. \A x : ext.handovers >= 1 => ext'.handovers >= 1
  <2>1. ext.handovers \in Nat /\ ext'.handovers \in Nat
    BY DEF ExtType
  <2> QED BY <2>1
<1>2. HasResource' = HasResource
  BY DEF HasResource
<1>3. ext'.record = ext.record => \A states : AllRecords(states)' = AllRecords(states)
  BY DEF AllRecords
<1> QED BY <1>1, <1>2, <1>3 DEF DoneAsMarked, Alike

\* and stays marked while nobody touches the ticket of a completed one.
LEMMA MarksKept ==
    ASSUME NEW a, NEW b, request' = request, Alike(a, b), a.step = b.step,
           a.status # "ABSENT" => b.status # "ABSENT",
           a.status \in Active => b.status \in Active /\ a.st.closed = b.st.closed,
           a.status = "COMPLETED" => b.status = "COMPLETED" /\ ext'.ticket = ext.ticket,
           MarkedAsDone(b)
    PROVE  MarkedAsDone(a)'
<1>1. HasResource' = HasResource
  BY DEF HasResource
<1> QED BY <1>1 DEF MarkedAsDone, Alike

\* A worker without the run has done nothing.
LEMMA BlankDone == DoneAsMarked(Blank)' /\ MarkedAsDone(Blank)'
BY DEF DoneAsMarked, MarkedAsDone, Blank, NewState, PastConfigure, AfterApproval, Active

\* While one worker has the run, all the others are idle.
LEMMA OneMoves ==
    ASSUME DriverInv, Exclusive, NEW w \in Workers, Keeping(w) \/ ExecuteStep(w) \/ Escalate(w),
           NEW m, me' = [me EXCEPT ![w] = m]
    PROVE  me'[w] = m /\ \A v \in Workers \ {w} : me[v] = Idle /\ me'[v] = Idle
<1>1. me \in [Workers -> WorkerType]
  BY DEF DriverInv, TypeOK
<1>2. me[w].pc # "idle" \/ row.date = "due"
  BY ExecuteLeaves, EscalateSound
     DEF Keeping, Claim, Load, Save, SaveRaises, Crash, SoundStep, Busy, Driving, Escalating
<1>3. ASSUME NEW v \in Workers, v # w PROVE me[v] = Idle /\ me'[v] = Idle
  <2>1. me[v].pc = "idle"
    BY <1>2, <1>3 DEF Exclusive
  <2>2. me[v] = Idle
    BY <2>1 DEF DriverInv, WorkerSound, PointSound
  <2> QED BY <1>1, <1>3, <2>2
<1> QED BY <1>1, <1>3

\* One worker at a time changes what the invariant is about.
LEMMA DoneFrame ==
    ASSUME DriverInv, Exclusive, NEW w \in Workers, Keeping(w) \/ ExecuteStep(w) \/ Escalate(w),
           NEW m, me' = [me EXCEPT ![w] = m],
           ext'.record["real"] \in {"absent", "READY"},
           request' \in {"none", "DELETE"} => ext'.record["real"] = "absent",
           DoneAsMarked(m.run)', MarkedAsDone(m.run)', DoneAsMarked(row)', MarkedAsDone(row)',
           m.quiet => /\ m.pc \in {"incident", "release", "save"}
                      /\ m.pc = "incident" => m.err = "unclassified"
                      /\ row'.st.finalized => m.run.st.finalized,
           m.pc = "delete" => request' = "DELETE" /\ ~m.run.st.finalized
    PROVE  AllDone'
<1>1. me'[w] = m /\ \A v \in Workers \ {w} : me'[v] = Idle
  BY OneMoves
<1>2. Idle.run = Blank /\ ~Idle.quiet /\ Idle.pc = "idle"
  BY DEF Idle
<1>3. ASSUME NEW v \in Workers PROVE DoneAsMarked(me[v].run)' /\ MarkedAsDone(me[v].run)'
  <2>1. PICK r : r = me'[v].run
    OBVIOUS
  <2>2. r = m.run \/ r = Blank
    BY <1>1, <1>2, <2>1
  <2>3. DoneAsMarked(r)' /\ MarkedAsDone(r)'
    BY <2>2, BlankDone
  <2> QED BY <2>1, <2>3 DEF DoneAsMarked, MarkedAsDone
<1>4. ASSUME NEW v \in Workers
      PROVE  /\ me'[v].quiet => /\ me'[v].pc \in {"incident", "release", "save"}
                                /\ me'[v].pc = "incident" => me'[v].err = "unclassified"
                                /\ row'.st.finalized => me'[v].run.st.finalized
             /\ me'[v].pc = "delete" => request' = "DELETE" /\ ~me'[v].run.st.finalized
  <2>1. CASE v = w
    BY <1>1, <2>1
  <2>2. CASE v # w
    BY <1>1, <1>2, <2>2
  <2> QED BY <2>1, <2>2
<1> QED BY <1>3, <1>4 DEF AllDone, Copies, Run

\* Claiming, loading, saving and dying change nothing that is done.
LEMMA KeepingDone ==
    ASSUME DriverInv, DriverInv', Exclusive, AllDone, NEW w \in Workers, Keeping(w)
    PROVE  AllDone'
<1>1. /\ UNCHANGED <<request, ext>>
      /\ SameRow \/ TakenFrom(w)
  BY KeepingForm
<1>2. PICK m : /\ me' = [me EXCEPT ![w] = m]
               /\ Rests(m) \/ Resumes(w, m) \/ FailsToSave(w, m)
  BY KeepingForm
<1>3. /\ DoneAsMarked(Run(w)) /\ MarkedAsDone(Run(w)) /\ DoneAsMarked(row) /\ MarkedAsDone(row)
      /\ ext.record["real"] \in {"absent", "READY"}
      /\ request \in {"none", "DELETE"} => ext.record["real"] = "absent"
      /\ me[w].quiet /\ row.st.finalized => Run(w).st.finalized
  BY DEF AllDone, Copies
<1>4. ext \in ExtType /\ ext' \in ExtType /\ ext'.handovers >= ext.handovers
  <2>1. ext \in ExtType /\ ext.handovers \in Nat
    BY DEF DriverInv, TypeOK, ExtType
  <2> QED BY <1>1, <2>1
<1>5. ASSUME NEW a, NEW b \in {row, Run(w)}, a.st = b.st, a.step = b.step,
             a.status # "ABSENT" => b.status # "ABSENT",
             a.status \in Active => b.status \in Active,
             a.status = "COMPLETED" => b.status = "COMPLETED"
      PROVE  DoneAsMarked(a)' /\ MarkedAsDone(a)'
  <2>1. Alike(a, b) /\ DoneAsMarked(b) /\ MarkedAsDone(b)
    BY <1>3, <1>5 DEF Alike
  <2> QED BY <1>1, <1>4, <1>5, <2>1, DoneKept, MarksKept
<1>6. DoneAsMarked(row)' /\ MarkedAsDone(row)'
  <2>1. PICK r : r = row'
    OBVIOUS
  <2>2. \E b \in {row, Run(w)} : r.st = b.st /\ r.step = b.step /\ r.status = b.status
    BY <1>1, <2>1 DEF SameRow, TakenFrom
  <2>3. DoneAsMarked(r)' /\ MarkedAsDone(r)'
    BY <1>5, <2>2
  <2> QED BY <2>1, <2>3 DEF DoneAsMarked, MarkedAsDone
<1>7. CASE Rests(m)
  <2>1. DoneAsMarked(m.run)' /\ MarkedAsDone(m.run)' /\ ~m.quiet /\ m.pc # "delete"
    BY <1>7, BlankDone DEF Rests
  <2> QED BY <1>1, <1>2, <1>3, <1>6, <2>1, DoneFrame
<1>8. CASE Resumes(w, m)
  <2>1. ~m.quiet /\ m.pc # "delete"
    BY <1>8 DEF Resumes
  <2>2. DoneAsMarked(m.run)'
    <3>1. Alike(m.run, row)
      BY <1>8 DEF Resumes, Alike
    <3> QED BY <1>1, <1>3, <1>4, <3>1, DoneKept
  <2>3. MarkedAsDone(m.run)'
    <3>1. CASE row.step # "none"
      <4>1. /\ m.run.st = row.st /\ m.run.step = row.step /\ m.run.status = "RUNNING"
            /\ row.status \in Active
        BY <1>8, <3>1 DEF Resumes
      <4>2. m.run.status # "COMPLETED" /\ row.status # "ABSENT"
        BY <4>1 DEF Active
      <4> QED BY <1>5, <4>1, <4>2
    <3>2. CASE row.step = "none"
      <4>1. /\ m.run.st = row.st /\ m.run.step = Plan[1] /\ m.run.status = "RUNNING"
            /\ row.status \in Active
        BY <1>8, <3>2 DEF Resumes
      <4>2. HasResource => Plan[1] = "CREATE_TICKET"
        BY ResourcePlan DEF HasResource
      <4>3. /\ request = "AUTOMATION" => row.st.ticket # 0
            /\ ~row.st.closed
        BY <1>3, <4>1 DEF MarkedAsDone, Active
      <4>4. HasResource' = HasResource
        BY <1>1 DEF HasResource
      <4> QED BY <1>1, <4>1, <4>2, <4>3, <4>4 DEF MarkedAsDone, PastConfigure, AfterApproval
    <3> QED BY <3>1, <3>2
  <2> QED BY <1>1, <1>2, <1>3, <1>6, <2>1, <2>2, <2>3, DoneFrame
<1>9. CASE FailsToSave(w, m)
  <2>1. /\ m.run.st = Run(w).st /\ m.run.step = Run(w).step /\ m.run.status = "FAILED"
        /\ m.pc \in {"incident", "save"} /\ (m.pc = "incident" => m.err = "unclassified")
        /\ me[w].pc = "save" /\ ~me[w].quiet
    BY <1>9 DEF FailsToSave
  <2>2. Run(w).status # "ABSENT" /\ me[w].pc \in Busy
    BY <2>1 DEF DriverInv, WorkerSound, PointSound, Terminal, Run, Busy
  <2>3. DoneAsMarked(m.run)' /\ MarkedAsDone(m.run)'
    BY <1>5, <2>1, <2>2 DEF Active
  <2>4. row'.st.finalized => m.run.st.finalized
    <3>1. Run(w).version = row.version /\ Tracks(me[w])
      BY <2>1, <2>2, HolderIsCurrent DEF DriverInv, WorkerSound
    <3>2. row.st.finalized => Run(w).st.finalized
      BY <3>1 DEF Tracks, Keeps, Run
    <3> QED BY <1>1, <2>1, <3>2 DEF SameRow, TakenFrom
  <2> QED BY <1>1, <1>2, <1>3, <1>6, <2>1, <2>3, <2>4, DoneFrame
<1> QED BY <1>2, <1>7, <1>8, <1>9

\* A worker that has the run knows what the row says is done.
LEMMA KnowsFinalized ==
    ASSUME DriverInv, Exclusive, AllDone, NEW w \in Workers, me[w].pc \in Busy
    PROVE  /\ row.st.finalized => Run(w).st.finalized
           /\ ~me[w].quiet => row.status \in Active
<1>1. CASE me[w].quiet
  BY <1>1 DEF AllDone
<1>2. CASE ~me[w].quiet
  <2>1. Run(w).version = row.version /\ Tracks(me[w]) /\ row.status \in Active
    BY <1>2, HolderIsCurrent DEF DriverInv, WorkerSound
  <2> QED BY <2>1 DEF Tracks, Keeps, Run
<1> QED BY <1>1, <1>2

\* An escalation does not touch what is done.
LEMMA EscalateDone ==
    ASSUME DriverInv, DriverInv', Exclusive, AllDone, NEW w \in Workers, Escalate(w)
    PROVE  AllDone'
<1>1. PICK m : me' = [me EXCEPT ![w] = m] /\ Escalates(w, m) /\ EscalationCall(w, m)
  BY EscalateEffects
<1>2. row' = row /\ request' = request /\ me[w].pc \in Busy
  BY EscalateSound DEF SoundStep, others
<1>3. /\ DoneAsMarked(Run(w)) /\ MarkedAsDone(Run(w)) /\ DoneAsMarked(row) /\ MarkedAsDone(row)
      /\ ext.record["real"] \in {"absent", "READY"}
      /\ request \in {"none", "DELETE"} => ext.record["real"] = "absent"
      /\ me[w].quiet => /\ me[w].pc \in {"incident", "release", "save"}
                        /\ me[w].pc = "incident" => me[w].err = "unclassified"
  BY DEF AllDone, Copies
<1>4. /\ row.st.finalized => Run(w).st.finalized
      /\ ~me[w].quiet => row.status \in Active
  BY <1>2, KnowsFinalized
<1>5. /\ ext \in ExtType /\ ext' \in ExtType /\ ext'.handovers >= ext.handovers
      /\ Run(w) \in RunType
  <2>1. ext \in ExtType /\ ext' \in ExtType /\ ext.handovers \in Nat /\ Run(w) \in RunType
    BY DEF DriverInv, TypeOK, ExtType, WorkerType, Run
  <2> QED BY <1>1, <2>1 DEF Escalates
<1>6. me[w].pc \in Escalating /\ Run(w).status \in {"FAILED", "REJECTED"}
  <2>1. me[w].pc \in Escalating
    BY <1>1 DEF EscalationCall, Pages, Documents, Tells, Releases, Escalating
  <2> QED BY <2>1 DEF DriverInv, WorkerSound, PointSound, Run
<1>7. \/ ext'.record = ext.record
      \/ /\ ResourceInFlight(Run(w))
         /\ \E x : ext'.record = [ext.record EXCEPT ![Run(w).st.vendor] = x]
  BY <1>1 DEF EscalationCall, Pages, Documents, Tells, Releases
<1>8. Run(w).st.finalized => ext'.record = ext.record
  BY <1>7 DEF ResourceInFlight
<1>9. ext'.record["real"] = ext.record["real"]
  <2>1. CASE ext'.record = ext.record
    BY <2>1
  <2>2. CASE /\ ResourceInFlight(Run(w))
             /\ \E x : ext'.record = [ext.record EXCEPT ![Run(w).st.vendor] = x]
    <3>1. Run(w).st.vendor = "given"
      BY <1>3, <1>5, <2>2 DEF ResourceInFlight, DoneAsMarked, RunType, StateType
    <3> QED BY <1>5, <2>2, <3>1 DEF ExtType
  <2> QED BY <1>7, <2>1, <2>2
<1>10. row.status = "COMPLETED" => ext'.ticket = ext.ticket
  <2>1. row.status = "COMPLETED" => me[w].pc # "closing"
    BY <1>3, <1>4 DEF Active
  <2> QED BY <1>1, <2>1 DEF EscalationCall, Pages, Documents, Tells, Releases
<1>11. DoneAsMarked(row)' /\ MarkedAsDone(row)'
  <2>1. PICK r : r = row
    OBVIOUS
  <2>2. Alike(r, r)
    BY DEF Alike
  <2>3. DoneAsMarked(r)' /\ MarkedAsDone(r)'
    BY <1>2, <1>3, <1>4, <1>5, <1>8, <1>10, <2>1, <2>2, DoneKept, MarksKept
  <2> QED BY <1>2, <2>1, <2>3 DEF DoneAsMarked, MarkedAsDone
<1>12. DoneAsMarked(m.run)' /\ MarkedAsDone(m.run)'
  <2>1. Alike(m.run, Run(w)) /\ m.run.step = Run(w).step /\ m.run.status = Run(w).status
    BY <1>1 DEF Alike, Escalates
  <2>2. m.run.status \notin Active /\ m.run.status # "COMPLETED" /\ Run(w).status # "ABSENT"
    BY <1>6, <2>1 DEF Active
  <2> QED BY <1>2, <1>3, <1>5, <1>8, <2>1, <2>2, DoneKept, MarksKept
<1>13. /\ m.pc # "delete" /\ m.pc # "incident"
       /\ m.quiet => /\ m.pc \in {"incident", "release", "save"}
                     /\ row'.st.finalized => m.run.st.finalized
  <2>1. m.quiet = me[w].quiet /\ m.run.st.finalized = Run(w).st.finalized
    BY <1>1 DEF Escalates
  <2>2. m.pc # "delete" /\ m.pc # "incident"
    BY <1>1 DEF EscalationCall, Pages, Documents, Tells, Releases
  <2>3. me[w].quiet => m.pc \in {"release", "save"}
    BY <1>1, <1>3 DEF EscalationCall, Pages, Documents, Tells, Releases
  <2> QED BY <1>2, <1>4, <2>1, <2>2, <2>3
<1> QED BY <1>1, <1>2, <1>3, <1>9, <1>11, <1>12, <1>13, DoneFrame

\* A step that is done leaves a copy that says so.
LEMMA ContinuesDone ==
    ASSUME DriverInv, NEW w \in Workers, NEW m, NEW run, Continues(w, m, run), request' = request,
           Run(w).step \in PlanSteps, run.step = Run(w).step, DoneAsMarked(run)', Passed(run),
           request = "AUTOMATION" => run.st.ticket # 0,
           HasResource /\ run.step \in PastConfigure => run.st.configured,
           HasResource /\ run.step = "CLOSE_TICKET" => run.st.finalized,
           run.st.closed => run.step = "CLOSE_TICKET",
           run.step = "CLOSE_TICKET" => /\ run.st.ticket # 0
                                        /\ ext'.ticket[run.st.ticket] = "closed"
    PROVE  DoneAsMarked(m.run)' /\ MarkedAsDone(m.run)'
<1>1. /\ SameWork(m.run, run)
      /\ \/ m.run.status = "RUNNING" /\ Follows(run.step, m.run.step)
         \/ /\ m.run.status = "COMPLETED" /\ m.run.step = "none"
            /\ run.step \in {"CLOSE_TICKET", "SUBMIT_LEGACY"}
  BY DEF Continues
<1>2. HasResource' = HasResource
  BY DEF HasResource
<1>3. DoneAsMarked(m.run)'
  BY <1>1 DEF SameWork, DoneAsMarked
<1>4. CASE m.run.status = "RUNNING" /\ Follows(run.step, m.run.step)
  <2>1. HasResource /\ m.run.step \in PastConfigure => m.run.st.configured
    BY <1>1, <1>4 DEF Follows, Passed, SameWork, PastConfigure, AfterApproval
  <2>2. HasResource /\ m.run.step = "CLOSE_TICKET" => m.run.st.finalized
    BY <1>1, <1>4 DEF Follows, Passed, SameWork, HasResource
  <2>3. ~m.run.st.closed /\ (request = "AUTOMATION" => m.run.st.ticket # 0)
    BY <1>1, <1>4 DEF Follows, SameWork
  <2> QED BY <1>2, <1>3, <1>4, <2>1, <2>2, <2>3 DEF MarkedAsDone
<1>5. CASE /\ m.run.status = "COMPLETED" /\ m.run.step = "none"
           /\ run.step \in {"CLOSE_TICKET", "SUBMIT_LEGACY"}
  <2>1. run.step = "SUBMIT_LEGACY" => request = "LEGACY"
    BY AutomationPlan, ResourcePlan DEF Steps
  <2>2. run.step = "CLOSE_TICKET" => request # "LEGACY"
    BY LegacyPlan
  <2>3. HasResource => m.run.st.finalized
    BY <1>1, <1>5, <2>1 DEF HasResource, SameWork
  <2>4. request # "LEGACY" => ext'.ticket[m.run.st.ticket] = "closed" /\ m.run.st.ticket # 0
    BY <1>1, <1>5, <2>1 DEF SameWork
  <2>5. request = "LEGACY" => m.run.st.submitted
    BY <1>1, <1>5, <2>2 DEF SameWork, Passed
  <2> QED BY <1>2, <1>3, <1>5, <2>3, <2>4, <2>5
             DEF MarkedAsDone, Active, PastConfigure, AfterApproval
<1> QED BY <1>1, <1>3, <1>4, <1>5

\* What a worker that executes a step may rely on.
LEMMA ExecutorKnows ==
    ASSUME DriverInv, Exclusive, AllDone, NEW w \in Workers, me[w].pc \in Driving
    PROVE  /\ DoneAsMarked(Run(w)) /\ MarkedAsDone(Run(w)) /\ ~Run(w).st.closed
           /\ row.status \in Active /\ (row.st.finalized => Run(w).st.finalized)
           /\ request # "none" /\ request \in Kinds
           /\ Run(w).step \in PlanSteps /\ Run(w).status = "RUNNING"
           /\ request = "AUTOMATION" => Run(w).st.ticket # 0
           /\ Run(w).step \in {"CONFIGURE_RESOURCE", "FINALIZE_RESOURCE"} => HasResource
           /\ Run(w).step = "CLOSE_TICKET" => Run(w).st.ticket # 0
<1>1. /\ DoneAsMarked(Run(w)) /\ MarkedAsDone(Run(w)) /\ me[w].pc \in Busy /\ ~me[w].quiet
      /\ Run(w).step \in PlanSteps /\ Run(w).status = "RUNNING" /\ RunSound(Run(w))
  BY DrivingFacts DEF AllDone, Copies, Busy, Ready
<1>2. row.status \in Active /\ (row.st.finalized => Run(w).st.finalized)
  BY <1>1, KnowsFinalized
<1>3. request # "none" /\ request \in Kinds
  <2>1. row.status # "ABSENT"
    BY <1>2 DEF Active
  <2> QED BY <2>1 DEF DriverInv, RowSound, TypeOK
<1>4. ~Run(w).st.closed /\ (request = "AUTOMATION" => Run(w).st.ticket # 0)
  BY <1>1 DEF MarkedAsDone, Active
<1>5. Run(w).step \in {"CONFIGURE_RESOURCE", "FINALIZE_RESOURCE"} => HasResource
  BY <1>1, <1>3, AutomationPlan, LegacyPlan DEF HasResource, Kinds
<1>6. Run(w).step = "CLOSE_TICKET" => HasResource \/ request = "AUTOMATION"
  BY <1>1, <1>3, LegacyPlan DEF HasResource, Kinds
<1>7. Run(w).step = "CLOSE_TICKET" => Run(w).st.ticket # 0
  BY <1>1, <1>4, <1>6 DEF RunSound
<1> QED BY <1>1, <1>2, <1>3, <1>4, <1>5, <1>7

\* What a step does to the record.
LEMMA EffectOnRecord ==
    ASSUME DriverInv, DriverInv', Exclusive, AllDone, NEW w \in Workers, me[w].pc \in Driving,
           NEW m, Effect(w, m)
    PROVE  /\ Run(w).st.finalized => ext'.record = ext.record
           /\ ext'.record["real"] \in {ext.record["real"], "READY"}
           /\ request = "DELETE" => ext'.record["real"] = ext.record["real"]
           /\ ext'.handovers >= ext.handovers
<1>1. /\ DoneAsMarked(Run(w)) /\ Run(w).st.vendor \in {"given", "real"}
      /\ ext \in ExtType /\ ext.handovers \in Nat /\ ext.handovers >= ext.handovers
  <2>1. Run(w) \in RunType /\ ext \in ExtType
    BY DEF DriverInv, TypeOK, WorkerType, Run
  <2>2. ext.handovers \in Nat /\ Run(w).st.vendor \in {"given", "real"}
    BY <2>1 DEF ExtType, RunType, StateType
  <2> QED BY <2>1, <2>2, ExecutorKnows
<1>2. Run(w).st.vendor = "given" \/ (Run(w).st.finalized /\ Run(w).st.configured)
  BY <1>1 DEF DoneAsMarked
<1>3. Run(w).st.finalized => Run(w).st.configured
  BY <1>1 DEF DoneAsMarked
<1>4. CASE Plain(w, m)
  BY <1>1, <1>4 DEF Plain, Still
<1>5. CASE Configures(w, m)
  BY <1>1, <1>2, <1>3, <1>5 DEF Configures, OnRecord
<1>6. CASE Finalizes(w, m)
  BY <1>1, <1>2, <1>6 DEF Finalizes, OnRecord
<1>7. CASE MarksDeleted(w, m)
  BY <1>1, <1>2, <1>7 DEF MarksDeleted, OnRecord
<1>8. CASE Deletes(w, m)
  <2>1. ~Run(w).st.finalized
    BY <1>8 DEF Deletes, AllDone
  <2>2. Run(w).st.vendor = "given"
    BY <1>2, <2>1
  <2>3. ext'.record["real"] = ext.record["real"]
    BY <1>1, <1>8, <2>2 DEF Deletes, ExtType
  <2> QED BY <1>1, <1>8, <2>1, <2>3 DEF Deletes, OnRecord
<1>9. CASE Closes(w, m)
  BY <1>1, <1>9 DEF Closes
<1>10. CASE Submits(w, m)
  BY <1>1, <1>10 DEF Submits
<1> QED BY <1>4, <1>5, <1>6, <1>7, <1>8, <1>9, <1>10 DEF Effect

\* What a step makes of the worker's copy.
LEMMA EffectDone ==
    ASSUME DriverInv, DriverInv', Exclusive, AllDone, NEW w \in Workers, me[w].pc \in Driving,
           request' = request, NEW m, Effect(w, m)
    PROVE  DoneAsMarked(m.run)' /\ MarkedAsDone(m.run)'
<1>1. /\ DoneAsMarked(Run(w)) /\ MarkedAsDone(Run(w)) /\ ~Run(w).st.closed
      /\ request # "none" /\ request \in Kinds
      /\ Run(w).step \in PlanSteps /\ Run(w).status = "RUNNING"
      /\ request = "AUTOMATION" => Run(w).st.ticket # 0
      /\ Run(w).step \in {"CONFIGURE_RESOURCE", "FINALIZE_RESOURCE"} => HasResource
      /\ Run(w).step = "CLOSE_TICKET" => Run(w).st.ticket # 0
  BY ExecutorKnows
<1>2. /\ Run(w).st.finalized => ext'.record = ext.record
      /\ ext'.record["real"] \in {ext.record["real"], "READY"}
      /\ request = "DELETE" => ext'.record["real"] = ext.record["real"]
      /\ ext'.handovers >= ext.handovers
  BY EffectOnRecord
<1>3. ext \in ExtType /\ ext' \in ExtType /\ Run(w) \in RunType
  BY DEF DriverInv, TypeOK, WorkerType, Run
<1>4. /\ ext.record["real"] \in {"absent", "READY"}
      /\ request = "DELETE" => ext.record["real"] = "absent"
      /\ me[w].pc = "delete" => request = "DELETE" /\ ~Run(w).st.finalized
  BY DEF AllDone
<1>5. /\ HasResource /\ Run(w).step \in PastConfigure => Run(w).st.configured
      /\ HasResource /\ Run(w).step = "CLOSE_TICKET" => Run(w).st.finalized
  BY <1>1 DEF MarkedAsDone
<1>6. HasResource' = HasResource
  BY DEF HasResource
<1>7. \A states : AllRecords(states)' <=> ext'.record["given"] \in states /\ ext'.record["real"] \in states
  <2>1. DOMAIN ext'.record = {"given", "real"}
    BY <1>3 DEF ExtType
  <2> QED BY <2>1 DEF AllRecords
<1>8. ASSUME Fails(w, m) \/ Waits(w, m) \/ GoesOn(w, m)
      PROVE  DoneAsMarked(m.run)' /\ MarkedAsDone(m.run)'
  <2>1. /\ Alike(m.run, Run(w)) /\ m.run.step = Run(w).step
        /\ m.run.st.closed = Run(w).st.closed
        /\ m.run.status \in {"RUNNING", "FAILED", "REJECTED"}
    BY <1>1, <1>8 DEF Alike, Fails, Waits, GoesOn, SameWork
  <2>2. m.run.status # "COMPLETED" /\ Run(w).status # "ABSENT" /\ Run(w).status \in Active
    BY <1>1, <2>1 DEF Active
  <2> QED BY <1>1, <1>2, <1>3, <2>1, <2>2, DoneKept, MarksKept
<1>9. CASE Plain(w, m)
  <2>1. CASE Fails(w, m) \/ Waits(w, m) \/ GoesOn(w, m)
    BY <1>8, <2>1
  <2>2. CASE Continues(w, m, Run(w)) /\ Passed(Run(w))
    <3>1. PICK run : run = Run(w)
      OBVIOUS
    <3>2. Alike(run, run)
      BY DEF Alike
    <3>3. DoneAsMarked(run)'
      BY <1>1, <1>2, <1>3, <3>1, <3>2, DoneKept
    <3>4. run.step # "CLOSE_TICKET"
      BY <1>1, <2>2, <3>1 DEF Passed
    <3> QED BY <1>1, <1>5, <2>2, <3>1, <3>3, <3>4, ContinuesDone
  <2> QED BY <1>9, <2>1, <2>2 DEF Plain
<1>10. CASE Configures(w, m)
  <2>1. Run(w).step = "CONFIGURE_RESOURCE" /\ ~Run(w).st.configured
    BY <1>10 DEF Configures
  <2>2. CASE Fails(w, m)
    BY <1>8, <2>2
  <2>3. CASE Continues(w, m, [Run(w) EXCEPT !.st.configured = TRUE])
    <3>1. PICK run : run = [Run(w) EXCEPT !.st.configured = TRUE]
      OBVIOUS
    <3>2. /\ run.step = Run(w).step /\ run.st.ticket = Run(w).st.ticket /\ run.st.configured
          /\ run.st.finalized = Run(w).st.finalized /\ run.st.vendor = Run(w).st.vendor
          /\ run.st.submitted = Run(w).st.submitted /\ run.st.closed = Run(w).st.closed
      BY <1>3, <3>1 DEF RunType, StateType
    <3>3. ~Run(w).st.finalized /\ Run(w).st.vendor # "real"
      BY <1>1, <2>1 DEF DoneAsMarked
    <3>4. Run(w).st.submitted => ext'.handovers >= 1
      <4>1. ext.handovers \in Nat /\ ext'.handovers \in Nat
        BY <1>3 DEF ExtType
      <4>2. Run(w).st.submitted => ext.handovers >= 1
        BY <1>1 DEF DoneAsMarked
      <4> QED BY <1>2, <4>1, <4>2
    <3>5. DoneAsMarked(run)'
      BY <3>2, <3>3, <3>4 DEF DoneAsMarked
    <3>6. Passed(run)
      BY <2>1, <3>2 DEF Passed
    <3>7. run.step # "CLOSE_TICKET" /\ Continues(w, m, run)
      BY <2>1, <2>3, <3>1, <3>2
    <3> QED BY <1>1, <3>2, <3>5, <3>6, <3>7, ContinuesDone
  <2> QED BY <1>10, <2>2, <2>3 DEF Configures
<1>11. CASE Finalizes(w, m)
  <2>1. Run(w).step = "FINALIZE_RESOURCE" /\ ~Run(w).st.finalized /\ request # "DELETE"
    BY <1>11 DEF Finalizes
  <2>2. CASE Fails(w, m)
    BY <1>8, <2>2
  <2>3. CASE ~Fails(w, m)
    <3>1. Run(w).st.vendor = "given"
      BY <1>1, <1>3, <2>1 DEF DoneAsMarked, RunType, StateType
    <3>2. PICK v \in {"given", "real"} :
             /\ Continues(w, m, [Run(w) EXCEPT !.st.finalized = TRUE, !.st.vendor = v])
             /\ ext'.record[v] = "READY" /\ ext'.record["given"] \in {"absent", "READY"}
      BY <1>11, <2>3, <3>1 DEF Finalizes
    <3>3. PICK run : run = [Run(w) EXCEPT !.st.finalized = TRUE, !.st.vendor = v]
      OBVIOUS
    <3>4. /\ run.step = Run(w).step /\ run.st.ticket = Run(w).st.ticket /\ run.st.finalized
          /\ run.st.configured = Run(w).st.configured /\ run.st.vendor = v
          /\ run.st.submitted = Run(w).st.submitted /\ run.st.closed = Run(w).st.closed
      BY <1>3, <3>3 DEF RunType, StateType
    <3>5. HasResource /\ run.st.configured
      BY <1>1, <1>5, <2>1, <3>4 DEF PastConfigure, AfterApproval
    <3>6. Run(w).st.submitted => ext'.handovers >= 1
      <4>1. ext.handovers \in Nat /\ ext'.handovers \in Nat
        BY <1>3 DEF ExtType
      <4>2. Run(w).st.submitted => ext.handovers >= 1
        BY <1>1 DEF DoneAsMarked
      <4> QED BY <1>2, <4>1, <4>2
    <3>7. AllRecords({"absent", "READY"})'
      BY <1>2, <1>4, <1>7, <3>2
    <3>8. DoneAsMarked(run)'
      BY <1>6, <2>1, <3>2, <3>4, <3>5, <3>6, <3>7 DEF DoneAsMarked
    <3>9. Passed(run)
      BY <2>1, <3>4 DEF Passed
    <3>10. run.step # "CLOSE_TICKET" /\ Continues(w, m, run)
      BY <2>1, <3>2, <3>3, <3>4
    <3> QED BY <1>1, <3>4, <3>5, <3>8, <3>9, <3>10, ContinuesDone
  <2> QED BY <2>2, <2>3
<1>12. CASE MarksDeleted(w, m)
  BY <1>8, <1>12 DEF MarksDeleted
<1>13. CASE Deletes(w, m)
  <2>1. /\ Run(w).step = "FINALIZE_RESOURCE" /\ request = "DELETE" /\ ~Run(w).st.finalized
    BY <1>4, <1>13 DEF Deletes
  <2>2. CASE Fails(w, m)
    BY <1>8, <2>2
  <2>3. CASE ~Fails(w, m)
    <3>1. Run(w).st.vendor = "given"
      BY <1>1, <1>3, <2>1 DEF DoneAsMarked, RunType, StateType
    <3>2. /\ Continues(w, m, [Run(w) EXCEPT !.st.finalized = TRUE])
          /\ ext'.record = [ext.record EXCEPT !["given"] = "absent"]
      BY <1>13, <2>3, <3>1 DEF Deletes
    <3>3. PICK run : run = [Run(w) EXCEPT !.st.finalized = TRUE]
      OBVIOUS
    <3>4. /\ run.step = Run(w).step /\ run.st.ticket = Run(w).st.ticket /\ run.st.finalized
          /\ run.st.configured = Run(w).st.configured /\ run.st.vendor = Run(w).st.vendor
          /\ run.st.submitted = Run(w).st.submitted /\ run.st.closed = Run(w).st.closed
      BY <1>3, <3>3 DEF RunType, StateType
    <3>5. HasResource /\ run.st.configured
      BY <1>1, <1>5, <2>1, <3>4 DEF PastConfigure, AfterApproval
    <3>6. Run(w).st.submitted => ext'.handovers >= 1
      <4>1. ext.handovers \in Nat /\ ext'.handovers \in Nat
        BY <1>3 DEF ExtType
      <4>2. Run(w).st.submitted => ext.handovers >= 1
        BY <1>1 DEF DoneAsMarked
      <4> QED BY <1>2, <4>1, <4>2
    <3>7. AllRecords({"absent"})'
      <4>1. ext'.record["given"] = "absent"
        BY <1>3, <3>2 DEF ExtType
      <4> QED BY <1>2, <1>4, <1>7, <2>1, <4>1
    <3>8. DoneAsMarked(run)'
      BY <1>6, <2>1, <3>4, <3>5, <3>6, <3>7 DEF DoneAsMarked
    <3>9. Passed(run)
      BY <2>1, <3>4 DEF Passed
    <3>10. run.step # "CLOSE_TICKET" /\ Continues(w, m, run)
      BY <2>1, <3>2, <3>3, <3>4
    <3> QED BY <1>1, <3>4, <3>5, <3>8, <3>9, <3>10, ContinuesDone
  <2> QED BY <2>2, <2>3
<1>14. CASE Closes(w, m)
  <2>1. Run(w).step = "CLOSE_TICKET"
    BY <1>14 DEF Closes
  <2>2. CASE Fails(w, m)
    BY <1>8, <2>2
  <2>3. CASE ~Fails(w, m)
    <3>1. /\ Continues(w, m, [Run(w) EXCEPT !.st.closed = TRUE])
          /\ ext'.ticket = [ext.ticket EXCEPT ![Run(w).st.ticket] = "closed"]
      BY <1>14, <2>3 DEF Closes
    <3>2. PICK run : run = [Run(w) EXCEPT !.st.closed = TRUE]
      OBVIOUS
    <3>3. Alike(run, Run(w)) /\ run.step = Run(w).step /\ run.st.closed
      BY <1>3, <3>2 DEF RunType, StateType, Alike
    <3>4. DoneAsMarked(run)'
      BY <1>1, <1>2, <1>3, <3>3, DoneKept
    <3>5. /\ run.st.ticket = Run(w).st.ticket /\ run.st.ticket # 0
          /\ run.st.finalized = Run(w).st.finalized /\ run.st.configured = Run(w).st.configured
      BY <1>1, <2>1, <3>3 DEF Alike
    <3>6. ext'.ticket[run.st.ticket] = "closed"
      <4>1. run.st.ticket \in TicketIds
        BY <1>3, <3>5 DEF RunType, StateType
      <4>2. ext.ticket \in [TicketIds -> {"none", "open", "closed", "unsuccessful"}]
        BY <1>3 DEF ExtType
      <4> QED BY <3>1, <3>5, <4>1, <4>2
    <3>7. Passed(run)
      BY <2>1, <3>3 DEF Passed
    <3>8. Continues(w, m, run)
      BY <3>1, <3>2
    <3> QED BY <1>1, <1>5, <2>1, <3>3, <3>4, <3>5, <3>6, <3>7, <3>8, ContinuesDone
  <2> QED BY <2>2, <2>3
<1>15. CASE Submits(w, m)
  <2>1. Run(w).step = "SUBMIT_LEGACY"
    BY <1>15 DEF Submits
  <2>2. CASE Fails(w, m)
    BY <1>8, <2>2
  <2>3. CASE ~Fails(w, m)
    <3>1. Continues(w, m, [Run(w) EXCEPT !.st.submitted = TRUE]) /\ ext'.handovers >= 1
      BY <1>15, <2>3 DEF Submits
    <3>2. PICK run : run = [Run(w) EXCEPT !.st.submitted = TRUE]
      OBVIOUS
    <3>3. /\ run.step = Run(w).step /\ run.st.ticket = Run(w).st.ticket /\ run.st.submitted
          /\ run.st.configured = Run(w).st.configured /\ run.st.finalized = Run(w).st.finalized
          /\ run.st.vendor = Run(w).st.vendor /\ run.st.closed = Run(w).st.closed
      BY <1>3, <3>2 DEF RunType, StateType
    <3>4. request = "LEGACY"
      BY <1>1, <2>1, AutomationPlan, ResourcePlan DEF Steps
    <3>5. ~HasResource
      BY <3>4 DEF HasResource
    <3>6. ~Run(w).st.finalized /\ Run(w).st.vendor # "real"
      BY <1>1, <3>5 DEF DoneAsMarked
    <3>7. DoneAsMarked(run)'
      BY <3>1, <3>3, <3>6 DEF DoneAsMarked
    <3>8. Passed(run)
      BY <2>1, <3>3 DEF Passed
    <3>9. run.step # "CLOSE_TICKET" /\ Continues(w, m, run)
      BY <2>1, <3>1, <3>2, <3>3
    <3> QED BY <1>1, <3>3, <3>4, <3>5, <3>7, <3>8, <3>9, ContinuesDone
  <2> QED BY <2>2, <2>3
<1> QED BY <1>9, <1>10, <1>11, <1>12, <1>13, <1>14, <1>15 DEF Effect

\* A step does to the world what the markers of its copy say.
LEMMA ExecuteDone ==
    ASSUME DriverInv, DriverInv', Exclusive, AllDone, NEW w \in Workers, ExecuteStep(w)
    PROVE  AllDone'
<1>1. PICK m : me' = [me EXCEPT ![w] = m] /\ Effect(w, m)
  BY ExecuteEffects DEF Affects
<1>2. /\ row' = row /\ request' = request /\ me[w].pc \in Driving /\ ~me[w].quiet
      /\ me \in [Workers -> WorkerType]
  BY ExecuteStepSound, ExecuteLeaves, DrivingFacts DEF SoundStep, others, DriverInv, TypeOK
<1>3. ~m.quiet
  <2>1. PICK n : me' = [me EXCEPT ![w] = n] /\ Outcome(w, n)
    BY ExecuteLeaves DEF Leaves
  <2>2. m = n
    BY <1>1, <1>2, <2>1
  <2> QED BY <1>2, <2>1, <2>2 DEF Outcome
<1>4. /\ Run(w).st.finalized => ext'.record = ext.record
      /\ ext'.record["real"] \in {ext.record["real"], "READY"}
      /\ request = "DELETE" => ext'.record["real"] = ext.record["real"]
      /\ ext'.handovers >= ext.handovers
  BY <1>1, <1>2, EffectOnRecord
<1>5. /\ row.status \in Active /\ (row.st.finalized => Run(w).st.finalized) /\ request # "none"
  BY <1>2, ExecutorKnows
<1>6. /\ ext.record["real"] \in {"absent", "READY"} /\ DoneAsMarked(row) /\ MarkedAsDone(row)
      /\ request = "DELETE" => ext.record["real"] = "absent"
  BY DEF AllDone
<1>7. DoneAsMarked(row)' /\ MarkedAsDone(row)'
  <2>1. PICK r : r = row
    OBVIOUS
  <2>2. Alike(r, r) /\ r.status # "COMPLETED" /\ ext \in ExtType /\ ext' \in ExtType
    BY <1>5, <2>1 DEF Alike, Active, DriverInv, TypeOK
  <2>3. DoneAsMarked(r)' /\ MarkedAsDone(r)'
    BY <1>2, <1>4, <1>5, <1>6, <2>1, <2>2, DoneKept, MarksKept
  <2> QED BY <1>2, <2>1, <2>3 DEF DoneAsMarked, MarkedAsDone
<1>8. DoneAsMarked(m.run)' /\ MarkedAsDone(m.run)'
  BY <1>1, <1>2, EffectDone
<1>9. m.pc = "delete" => request = "DELETE" /\ ~m.run.st.finalized
  BY <1>1 DEF Effect, Plain, Configures, Finalizes, MarksDeleted, Deletes, Closes, Submits,
              Continues, Fails, Waits, GoesOn
<1> QED BY <1>1, <1>2, <1>3, <1>4, <1>5, <1>6, <1>7, <1>8, <1>9, DoneFrame

\* The invariant survives every step,
LEMMA DoneStep ==
    ASSUME DriverInv, DriverInv', Exclusive, AllDone, [Next]_vars
    PROVE  AllDone'
<1>1. ext \in ExtType /\ ext' \in ExtType
  BY DEF DriverInv, TypeOK
<1>2. CASE Passes
  <2>1. /\ request' = request /\ me' = me /\ SameRow /\ ext'.record = ext.record
        /\ ext'.ticket = ext.ticket /\ ext'.handovers = ext.handovers
    BY <1>2 DEF Passes
  <2>2. ext'.handovers >= ext.handovers
    <3>1. ext.handovers \in Nat
      BY <1>1 DEF ExtType
    <3> QED BY <2>1, <3>1
  <2>3. ASSUME NEW a, NEW b, a.st = b.st, a.step = b.step, a.status = b.status,
               DoneAsMarked(b), MarkedAsDone(b)
        PROVE  DoneAsMarked(a)' /\ MarkedAsDone(a)'
    <3>1. Alike(a, b)
      BY <2>3 DEF Alike
    <3> QED BY <1>1, <2>1, <2>2, <2>3, <3>1, DoneKept, MarksKept
  <2>4. DoneAsMarked(row)' /\ MarkedAsDone(row)'
    <3>1. PICK r : r = row'
      OBVIOUS
    <3>2. r.st = row.st /\ r.step = row.step /\ r.status = row.status
      BY <2>1, <3>1 DEF SameRow
    <3>3. DoneAsMarked(r)' /\ MarkedAsDone(r)'
      BY <2>3, <3>2 DEF AllDone
    <3> QED BY <3>1, <3>3 DEF DoneAsMarked, MarkedAsDone
  <2>5. ASSUME NEW v \in Workers PROVE DoneAsMarked(me[v].run)' /\ MarkedAsDone(me[v].run)'
    <3>1. PICK r : r = me[v].run
      OBVIOUS
    <3>2. DoneAsMarked(r) /\ MarkedAsDone(r)
      BY <3>1 DEF AllDone, Copies, Run
    <3>3. DoneAsMarked(r)' /\ MarkedAsDone(r)'
      BY <2>3, <3>2
    <3> QED BY <2>1, <3>1, <3>3 DEF DoneAsMarked, MarkedAsDone
  <2> QED BY <2>1, <2>4, <2>5 DEF AllDone, Copies, Run, SameRow
<1>3. CASE Begins
  <2>1. \A w \in Workers : me'[w] = Idle
    BY <1>3 DEF Begins, DriverInv, RowSound
  <2>2. Idle.run = Blank /\ Idle.pc = "idle" /\ ~Idle.quiet
    BY DEF Idle
  <2>3. ASSUME NEW v \in Workers PROVE DoneAsMarked(me[v].run)' /\ MarkedAsDone(me[v].run)'
    <3>1. me'[v].run = Blank
      BY <2>1, <2>2
    <3> QED BY <3>1, BlankDone DEF DoneAsMarked, MarkedAsDone
  <2>4. /\ row'.st.vendor = "given" /\ ~row'.st.finalized /\ ~row'.st.submitted
        /\ ~row'.st.closed /\ (request' = "AUTOMATION" => row'.st.ticket # 0)
        /\ row'.step = "none" /\ row'.status = "PENDING"
    BY <1>3 DEF Begins, NewState
  <2>5. DoneAsMarked(row)' /\ MarkedAsDone(row)'
    BY <2>4 DEF DoneAsMarked, MarkedAsDone, PastConfigure, AfterApproval
  <2>6. ext'.record["real"] = "absent"
    BY <1>3 DEF Begins, AllDone
  <2> QED BY <2>1, <2>2, <2>3, <2>5, <2>6 DEF AllDone, Copies, Run
<1> QED BY <1>2, <1>3, NextForms, KeepingDone, ExecuteDone, EscalateDone

\* and holds of a run that was not triggered yet.
LEMMA DoneInit == Init => AllDone
<1> SUFFICES ASSUME Init PROVE AllDone
  OBVIOUS
<1>1. /\ row = Blank /\ \A w \in Workers : me[w] = Idle
      /\ ext.record = [given |-> "absent", real |-> "absent"]
  BY DEF Init
<1>2. DoneAsMarked(Blank) /\ MarkedAsDone(Blank)
  BY DEF DoneAsMarked, MarkedAsDone, Blank, NewState, PastConfigure, AfterApproval, Active
<1>3. Idle.run = Blank /\ Idle.pc = "idle" /\ ~Idle.quiet
  BY DEF Idle
<1> QED BY <1>1, <1>2, <1>3 DEF AllDone, Copies, Run

\* While leases cover the drives and no callback cuts in, a COMPLETED run has done
\* all it was asked to, however often workers died, saves failed and answers were
\* lost on the way: what the markers of RunState say was done was done to the
\* record and the ticket, and no other drive or escalation undoes it.
THEOREM CompletedRunsAreDone ==
    ASSUME LeaseCovers, MaxWakes = 0
    PROVE  Spec => []CompletedMeansDone
<1>1. Sole => Exclusive
  BY DEF Sole, Unwoken
<1>2. DriverInv /\ DriverInv' /\ Sole /\ AllDone /\ [Next]_vars => AllDone'
  BY <1>1, DoneStep
<1>3. DriverInv /\ AllDone => CompletedMeansDone
  <2> SUFFICES ASSUME DriverInv, AllDone, row.status = "COMPLETED" PROVE CompletedMeansDone
    BY DEF CompletedMeansDone
  <2>1. DoneAsMarked(row) /\ MarkedAsDone(row)
    BY DEF AllDone
  <2> QED BY <2>1 DEF DoneAsMarked, MarkedAsDone, CompletedMeansDone, HasResource
<1> QED BY <1>2, <1>3, DoneInit, DriverInvariant, DrivesAreSole, PTL DEF Spec

-----------------------------------------------------------------------------
(* Who is told of a failure. *)

\* Incidents stay, and so do tickets that were closed as unsuccessful.
StillTold ==
    /\ ext'.incidents >= ext.incidents
    /\ \A t \in TicketIds : ext.ticket[t] = "unsuccessful" => ext'.ticket[t] = "unsuccessful"

\* Who was told stays told.
LEMMA ToldKept ==
    ASSUME ext \in ExtType, ext' \in ExtType, StillTold,
           NEW a, NEW b \in RunType, a.st.ticket = b.st.ticket, Told(b)
    PROVE  Told(a)'
<1>1. b.st.ticket \in {0} \cup TicketIds /\ ext.incidents \in Nat /\ ext'.incidents \in Nat
  BY DEF RunType, StateType, ExtType
<1>2. CASE ext.incidents > 0
  <2>1. ext'.incidents > 0
    BY <1>1, <1>2 DEF StillTold
  <2> QED BY <2>1 DEF Told
<1>3. CASE b.st.ticket # 0 /\ ext.ticket[b.st.ticket] = "unsuccessful"
  <2>1. ext'.ticket[b.st.ticket] = "unsuccessful"
    BY <1>1, <1>3 DEF StillTold
  <2> QED BY <1>3, <2>1 DEF Told
<1> QED BY <1>2, <1>3 DEF Told

\* One worker at a time changes what the invariant is about.
LEMMA ToldFrame ==
    ASSUME DriverInv, Exclusive, NEW w \in Workers, Keeping(w) \/ ExecuteStep(w) \/ Escalate(w),
           NEW m, me' = [me EXCEPT ![w] = m],
           row'.status = "FAILED" => Told(row)',
           m.run.status = "FAILED" /\ m.pc # "incident" =>
               Told(m.run)' \/ (m.pc = "closing" /\ m.run.st.ticket # 0)
    PROVE  FailuresTold'
<1>1. me'[w] = m /\ \A v \in Workers \ {w} : me'[v] = Idle
  BY OneMoves
<1>2. Idle.run.status # "FAILED"
  BY DEF Idle, Blank
<1>3. ASSUME NEW v \in Workers, me'[v].run.status = "FAILED", me'[v].pc # "incident"
      PROVE  Told(me[v].run)' \/ (me'[v].pc = "closing" /\ me'[v].run.st.ticket # 0)
  <2>1. v = w /\ me'[v] = m
    BY <1>1, <1>2, <1>3
  <2> QED BY <1>3, <2>1 DEF Told
<1> QED BY <1>3 DEF FailuresTold, Run

\* Claiming, loading, saving and dying.
LEMMA KeepingTold ==
    ASSUME DriverInv, DriverInv', Exclusive, FailuresTold, NEW w \in Workers, Keeping(w)
    PROVE  FailuresTold'
<1>1. UNCHANGED ext /\ (SameRow \/ TakenFrom(w))
  BY KeepingForm
<1>2. PICK m : /\ me' = [me EXCEPT ![w] = m]
               /\ Rests(m) \/ Resumes(w, m) \/ FailsToSave(w, m)
  BY KeepingForm
<1>3. ext \in ExtType /\ ext' \in ExtType /\ row \in RunType /\ Run(w) \in RunType /\ StillTold
  <2>1. /\ ext \in ExtType /\ ext.incidents \in Nat /\ row \in RunType /\ Run(w) \in RunType
        /\ ext' \in ExtType
    BY DEF DriverInv, TypeOK, ExtType, WorkerType, Run
  <2> QED BY <1>1, <2>1 DEF StillTold
<1>4. row.status = "FAILED" => Told(row)
  BY DEF FailuresTold
<1>5. me[w].pc = "save" /\ Run(w).status = "FAILED" => Told(Run(w))
  BY DEF FailuresTold
<1>6. ASSUME row'.status = "FAILED" PROVE Told(row)'
  <2>1. PICK r : r = row'
    OBVIOUS
  <2>2. \E b \in {row, Run(w)} : r.st = b.st /\ Told(b)
    BY <1>1, <1>4, <1>5, <1>6, <2>1 DEF SameRow, TakenFrom
  <2>3. Told(r)'
    BY <1>3, <2>2, ToldKept
  <2> QED BY <2>1, <2>3 DEF Told
<1>7. ASSUME m.run.status = "FAILED", m.pc # "incident" PROVE Told(m.run)'
  <2>1. Blank.status # "FAILED"
    BY DEF Blank
  <2>2. m.run.st = Run(w).st /\ Told(Run(w))
    BY <1>2, <1>5, <1>7, <2>1 DEF Rests, Resumes, FailsToSave
  <2> QED BY <1>3, <2>2, ToldKept
<1> QED BY <1>2, <1>6, <1>7, ToldFrame

\* A step that fails the run leaves the telling to escalate(), with a ticket to
\* close where no incident is opened.
LEMMA ExecuteTold ==
    ASSUME DriverInv, DriverInv', Exclusive, AllDone, FailuresTold,
           NEW w \in Workers, ExecuteStep(w)
    PROVE  FailuresTold'
<1>1. PICK m : me' = [me EXCEPT ![w] = m] /\ Effect(w, m)
  BY ExecuteEffects DEF Affects
<1>2. row' = row /\ me[w].pc \in Driving
  BY ExecuteStepSound, ExecuteLeaves DEF SoundStep, others
<1>3. /\ row.status \in Active /\ MarkedAsDone(Run(w)) /\ Run(w).status = "RUNNING"
      /\ Run(w).step \in PlanSteps /\ request \in Kinds
      /\ request = "AUTOMATION" => Run(w).st.ticket # 0
  BY <1>2, ExecutorKnows
<1>4. row'.status # "FAILED"
  BY <1>2, <1>3 DEF Active
<1>5. ASSUME m.run.status = "FAILED", m.pc # "incident"
      PROVE  m.pc = "closing" /\ m.run.st.ticket # 0
  <2>1. Fails(w, m)
    BY <1>1, <1>3, <1>5 DEF Effect, Plain, Configures, Finalizes, MarksDeleted, Deletes, Closes,
                            Submits, Continues, Waits, GoesOn
  <2>2. /\ m.pc = "closing" /\ Run(w).step \in {"VALIDATE_RESOURCE", "RUN_ENGINE"}
        /\ m.run.st.ticket = Run(w).st.ticket
    BY <1>5, <2>1 DEF Fails
  <2>3. request # "LEGACY"
    BY <1>3, <2>2, LegacyPlan
  <2>4. HasResource => Run(w).st.ticket # 0
    BY <1>2, <2>2 DEF DriverInv, WorkerSound, Busy, RunSound, Run
  <2> QED BY <1>3, <2>2, <2>3, <2>4 DEF HasResource, Kinds
<1> QED BY <1>1, <1>4, <1>5, ToldFrame

\* An escalation tells the group on call, or else the requester.
LEMMA EscalateTold ==
    ASSUME DriverInv, DriverInv', Exclusive, FailuresTold, "ticket" \notin Faulty,
           NEW w \in Workers, Escalate(w)
    PROVE  FailuresTold'
<1>1. PICK m : me' = [me EXCEPT ![w] = m] /\ Escalates(w, m) /\ EscalationCall(w, m)
  BY EscalateEffects
<1>2. row' = row
  BY EscalateSound DEF SoundStep, others
<1>3. ext \in ExtType /\ ext' \in ExtType /\ row \in RunType /\ Run(w) \in RunType
  BY DEF DriverInv, TypeOK, WorkerType, Run
<1>4. PICK t \in {0} \cup TicketIds : t = Run(w).st.ticket /\ t = m.run.st.ticket
  BY <1>1, <1>3 DEF Escalates, RunType, StateType
<1>5. \/ ext'.ticket = ext.ticket
      \/ ext'.ticket = [ext.ticket EXCEPT ![t] = "unsuccessful"]
  BY <1>1, <1>4 DEF EscalationCall, Pages, Documents, Tells, Releases
<1>6. StillTold
  <2>1. DOMAIN ext.ticket = TicketIds
    BY <1>3 DEF ExtType
  <2>2. ext'.incidents >= ext.incidents
    BY <1>1 DEF Escalates
  <2> QED BY <1>5, <2>1, <2>2 DEF StillTold
<1>7. ASSUME row'.status = "FAILED" PROVE Told(row)'
  <2>1. PICK r : r = row
    OBVIOUS
  <2>2. Told(r)'
    BY <1>2, <1>3, <1>6, <1>7, <2>1, ToldKept DEF FailuresTold
  <2> QED BY <1>2, <2>1, <2>2 DEF Told
<1>8. ASSUME m.run.status = "FAILED", m.pc # "incident"
      PROVE  Told(m.run)' \/ (m.pc = "closing" /\ m.run.st.ticket # 0)
  <2>1. me[w].pc # "incident" => Told(Run(w)) \/ (me[w].pc = "closing" /\ t # 0)
    BY <1>1, <1>4, <1>8 DEF Escalates, FailuresTold
  <2>2. Told(Run(w)) => Told(m.run)'
    BY <1>3, <1>4, <1>6, ToldKept
  <2>3. CASE Pages(w, m)
    BY <2>3 DEF Pages, Told
  <2>4. CASE Documents(w, m)
    BY <2>1, <2>2, <2>4 DEF Documents
  <2>5. CASE Tells(w, m)
    <3>1. CASE t # 0
      <4>1. ext'.ticket = [ext.ticket EXCEPT ![t] = "unsuccessful"]
        BY <1>4, <2>5, <3>1 DEF Tells
      <4>2. ext'.ticket[t] = "unsuccessful"
        BY <1>3, <1>4, <3>1, <4>1 DEF ExtType
      <4> QED BY <1>4, <3>1, <4>2 DEF Told
    <3>2. CASE t = 0
      BY <2>1, <2>2, <2>5, <3>2 DEF Tells
    <3> QED BY <3>1, <3>2
  <2>6. CASE Releases(w, m)
    BY <2>1, <2>2, <2>6 DEF Releases
  <2> QED BY <1>1, <2>3, <2>4, <2>5, <2>6 DEF EscalationCall
<1> QED BY <1>1, <1>7, <1>8, ToldFrame

\* The invariant survives every step,
LEMMA ToldStep ==
    ASSUME DriverInv, DriverInv', Exclusive, AllDone, FailuresTold, "ticket" \notin Faulty,
           [Next]_vars
    PROVE  FailuresTold'
<1>1. ext \in ExtType /\ ext' \in ExtType /\ row \in RunType /\ me \in [Workers -> WorkerType]
  BY DEF DriverInv, TypeOK
<1>2. CASE Passes
  <2>1. StillTold
    <3>1. ext.incidents \in Nat
      BY <1>1 DEF ExtType
    <3> QED BY <1>2, <3>1 DEF Passes, StillTold
  <2>2. row'.st = row.st /\ row'.status = row.status /\ me' = me
    BY <1>2 DEF Passes, SameRow
  <2>3. ASSUME row'.status = "FAILED" PROVE Told(row)'
    <3>1. PICK r : r = row'
      OBVIOUS
    <3>2. Told(row) /\ r.st = row.st
      BY <2>2, <2>3, <3>1 DEF FailuresTold
    <3>3. Told(r)'
      BY <1>1, <2>1, <3>2, ToldKept
    <3> QED BY <3>1, <3>3 DEF Told
  <2>4. ASSUME NEW v \in Workers, me'[v].run.status = "FAILED", me'[v].pc # "incident"
        PROVE  Told(me[v].run)' \/ (me'[v].pc = "closing" /\ me'[v].run.st.ticket # 0)
    <3>1. PICK r \in RunType : r = me[v].run
      BY <1>1 DEF WorkerType
    <3>2. Told(r) \/ (me[v].pc = "closing" /\ r.st.ticket # 0)
      BY <2>2, <2>4, <3>1 DEF FailuresTold, Run
    <3>3. Told(r) => Told(r)'
      BY <1>1, <2>1, ToldKept
    <3> QED BY <2>2, <3>1, <3>2, <3>3 DEF Told
  <2> QED BY <2>3, <2>4 DEF FailuresTold, Run
<1>3. CASE Begins
  <2>1. \A w \in Workers : me'[w] = Idle
    BY <1>3 DEF Begins, DriverInv, RowSound
  <2>2. Idle.run.status # "FAILED" /\ row'.status # "FAILED"
    BY <1>3 DEF Idle, Blank, Begins
  <2> QED BY <2>1, <2>2 DEF FailuresTold, Run
<1> QED BY <1>2, <1>3, NextForms, KeepingTold, ExecuteTold, EscalateTold

\* While the ticket system answers, leases cover the drives and no callback cuts
\* in, nobody is left in the dark about a run that failed: the group on call has
\* an incident, or the requester's ticket was closed as unsuccessful, whichever
\* step failed, whatever the engine reported, and however often escalate() was
\* cut short by a crash or repeated by _crash.
THEOREM FailuresAreTold ==
    ASSUME LeaseCovers, MaxWakes = 0, "ticket" \notin Faulty
    PROVE  Spec => []FailureIsTold
<1>1. Sole => Exclusive
  BY DEF Sole, Unwoken
<1>2. DriverInv /\ DriverInv' /\ Sole /\ AllDone /\ [Next]_vars => AllDone'
  BY <1>1, DoneStep
<1>3. DriverInv /\ DriverInv' /\ Sole /\ AllDone /\ FailuresTold /\ [Next]_vars => FailuresTold'
  BY <1>1, ToldStep
<1>4. Init => FailuresTold
  <2>1. Init => row.status # "FAILED" /\ \A w \in Workers : Run(w).status # "FAILED"
    BY DEF Init, Blank, Idle, Run
  <2> QED BY <2>1 DEF FailuresTold
<1>5. FailuresTold => FailureIsTold
  BY DEF FailuresTold, FailureIsTold, Told
<1> QED BY <1>2, <1>3, <1>4, <1>5, DoneInit, DriverInvariant, DrivesAreSole, PTL DEF Spec

-----------------------------------------------------------------------------
(* Which steps can be overdue, however drives overlap. *)

\* One step moves one worker.
LEMMA ClocksFrame ==
    ASSUME DriverInv, ClocksRun, NEW w \in Workers, NEW m, me' = [me EXCEPT ![w] = m],
           overdue' => row'.st.clock > 0, Timed(row'), Timed(m.run),
           m.pc = "overdue" => m.run.st.clock > 0
    PROVE  ClocksRun'
<1>1. me \in [Workers -> WorkerType]
  BY DEF DriverInv, TypeOK
<1>2. ASSUME NEW v \in Workers
      PROVE  Timed(me'[v].run) /\ (me'[v].pc = "overdue" => me'[v].run.st.clock > 0)
  <2>1. me'[v] = m \/ me'[v] = me[v]
    BY <1>1
  <2>2. Timed(me[v].run) /\ (me[v].pc = "overdue" => me[v].run.st.clock > 0)
    BY DEF ClocksRun, Copies, Run
  <2> QED BY <2>1, <2>2
<1> QED BY <1>2 DEF ClocksRun, Copies, Run, Timed

\* The invariant survives every step,
LEMMA ClocksStep ==
    ASSUME DriverInv, DriverInv', ClocksRun, [Next]_vars
    PROVE  ClocksRun'
<1>1. me \in [Workers -> WorkerType] /\ row \in RunType
  BY DEF DriverInv, TypeOK
<1>2. Timed(row) /\ (overdue => row.st.clock > 0)
  BY DEF ClocksRun
<1>3. Timed(Blank) /\ Timed(Idle.run) /\ Idle.pc # "overdue"
  BY DEF Timed, Blank, Idle, Active
<1>4. CASE Passes
  <2>1. /\ me' = me /\ row'.st = row.st /\ row'.step = row.step /\ row'.status = row.status
        /\ overdue' = overdue \/ row.st.clock > 0
    BY <1>4 DEF Passes, SameRow
  <2>2. Timed(row') /\ (overdue' => row'.st.clock > 0)
    BY <1>2, <2>1 DEF Timed
  <2> QED BY <2>1, <2>2 DEF ClocksRun, Copies, Run, Timed
<1>5. CASE Begins
  <2>1. (\A w \in Workers : me'[w] = Idle) /\ row = Blank
    BY <1>5 DEF Begins, DriverInv, RowSound
  <2>2. ~(row.st.clock > 0)
    BY <2>1 DEF Blank, NewState
  <2>3. row'.st.clock = 0 /\ ~overdue'
    BY <1>2, <1>5, <2>2 DEF Begins, NewState
  <2>4. Timed(row')
    BY <2>3 DEF Timed
  <2> QED BY <1>3, <2>1, <2>3, <2>4 DEF ClocksRun, Copies, Run, Timed
<1>6. ASSUME NEW w \in Workers, Keeping(w) PROVE ClocksRun'
  <2>1. (SameRow /\ overdue' = overdue) \/ TakenFrom(w)
    BY <1>6, KeepingForm
  <2>2. PICK m : /\ me' = [me EXCEPT ![w] = m]
                 /\ Rests(m) \/ Resumes(w, m) \/ FailsToSave(w, m)
    BY <1>6, KeepingForm
  <2>3. Timed(Run(w))
    BY DEF ClocksRun, Copies
  <2>4. Timed(row') /\ (overdue' => row'.st.clock > 0)
    BY <1>2, <2>1, <2>3 DEF SameRow, TakenFrom, Timed
  <2>5. CASE Rests(m)
    BY <1>3, <2>2, <2>4, <2>5, ClocksFrame DEF Rests
  <2>6. CASE Resumes(w, m)
    <3>1. /\ m.run.st = row.st /\ row.status \in Active
          /\ row.step # "none" => m.run.step = row.step
          /\ m.pc = "overdue" => overdue \/ row.st.clock > 0
      BY <2>6 DEF Resumes
    <3>2. row.st.clock > 0 => row.step # "none" /\ row.step \in {"AWAIT_APPROVAL", "RUN_ENGINE"}
      BY <1>2, <3>1 DEF Timed
    <3>3. Timed(m.run) /\ (m.pc = "overdue" => m.run.st.clock > 0)
      BY <1>2, <3>1, <3>2 DEF Timed
    <3> QED BY <2>2, <2>4, <3>3, ClocksFrame
  <2>7. CASE FailsToSave(w, m)
    <3>1. Timed(m.run) /\ m.pc # "overdue"
      BY <2>7 DEF FailsToSave, Timed, Active
    <3> QED BY <2>2, <2>4, <3>1, ClocksFrame
  <2> QED BY <2>2, <2>5, <2>6, <2>7
<1>7. ASSUME NEW w \in Workers, ExecuteStep(w) PROVE ClocksRun'
  <2>1. PICK m : me' = [me EXCEPT ![w] = m] /\ Effect(w, m)
    BY <1>7, ExecuteEffects DEF Affects
  <2>2. row' = row /\ overdue' = overdue
    BY <1>7, ExecuteStepSound DEF SoundStep, others
  <2>3. Timed(Run(w))
    BY DEF ClocksRun, Copies
  <2>4. CASE \E run : Continues(w, m, run)
    <3>1. m.run.st.clock = 0 /\ m.pc # "overdue"
      BY <2>4 DEF Continues
    <3>2. Timed(m.run)
      BY <3>1 DEF Timed
    <3> QED BY <1>2, <2>1, <2>2, <3>1, <3>2, ClocksFrame
  <2>5. CASE Fails(w, m)
    <3>1. (m.run.st.clock = 0 \/ m.run.status = "FAILED") /\ m.pc # "overdue"
      BY <2>5 DEF Fails
    <3>2. Timed(m.run)
      BY <3>1 DEF Timed, Active
    <3> QED BY <1>2, <2>1, <2>2, <3>1, <3>2, ClocksFrame
  <2>6. CASE Waits(w, m)
    <3>1. (m.run.step \in {"AWAIT_APPROVAL", "RUN_ENGINE"}) /\ m.pc # "overdue"
      BY <2>6 DEF Waits
    <3>2. Timed(m.run)
      BY <3>1 DEF Timed
    <3> QED BY <1>2, <2>1, <2>2, <3>1, <3>2, ClocksFrame
  <2>7. CASE GoesOn(w, m)
    <3>1. m.run = Run(w) /\ m.pc # "overdue"
      BY <2>7 DEF GoesOn
    <3> QED BY <1>2, <2>1, <2>2, <2>3, <3>1, ClocksFrame
  <2> QED BY <2>1, <2>4, <2>5, <2>6, <2>7
          DEF Effect, Plain, Configures, Finalizes, MarksDeleted, Deletes, Closes, Submits
<1>8. ASSUME NEW w \in Workers, Escalate(w) PROVE ClocksRun'
  <2>1. PICK m : me' = [me EXCEPT ![w] = m] /\ Escalates(w, m) /\ EscalationCall(w, m)
    BY <1>8, EscalateEffects
  <2>2. row' = row /\ overdue' = overdue /\ me[w].pc \in Escalating
    BY <1>8, EscalateSound DEF SoundStep, others, Escalate, OpenIncident, LogDocumentationIncident,
         ResolveDocumentationIncident, CloseUnsuccessful, ReleaseResource, Escalating
  <2>3. Run(w).status \in {"FAILED", "REJECTED"}
    BY <2>2 DEF DriverInv, WorkerSound, PointSound, Run
  <2>4. Timed(m.run) /\ m.pc # "overdue"
    BY <2>1, <2>3 DEF Escalates, EscalationCall, Pages, Documents, Tells, Releases, Timed, Active
  <2> QED BY <1>2, <2>1, <2>2, <2>4, ClocksFrame
<1> QED BY <1>4, <1>5, <1>6, <1>7, <1>8, NextForms

\* and holds of a run that was not triggered yet.
LEMMA ClocksInit == Init => ClocksRun
<1> SUFFICES ASSUME Init PROVE ClocksRun
  OBVIOUS
<1>1. row = Blank /\ ~overdue /\ \A w \in Workers : me[w] = Idle
  BY DEF Init
<1>2. Timed(Blank) /\ Idle.run = Blank /\ Idle.pc # "overdue"
  BY DEF Timed, Blank, Idle, Active
<1> QED BY <1>1, <1>2 DEF ClocksRun, Copies, Run

-----------------------------------------------------------------------------
(* What is left in flight. *)

\* The resource manager answers; and the ticket system does too, unless workers
\* do not die and the database answers.
Steady ==
    /\ "resource" \notin Faulty
    /\ "ticket" \notin Faulty \/ (MaxCrashes = 0 /\ MaxDbFaults = 0)

\* One worker at a time changes what the invariant is about.
LEMMA HeldFrame ==
    ASSUME DriverInv, Exclusive, NEW w \in Workers, Keeping(w) \/ ExecuteStep(w) \/ Escalate(w),
           NEW m, me' = [me EXCEPT ![w] = m], m.quiet => dbFaults' > 0,
           ~GivenAtRest' => /\ HasResource' /\ row'.status \in Active
                            /\ m.pc \in Busy => Answers(m)
                            /\ m.pc \in Busy \/ row'.st.configured \/ "ticket" \notin Faulty
    PROVE  InFlightHeld'
<1>1. me'[w] = m /\ \A v \in Workers \ {w} : me'[v] = Idle
  BY OneMoves
<1>2. Idle.pc \notin Busy /\ ~Idle.quiet
  BY DEF Idle, Busy, Driving, Escalating
<1>3. ASSUME NEW v \in Workers
      PROVE  /\ me'[v].quiet => dbFaults' > 0
             /\ ~GivenAtRest' /\ me'[v].pc \in Busy => Answers(me'[v])
  BY <1>1, <1>2
<1>4. m.pc \in Busy => \E v \in Workers : me'[v].pc \in Busy
  BY <1>1
<1> QED BY <1>3, <1>4 DEF InFlightHeld, Answers

\* What is in flight is not finalized in any copy, and lies under the id the run
\* was given.
LEMMA InFlightIsOpen ==
    ASSUME ext \in ExtType, ~GivenAtRest, NEW run, DoneAsMarked(run)
    PROVE  ~run.st.finalized /\ run.st.vendor # "real"
<1>1. ~AllRecords({"absent", "READY"}) /\ ~AllRecords({"absent"})
  BY TwoRecords DEF GivenAtRest
<1> QED BY <1>1 DEF DoneAsMarked

\* Claiming, loading, saving and dying.
LEMMA KeepingHeld ==
    ASSUME DriverInv, DriverInv', Exclusive, WithinBounds, WithinBounds', InFlightHeld, Steady,
           NEW w \in Workers, Keeping(w)
    PROVE  InFlightHeld'
<1>1. /\ UNCHANGED <<request, ext>> /\ (dbFaults' = dbFaults \/ dbFaults' > 0)
      /\ SameRow \/ TakenFrom(w)
  BY KeepingForm
<1>2. PICK m : /\ me' = [me EXCEPT ![w] = m]
               /\ Rests(m) \/ Resumes(w, m) \/ (FailsToSave(w, m) /\ dbFaults' > 0)
  BY KeepingForm
<1>3. m.quiet => dbFaults' > 0
  BY <1>2 DEF Rests, Resumes
<1>4. GivenAtRest' = GivenAtRest /\ HasResource' = HasResource
  BY <1>1 DEF GivenAtRest, HasResource
<1>5. ASSUME ~GivenAtRest
      PROVE  /\ HasResource /\ row'.status \in Active
             /\ m.pc \in Busy => Answers(m)
             /\ m.pc \in Busy \/ row'.st.configured \/ "ticket" \notin Faulty
  <2>1. /\ HasResource /\ row.status \in Active
        /\ me[w].pc \in Busy => Answers(me[w])
        /\ (\E v \in Workers : me[v].pc \in Busy) \/ row.st.configured \/ "ticket" \notin Faulty
    BY <1>5 DEF InFlightHeld
  <2>2. me[w].pc = "save" => Run(w).st.configured /\ Run(w).status \in Active
    BY <2>1 DEF Answers, Busy, Driving, Run
  <2>3. row'.status \in Active
    BY <1>1, <2>1, <2>2 DEF SameRow, TakenFrom
  <2>4. Rests(m) => m.pc \notin Busy
    BY DEF Rests, Busy, Driving, Escalating
  <2>5. FailsToSave(w, m) => Answers(m)
    <3>1. "FAILED" \notin Active
      BY DEF Active
    <3> QED BY <2>2, <3>1 DEF FailsToSave, Answers
  <2>6. Resumes(w, m) => m.pc \in Driving /\ m.pc \in Busy /\ m.pc # "save" /\ m.run.st = row.st
    BY DEF Resumes, Busy, Driving
  <2>7. CASE "ticket" \notin Faulty
    BY <1>2, <2>1, <2>3, <2>4, <2>5, <2>6, <2>7 DEF Answers
  <2>8. CASE "ticket" \in Faulty
    <3>1. MaxCrashes = 0 /\ MaxDbFaults = 0 /\ crashes \in Nat /\ dbFaults \in Nat /\ dbFaults' \in Nat
      BY <2>8 DEF Steady, DriverInv, TypeOK
    <3>2. ~Crash(w) /\ ~SaveRaises(w) /\ ~(dbFaults' > 0) /\ ~(dbFaults > 0)
      BY <3>1 DEF Crash, SaveRaises, WithinBounds
    <3>3. CASE me[w].pc \in {"idle", "claimed"}
      <4>1. \A v \in Workers : me[v].pc \notin Busy
        <5>1. me[w].pc \notin Busy /\ Idle.pc \notin Busy
          BY <3>3 DEF Busy, Driving, Escalating, Idle
        <5>2. \A v \in Workers \ {w} : me[v] = Idle
          BY <1>2, OneMoves
        <5> QED BY <5>1, <5>2
      <4>2. row.st.configured /\ row'.st.configured
        BY <1>1, <2>1, <2>8, <3>3, <4>1 DEF SameRow, TakenFrom
      <4> QED BY <1>2, <2>1, <2>3, <2>4, <2>6, <3>2, <4>2 DEF Answers
    <3>4. CASE Save(w)
      <4>1. me[w].pc = "save" /\ me[w].pc \in Busy /\ ~me[w].quiet
        BY <3>2, <3>4 DEF Save, Busy, InFlightHeld
      <4>2. Run(w).version = row.version /\ row.version \in Nat
        BY <4>1 DEF Exclusive, DriverInv, TypeOK, RunType
      <4>3. row' = [Run(w) EXCEPT !.version = @ + 1] /\ Run(w) \in RunType
        BY <3>4, <4>2 DEF Save, Write, VersionMatches, DriverInv, TypeOK, WorkerType, Run
      <4>4. row'.st = Run(w).st
        BY <4>3 DEF RunType
      <4>5. ~Resumes(w, m)
        BY <4>1 DEF Resumes
      <4> QED BY <1>2, <2>1, <2>2, <2>3, <2>4, <3>2, <4>1, <4>4, <4>5
    <3> QED BY <3>2, <3>3, <3>4 DEF Keeping, Claim, Load
  <2> QED BY <2>7, <2>8
<1> QED BY <1>2, <1>3, <1>4, <1>5, HeldFrame

\* An escalation releases the record before it lets go of it.
LEMMA EscalateHeld ==
    ASSUME DriverInv, DriverInv', Exclusive, AllDone, InFlightHeld, Steady,
           NEW w \in Workers, Escalate(w)
    PROVE  InFlightHeld'
<1>1. PICK m : me' = [me EXCEPT ![w] = m] /\ Escalates(w, m) /\ EscalationCall(w, m)
  BY EscalateEffects
<1>2. /\ row' = row /\ request' = request /\ dbFaults' = dbFaults /\ me[w].pc \in Escalating
      /\ me[w].pc \in Busy
  BY EscalateSound DEF SoundStep, others, Escalate, OpenIncident, LogDocumentationIncident,
       ResolveDocumentationIncident, CloseUnsuccessful, ReleaseResource, Escalating, Busy
<1>3. /\ ext \in ExtType /\ Run(w) \in RunType /\ DoneAsMarked(Run(w))
      /\ me[w].quiet => dbFaults > 0
  BY DEF DriverInv, TypeOK, WorkerType, Run, AllDone, Copies, InFlightHeld
<1>4. Run(w).st.vendor \in {"given", "real"} /\ DOMAIN ext.record = {"given", "real"}
  BY <1>3 DEF RunType, StateType, ExtType
<1>5. ASSUME ~GivenAtRest'
      PROVE  HasResource' /\ row'.status \in Active /\ m.pc \in Busy /\ Answers(m)
  <2>1. ~GivenAtRest
    <3>1. ASSUME NEW x \in {"absent", "READY"},
                 ext'.record = [ext.record EXCEPT ![Run(w).st.vendor] = x]
          PROVE  ext'.record["given"] \in {ext.record["given"], x}
      BY <1>4, <3>1
    <3> QED BY <1>1, <1>5, <3>1 DEF GivenAtRest, EscalationCall, Pages, Documents, Tells, Releases
  <2>2. HasResource /\ row.status \in Active /\ Answers(me[w])
    BY <1>2, <2>1 DEF InFlightHeld
  <2>3. Run(w).st.configured /\ m.run.st.configured
    BY <1>1, <1>2, <2>2 DEF Answers, Escalating, Driving, Escalates, Run
  <2>4. ~Run(w).st.finalized /\ Run(w).st.vendor = "given"
    BY <1>3, <1>4, <2>1, InFlightIsOpen
  <2>5. ~Releases(w, m)
    <3>1. ResourceInFlight(Run(w)) /\ "resource" \notin Faulty
      BY <2>2, <2>3, <2>4 DEF ResourceInFlight, Steady
    <3>2. ASSUME NEW x \in {"absent", "READY"},
                 ext'.record = [ext.record EXCEPT ![Run(w).st.vendor] = x]
          PROVE  FALSE
      BY <1>4, <1>5, <2>4, <3>2 DEF GivenAtRest
    <3> QED BY <3>1, <3>2 DEF Releases
  <2>6. m.pc # "save" /\ m.pc \in Busy
    BY <1>1, <2>5 DEF EscalationCall, Pages, Documents, Tells, Busy, Escalating
  <2>7. HasResource'
    BY <1>2, <2>2 DEF HasResource
  <2> QED BY <1>2, <2>2, <2>3, <2>6, <2>7 DEF Answers
<1>6. m.quiet => dbFaults' > 0
  BY <1>1, <1>2, <1>3 DEF Escalates
<1> QED BY <1>1, <1>5, <1>6, HeldFrame

\* The steps that can fail before the record is configured do not, while nothing
\* but the engine and the legacy runner fails.
LEMMA FirstStepsGoOn ==
    ASSUME DriverInv, ClocksRun, AllDone, "ticket" \notin Faulty, "resource" \notin Faulty,
           ~GivenAtRest, NEW w \in Workers, me[w].pc \in Driving, NEW m, Fails(w, m)
    PROVE  Run(w).step \notin {"CREATE_TICKET", "CONFIGURE_RESOURCE"}
<1> SUFFICES ASSUME Run(w).step \in {"CREATE_TICKET", "CONFIGURE_RESOURCE"} PROVE FALSE
  OBVIOUS
<1>1. Run(w).status \in Active /\ Timed(Run(w)) /\ DoneAsMarked(Run(w)) /\ ext \in ExtType
      /\ Run(w).st.vendor \in {"given", "real"}
  <2>1. Run(w) \in RunType /\ Run(w).status = "RUNNING" /\ ext \in ExtType
    BY DrivingFacts DEF DriverInv, TypeOK, WorkerType, Run, Ready
  <2>2. Timed(Run(w)) /\ DoneAsMarked(Run(w))
    BY DEF ClocksRun, AllDone, Copies
  <2>3. Run(w).st.vendor \in {"given", "real"}
    BY <2>1 DEF RunType, StateType
  <2> QED BY <2>1, <2>2, <2>3 DEF Active
<1>2. me[w].pc # "overdue"
  BY <1>1 DEF ClocksRun, Timed
<1>3. RecordOf(Run(w)) # "absent"
  <2>1. Run(w).st.vendor = "given"
    BY <1>1, InFlightIsOpen
  <2> QED BY <2>1 DEF RecordOf, GivenAtRest
<1>4. ~\E provider \in Faulty : MayRaise(Run(w).step, provider)
  BY DEF MayRaise
<1> QED BY <1>2, <1>3, <1>4 DEF Fails

\* A step that puts the record in flight marks it in its copy.
LEMMA ExecuteHeld ==
    ASSUME DriverInv, DriverInv', Exclusive, ClocksRun, AllDone, InFlightHeld, Steady,
           NEW w \in Workers, ExecuteStep(w)
    PROVE  InFlightHeld'
<1>1. PICK m : me' = [me EXCEPT ![w] = m] /\ Effect(w, m)
  BY ExecuteEffects DEF Affects
<1>2. /\ row' = row /\ request' = request /\ dbFaults' = dbFaults /\ me[w].pc \in Driving
      /\ me[w].pc \in Busy /\ ~me[w].quiet /\ me \in [Workers -> WorkerType]
  BY ExecuteStepSound, ExecuteLeaves, DrivingFacts
     DEF SoundStep, others, DriverInv, TypeOK, Busy
<1>3. ~m.quiet
  <2>1. PICK n : me' = [me EXCEPT ![w] = n] /\ Outcome(w, n)
    BY ExecuteLeaves DEF Leaves
  <2>2. m = n
    BY <1>1, <1>2, <2>1
  <2> QED BY <1>2, <2>1, <2>2 DEF Outcome
<1>4. /\ row.status \in Active /\ MarkedAsDone(Run(w)) /\ Run(w).status = "RUNNING"
      /\ Run(w).step \in PlanSteps /\ request \in Kinds
      /\ Run(w).step \in {"CONFIGURE_RESOURCE", "FINALIZE_RESOURCE"} => HasResource
  BY <1>2, ExecutorKnows
<1>5. DoneAsMarked(m.run)' /\ MarkedAsDone(m.run)' /\ ext' \in ExtType
  BY <1>1, <1>2, EffectDone DEF DriverInv, TypeOK
<1>6. ~GivenAtRest => HasResource /\ Answers(me[w])
  BY <1>2 DEF InFlightHeld
<1>7. HasResource' = HasResource
  BY <1>2 DEF HasResource
<1>8. ASSUME ~GivenAtRest'
      PROVE  HasResource /\ m.pc \in Busy /\ Answers(m)
  <2>1. ~m.run.st.finalized
    <3>1. ~AllRecords({"absent", "READY"})' /\ ~AllRecords({"absent"})'
      <4>1. DOMAIN ext'.record = {"given", "real"}
        BY <1>5 DEF ExtType
      <4> QED BY <1>8, <4>1 DEF AllRecords, GivenAtRest
    <3> QED BY <1>5, <3>1 DEF DoneAsMarked
  <2>2. ext'.record = ext.record => ~GivenAtRest
    BY <1>8 DEF GivenAtRest
  <2>3. HasResource
    <3>1. CASE ext'.record = ext.record
      BY <1>6, <2>2, <3>1
    <3>2. CASE ext'.record # ext.record
      BY <1>1, <1>4, <3>2 DEF Effect, Plain, Configures, Finalizes, MarksDeleted, Deletes, Closes,
                              Submits, Still
    <3> QED BY <3>1, <3>2
  <2>4. Run(w).step \in PastConfigure => Run(w).st.configured
    BY <1>4, <2>3 DEF MarkedAsDone
  <2>5. Run(w).step \in {"CREATE_TICKET", "CONFIGURE_RESOURCE"} \cup PastConfigure
    <3>1. PlanSteps = Steps \ {"SUBMIT_LEGACY"}
      BY <2>3, ResourcePlan DEF HasResource
    <3> QED BY <1>4, <3>1 DEF Steps, PastConfigure, AfterApproval
  <2>6. m.pc \in Busy
    BY <1>1 DEF Effect, Plain, Configures, Finalizes, MarksDeleted, Deletes, Closes, Submits,
                Continues, Fails, Waits, GoesOn, Busy, Driving, Escalating
  <2>7. m.pc = "save" => m.run.status \in Active
    <3>1. m.run.status # "COMPLETED"
      BY <1>5, <1>7, <2>1, <2>3 DEF MarkedAsDone
    <3> QED BY <1>1, <3>1 DEF Effect, Plain, Configures, Finalizes, MarksDeleted, Deletes, Closes,
                  Submits, Continues, Fails, Waits, GoesOn, Active
  <2>8. CASE m.run.st.configured
    BY <2>3, <2>6, <2>7, <2>8 DEF Answers
  <2>9. CASE ~m.run.st.configured
    <3>1. ASSUME NEW run, Continues(w, m, run) PROVE ~run.st.configured
      BY <2>9, <3>1 DEF Continues, SameWork
    <3>2. Fails(w, m) \/ Waits(w, m) \/ GoesOn(w, m) => ~Run(w).st.configured
      BY <2>9 DEF Fails, Waits, GoesOn, SameWork
    <3>3. Run(w).step \in {"CREATE_TICKET", "CONFIGURE_RESOURCE"}
      <4> SUFFICES ASSUME Run(w).step \in PastConfigure, Run(w).st.configured PROVE FALSE
        BY <2>4, <2>5
      <4>1. Run(w) \in RunType
        BY DEF DriverInv, TypeOK, WorkerType, Run
      <4>2. CASE Plain(w, m)
        BY <3>1, <3>2, <4>2 DEF Plain
      <4>3. CASE Configures(w, m)
        BY <4>3 DEF Configures
      <4>4. CASE Finalizes(w, m)
        <5>1. PICK v : Continues(w, m, [Run(w) EXCEPT !.st.finalized = TRUE, !.st.vendor = v])
          BY <3>2, <4>4 DEF Finalizes
        <5>2. [Run(w) EXCEPT !.st.finalized = TRUE, !.st.vendor = v].st.configured
          BY <4>1 DEF RunType, StateType
        <5> QED BY <3>1, <5>1, <5>2
      <4>5. CASE MarksDeleted(w, m)
        BY <3>2, <4>5 DEF MarksDeleted
      <4>6. CASE Deletes(w, m)
        <5>1. Continues(w, m, [Run(w) EXCEPT !.st.finalized = TRUE])
          BY <3>2, <4>6 DEF Deletes
        <5>2. [Run(w) EXCEPT !.st.finalized = TRUE].st.configured
          BY <4>1 DEF RunType, StateType
        <5> QED BY <3>1, <5>1, <5>2
      <4>7. CASE Closes(w, m)
        <5>1. Continues(w, m, [Run(w) EXCEPT !.st.closed = TRUE])
          BY <3>2, <4>7 DEF Closes
        <5>2. [Run(w) EXCEPT !.st.closed = TRUE].st.configured
          BY <4>1 DEF RunType, StateType
        <5> QED BY <3>1, <5>1, <5>2
      <4>8. CASE Submits(w, m)
        BY <4>8 DEF Submits, PastConfigure, AfterApproval
      <4> QED BY <1>1, <4>2, <4>3, <4>4, <4>5, <4>6, <4>7, <4>8 DEF Effect
    <3>4. Plain(w, m)
      <4>1. ~Configures(w, m)
        <5>1. Run(w) \in RunType
          BY DEF DriverInv, TypeOK, WorkerType, Run
        <5>2. [Run(w) EXCEPT !.st.configured = TRUE].st.configured
          BY <5>1 DEF RunType, StateType
        <5>3. ~Continues(w, m, [Run(w) EXCEPT !.st.configured = TRUE])
          BY <3>1, <5>2
        <5> QED BY <5>3 DEF Configures, Steady
      <4> QED BY <1>1, <3>3, <4>1 DEF Effect, Finalizes, MarksDeleted, Deletes, Closes, Submits
    <3>5. ~GivenAtRest
      BY <2>2, <3>4 DEF Plain, Still
    <3>6. "ticket" \notin Faulty
      <4>1. ~Run(w).st.configured
        <5>1. Continues(w, m, Run(w)) => ~Run(w).st.configured
          BY <3>1
        <5> QED BY <3>2, <3>4, <5>1 DEF Plain
      <4> QED BY <1>6, <3>5, <4>1 DEF Answers, Run
    <3>7. ~Fails(w, m)
      BY <1>2, <3>3, <3>5, <3>6, FirstStepsGoOn DEF Steady
    <3>8. m.pc \in Driving
      <4>1. ~Waits(w, m)
        BY <3>3 DEF Waits
      <4>2. Continues(w, m, Run(w)) \/ GoesOn(w, m)
        BY <3>4, <3>7, <4>1 DEF Plain
      <4> QED BY <3>3, <4>2 DEF Continues, GoesOn, Driving
    <3> QED BY <2>3, <2>6, <3>6, <3>8 DEF Answers
  <2> QED BY <2>8, <2>9
<1> QED BY <1>1, <1>2, <1>3, <1>4, <1>7, <1>8, HeldFrame

\* The invariant survives every step.
LEMMA HeldStep ==
    ASSUME DriverInv, DriverInv', Exclusive, WithinBounds, WithinBounds', ClocksRun, AllDone,
           InFlightHeld, Steady, [Next]_vars
    PROVE  InFlightHeld'
<1>1. CASE Passes /\ UNCHANGED dbFaults
  <2>1. /\ me' = me /\ row'.st = row.st /\ row'.status = row.status /\ request' = request
        /\ ext'.record = ext.record
    BY <1>1 DEF Passes, SameRow
  <2> QED BY <1>1, <2>1 DEF InFlightHeld, GivenAtRest, HasResource, Answers, Run
<1>2. CASE Begins
  <2>1. \A w \in Workers : me'[w] = Idle
    BY <1>2 DEF Begins, DriverInv, RowSound
  <2>2. ~Idle.quiet
    BY DEF Idle
  <2>3. GivenAtRest'
    BY <1>2 DEF Begins, GivenAtRest
  <2> QED BY <2>1, <2>2, <2>3 DEF InFlightHeld
<1> QED BY <1>1, <1>2, NextForms, KeepingHeld, ExecuteHeld, EscalateHeld

\* While leases cover the drives, no callback cuts in and the resource manager
\* answers, no record is left advertising a run that is over: the run is not over
\* before the escalator has released what configure put in flight, or finalize
\* brought it to rest. Workers may die and the database may fail at any point, if
\* the ticket system answers: the redrive configures the record again and with it
\* regains the mark. If they do not, the ticket system may fail too.
THEOREM NothingIsLeftInFlight ==
    ASSUME LeaseCovers, MaxWakes = 0, "resource" \notin Faulty,
           "ticket" \notin Faulty \/ (MaxCrashes = 0 /\ MaxDbFaults = 0)
    PROVE  Spec => []NothingLeftInFlight
<1>1. Sole => Exclusive
  BY DEF Sole, Unwoken
<1>2. DriverInv /\ DriverInv' /\ Sole /\ AllDone /\ [Next]_vars => AllDone'
  BY <1>1, DoneStep
<1>3. DriverInv /\ DriverInv' /\ ClocksRun /\ [Next]_vars => ClocksRun'
  BY ClocksStep
<1>4. Steady
  BY DEF Steady
<1>5. /\ DriverInv /\ DriverInv' /\ Sole /\ WithinBounds /\ WithinBounds' /\ ClocksRun /\ AllDone
      /\ InFlightHeld /\ [Next]_vars
      => InFlightHeld'
  BY <1>1, <1>4, HeldStep
<1>6. Init => InFlightHeld
  BY DEF Init, Idle, InFlightHeld, GivenAtRest
<1>7. DriverInv /\ AllDone /\ InFlightHeld => NothingLeftInFlight
  <2> SUFFICES ASSUME DriverInv, AllDone, InFlightHeld, row.status \in Terminal
               PROVE  AllRecords({"absent", "READY"})
    BY DEF NothingLeftInFlight
  <2>1. GivenAtRest
    BY DEF InFlightHeld, Active, Terminal
  <2>2. ext \in ExtType
    BY DEF DriverInv, TypeOK
  <2> QED BY <2>1, <2>2, TwoRecords DEF GivenAtRest, AllDone
<1> QED BY <1>2, <1>3, <1>5, <1>6, <1>7, DoneInit, ClocksInit, StaysWithinBounds, DriverInvariant,
           DrivesAreSole, PTL DEF Spec

-----------------------------------------------------------------------------
(* What a drive that takes the run up again finds, however drives overlap. *)

\* A run that has come to the engine has come to the engine for good.
LEMMA EngineStaysSaved ==
    ASSUME DriverInv, RedrivesFindTheWorld, NEW w \in Workers, SameRow \/ TakenFrom(w), EngineSaved
    PROVE  EngineSaved'
<1>1. CASE SameRow
  BY <1>1 DEF SameRow, EngineSaved
<1>2. CASE TakenFrom(w)
  <2>1. /\ me[w].pc = "save" /\ row.version = Run(w).version
        /\ row'.step = Run(w).step /\ row'.status = Run(w).status
    BY <1>2 DEF TakenFrom
  <2>2. /\ row.status \in Active /\ Keeps(row, Run(w)) /\ RunSound(Run(w)) /\ RunSound(row)
        /\ Run(w).status \in {"RUNNING"} \cup Terminal
    BY <2>1 DEF DriverInv, WorkerSound, PointSound, Tracks, Busy, Run, RowSound
  <2>3. row.step \in FromEngineOn
    BY <2>2 DEF EngineSaved, Active, Terminal
  <2>4. CASE Run(w).status \in Terminal
    BY <2>1, <2>4 DEF EngineSaved
  <2>5. CASE Run(w).status = "RUNNING"
    <3>1. Run(w).step # "none" /\ row.step # "none"
      BY <2>1, <2>3, <2>5 DEF RedrivesFindTheWorld, FromEngineOn
    <3>2. /\ Position(row.step) <= Position(Run(w).step)
          /\ Run(w).step \in PlanSteps /\ row.step \in PlanSteps
      BY <2>2, <3>1 DEF Keeps, RunSound
    <3>3. Run(w).step \in FromEngineOn
      <4>1. CASE request = "AUTOMATION"
        BY <3>2, <4>1, AutomationPlan DEF FromEngineOn
      <4>2. CASE request = "LEGACY"
        BY <2>3, <3>2, <4>2, LegacyPlan DEF FromEngineOn
      <4>3. CASE request \notin {"AUTOMATION", "LEGACY"}
        <5>1. PICK i, j : i = Position(row.step) /\ j = Position(Run(w).step)
          OBVIOUS
        <5>2. i >= 5 /\ i \in Nat
          BY <2>3, <4>3, <5>1, ResourcePlan DEF FromEngineOn
        <5>3. j \in Nat /\ (Run(w).step \in FromEngineOn \/ j < 5)
          BY <3>2, <4>3, <5>1, ResourcePlan DEF FromEngineOn, Steps
        <5> QED BY <3>2, <5>1, <5>2, <5>3
      <4> QED BY <4>1, <4>2, <4>3
    <3> QED BY <2>1, <3>3 DEF EngineSaved
  <2> QED BY <2>2, <2>4, <2>5
<1> QED BY <1>1, <1>2

\* One step moves one worker.
LEMMA FoundFrame ==
    ASSUME DriverInv, RedrivesFindTheWorld, NEW w \in Workers, SameRow \/ TakenFrom(w),
           NEW m, me' = [me EXCEPT ![w] = m], request' = request,
           Placed(m.run), PastLaunch(m) => EngineSaved,
           m.pc = "save" /\ m.run.status = "RUNNING" => m.run.step # "none",
           request = "DELETE" /\ ext'.record["given"] = "absent" => EngineSaved
    PROVE  RedrivesFindTheWorld'
<1>1. me \in [Workers -> WorkerType]
  BY DEF DriverInv, TypeOK
<1>2. EngineSaved => EngineSaved'
  BY EngineStaysSaved
<1>3. Placed(row')
  <2>1. Placed(row) /\ Placed(Run(w))
    BY DEF RedrivesFindTheWorld, Copies
  <2> QED BY <2>1 DEF Placed, SameRow, TakenFrom
<1>4. ASSUME NEW v \in Workers
      PROVE  /\ Placed(me'[v].run) /\ (PastLaunch(me'[v]) => EngineSaved)
             /\ me'[v].pc = "save" /\ me'[v].run.status = "RUNNING" => me'[v].run.step # "none"
  <2>1. me'[v] = m \/ me'[v] = me[v]
    BY <1>1
  <2>2. /\ Placed(me[v].run) /\ (PastLaunch(me[v]) => EngineSaved)
        /\ me[v].pc = "save" /\ me[v].run.status = "RUNNING" => me[v].run.step # "none"
    BY DEF RedrivesFindTheWorld, Copies, Run
  <2> QED BY <2>1, <2>2
<1>5. request' \in Requests \cup {"none"}
  BY DEF RedrivesFindTheWorld
<1>6. ASSUME NEW run \in Copies' \cup {row'} PROVE Placed(run)
  BY <1>3, <1>4 DEF Copies, Run
<1> QED BY <1>2, <1>4, <1>5, <1>6 DEF RedrivesFindTheWorld, Run, Placed, PastLaunch

\* Claiming, loading, saving and dying.
LEMMA KeepingFinds ==
    ASSUME DriverInv, RedrivesFindTheWorld, NEW w \in Workers, Keeping(w)
    PROVE  RedrivesFindTheWorld'
<1>1. UNCHANGED <<request, ext>> /\ (SameRow \/ TakenFrom(w))
  BY KeepingForm
<1>2. PICK m : /\ me' = [me EXCEPT ![w] = m]
               /\ Rests(m) \/ Resumes(w, m) \/ FailsToSave(w, m)
  BY KeepingForm
<1>3. /\ Placed(row) /\ Placed(Run(w)) /\ (PastLaunch(me[w]) => EngineSaved)
      /\ request = "DELETE" /\ ext'.record["given"] = "absent" => EngineSaved
  BY <1>1 DEF RedrivesFindTheWorld, Copies
<1>4. CASE Rests(m)
  <2>1. /\ m.run.st.vendor = "given" /\ m.run.status = "ABSENT" /\ m.run.step = "none"
        /\ m.pc \in {"idle", "claimed"}
    BY <1>4 DEF Rests, Blank, NewState
  <2>2. Placed(m.run) /\ ~PastLaunch(m) /\ m.pc # "save"
    BY <2>1 DEF Placed, PastLaunch, Active, Driving
  <2> QED BY <1>1, <1>2, <1>3, <2>2, FoundFrame
<1>5. CASE Resumes(w, m)
  <2>1. /\ m.run.st = row.st /\ row.status \in Active /\ m.pc # "save"
        /\ m.run.step = IF row.step = "none" THEN Plan[1] ELSE row.step
    BY <1>5 DEF Resumes
  <2>2. row.st.engine # 0 => row.step \in FromEngineOn
    BY <1>3, <2>1 DEF Placed
  <2>3. Placed(m.run)
    BY <1>3, <2>1, <2>2 DEF Placed, FromEngineOn
  <2>4. PastLaunch(m) => EngineSaved
    <3>1. Plan[1] \notin {"FINALIZE_RESOURCE", "CLOSE_TICKET"}
      BY AutomationPlan, LegacyPlan, ResourcePlan
    <3> QED BY <2>1, <2>2, <3>1 DEF PastLaunch, EngineSaved, FromEngineOn
  <2> QED BY <1>1, <1>2, <1>3, <2>1, <2>3, <2>4, FoundFrame
<1>6. CASE FailsToSave(w, m)
  <2>1. /\ m.run.st = Run(w).st /\ m.run.step = Run(w).step /\ m.run.status = "FAILED"
        /\ m.pc \in {"save", "incident"}
    BY <1>6 DEF FailsToSave
  <2>2. Placed(m.run) /\ (PastLaunch(m) => EngineSaved)
    BY <1>3, <2>1 DEF Placed, PastLaunch, Active, Driving, Run
  <2> QED BY <1>1, <1>2, <1>3, <2>1, <2>2, FoundFrame
<1> QED BY <1>2, <1>4, <1>5, <1>6

\* A copy that goes on from the engine has polled it.
LEMMA ContinuesPlaced ==
    ASSUME NEW w, NEW m, NEW run, Continues(w, m, run), Placed(Run(w)), Run(w).status \in Active,
           run.st.vendor = "given", run.st.engine = Run(w).st.engine, me[w].pc \in Driving,
           Run(w).step = "RUN_ENGINE" => run.st.engine # 0, PastLaunch(me[w]) => EngineSaved
    PROVE  /\ Placed(m.run) /\ (PastLaunch(m) => EngineSaved)
           /\ ~(m.pc = "save" /\ m.run.status = "RUNNING")
<1>1. /\ m.run.st.vendor = "given" /\ m.run.st.engine = Run(w).st.engine
      /\ m.pc # "save" \/ m.run.status = "COMPLETED"
      /\ m.run.step = "none" \/ Follows(Run(w).step, m.run.step)
      /\ m.run.status \in Active => Follows(Run(w).step, m.run.step)
  BY DEF Continues, SameWork, Active
<1>2. Run(w).st.engine # 0 => Run(w).step \in FromEngineOn
  BY DEF Placed
<1>3. Placed(m.run)
  BY <1>1, <1>2 DEF Placed, Follows, FromEngineOn
<1>4. PastLaunch(m) => PastLaunch(me[w])
  BY <1>1 DEF PastLaunch, Follows, Run
<1> QED BY <1>1, <1>3, <1>4

\* A step takes a run from the engine to its record, and deletes that no earlier.
LEMMA ExecuteFinds ==
    ASSUME DriverInv, RedrivesFindTheWorld, Requests \cap {"CREATE", "UPDATE"} = {},
           NEW w \in Workers, ExecuteStep(w)
    PROVE  RedrivesFindTheWorld'
<1>1. PICK m : me' = [me EXCEPT ![w] = m] /\ Effect(w, m)
  BY ExecuteEffects DEF Affects
<1>2. row' = row /\ request' = request /\ me[w].pc \in Driving
  BY ExecuteStepSound, ExecuteLeaves DEF SoundStep, others
<1>3. SameRow
  BY <1>2 DEF SameRow
<1>4. /\ Run(w) \in RunType /\ Run(w).step \in PlanSteps /\ Run(w).status = "RUNNING"
      /\ Run(w).status \in Active /\ ext \in ExtType
  BY <1>2, DrivingFacts DEF Ready, Active, DriverInv, TypeOK
<1>5. /\ Placed(Run(w)) /\ (PastLaunch(me[w]) => EngineSaved)
      /\ request = "DELETE" /\ ext.record["given"] = "absent" => EngineSaved
      /\ request \notin {"CREATE", "UPDATE"}
  BY DEF RedrivesFindTheWorld, Copies
<1>6. Run(w).st.vendor = "given"
  BY <1>5 DEF Placed
<1>7. Run(w).step \in {"FINALIZE_RESOURCE", "CLOSE_TICKET"} => EngineSaved
  BY <1>5 DEF PastLaunch, Run
<1>8. Run(w).step # "none"
  BY <1>4, AutomationPlan, LegacyPlan, ResourcePlan DEF Steps
<1>9. request = "DELETE" /\ ext'.record["given"] = "absent" => EngineSaved
  <2>1. CASE Run(w).step = "FINALIZE_RESOURCE"
    BY <1>7, <2>1
  <2>2. CASE Run(w).step # "FINALIZE_RESOURCE"
    BY <1>1, <1>5, <2>2 DEF Effect, Plain, Still, Configures, Finalizes, MarksDeleted, Deletes,
                            Closes, Submits
  <2> QED BY <2>1, <2>2
<1>10. CASE Fails(w, m) \/ Waits(w, m) \/ GoesOn(w, m)
  <2>1. /\ m.run.step = Run(w).step /\ m.run.st.vendor = "given"
        /\ \/ m.run.st.engine \in {Run(w).st.engine, 0}
           \/ m.run.step = "RUN_ENGINE" /\ m.pc = "save"
        /\ m.pc \in Driving => m.run.st.engine = Run(w).st.engine
    BY <1>6, <1>10 DEF Fails, Waits, GoesOn, SameWork, Driving
  <2>2. Placed(m.run)
    BY <1>4, <1>5, <2>1 DEF Placed, FromEngineOn
  <2>3. PastLaunch(m) => PastLaunch(me[w])
    BY <1>2, <2>1 DEF PastLaunch, Run
  <2> QED BY <1>1, <1>2, <1>3, <1>5, <1>8, <1>9, <2>1, <2>2, <2>3, FoundFrame
<1>11. ASSUME NEW run, Continues(w, m, run), run.st.vendor = "given",
              run.st.engine = Run(w).st.engine, Run(w).step = "RUN_ENGINE" => run.st.engine # 0
       PROVE  RedrivesFindTheWorld'
  <2>1. /\ Placed(m.run) /\ (PastLaunch(m) => EngineSaved)
        /\ ~(m.pc = "save" /\ m.run.status = "RUNNING")
    BY <1>2, <1>4, <1>5, <1>11, ContinuesPlaced
  <2> QED BY <1>1, <1>2, <1>3, <1>9, <2>1, FoundFrame
<1>12. CASE Continues(w, m, Run(w)) /\ Passed(Run(w))
  BY <1>6, <1>11, <1>12 DEF Passed
<1>13. CASE Continues(w, m, [Run(w) EXCEPT !.st.configured = TRUE]) /\ Run(w).step = "CONFIGURE_RESOURCE"
  <2>1. PICK run : run = [Run(w) EXCEPT !.st.configured = TRUE]
    OBVIOUS
  <2>2. run.st.vendor = Run(w).st.vendor /\ run.st.engine = Run(w).st.engine
    BY <1>4, <2>1 DEF RunType, StateType
  <2>3. Continues(w, m, run)
    BY <1>13, <2>1
  <2> QED BY <1>6, <1>11, <1>13, <2>2, <2>3
<1>14. CASE Continues(w, m, [Run(w) EXCEPT !.st.finalized = TRUE]) /\ Run(w).step = "FINALIZE_RESOURCE"
  <2>1. PICK run : run = [Run(w) EXCEPT !.st.finalized = TRUE]
    OBVIOUS
  <2>2. run.st.vendor = Run(w).st.vendor /\ run.st.engine = Run(w).st.engine
    BY <1>4, <2>1 DEF RunType, StateType
  <2>3. Continues(w, m, run)
    BY <1>14, <2>1
  <2> QED BY <1>6, <1>11, <1>14, <2>2, <2>3
<1>15. CASE Continues(w, m, [Run(w) EXCEPT !.st.closed = TRUE]) /\ Run(w).step = "CLOSE_TICKET"
  <2>1. PICK run : run = [Run(w) EXCEPT !.st.closed = TRUE]
    OBVIOUS
  <2>2. run.st.vendor = Run(w).st.vendor /\ run.st.engine = Run(w).st.engine
    BY <1>4, <2>1 DEF RunType, StateType
  <2>3. Continues(w, m, run)
    BY <1>15, <2>1
  <2> QED BY <1>6, <1>11, <1>15, <2>2, <2>3
<1>16. CASE Continues(w, m, [Run(w) EXCEPT !.st.submitted = TRUE]) /\ Run(w).step = "SUBMIT_LEGACY"
  <2>1. PICK run : run = [Run(w) EXCEPT !.st.submitted = TRUE]
    OBVIOUS
  <2>2. run.st.vendor = Run(w).st.vendor /\ run.st.engine = Run(w).st.engine
    BY <1>4, <2>1 DEF RunType, StateType
  <2>3. Continues(w, m, run)
    BY <1>16, <2>1
  <2> QED BY <1>6, <1>11, <1>16, <2>2, <2>3
<1>17. ~Finalizes(w, m)
  <2>1. Run(w).step = "FINALIZE_RESOURCE" => HasResource
    <3>1. request # "none"
      <4>1. me[w] # Idle
        BY <1>2 DEF Idle, Driving
      <4> QED BY <4>1 DEF DriverInv, RowSound
    <3> QED BY <1>4, <3>1, AutomationPlan, LegacyPlan DEF HasResource, Kinds, DriverInv, TypeOK
  <2> QED BY <1>5, <2>1 DEF Finalizes, HasResource
<1>18. CASE Plain(w, m)
  BY <1>10, <1>12, <1>18 DEF Plain
<1>19. CASE Configures(w, m)
  BY <1>10, <1>13, <1>19 DEF Configures
<1>20. CASE MarksDeleted(w, m)
  BY <1>10, <1>20 DEF MarksDeleted
<1>21. CASE Deletes(w, m)
  BY <1>10, <1>14, <1>21 DEF Deletes
<1>22. CASE Closes(w, m)
  BY <1>10, <1>15, <1>22 DEF Closes
<1>23. CASE Submits(w, m)
  BY <1>10, <1>16, <1>23 DEF Submits
<1> QED BY <1>1, <1>17, <1>18, <1>19, <1>20, <1>21, <1>22, <1>23 DEF Effect

\* An escalation deletes no record of a DELETE.
LEMMA EscalateFinds ==
    ASSUME DriverInv, RedrivesFindTheWorld, NEW w \in Workers, Escalate(w)
    PROVE  RedrivesFindTheWorld'
<1>1. PICK m : me' = [me EXCEPT ![w] = m] /\ Escalates(w, m) /\ EscalationCall(w, m)
  BY EscalateEffects
<1>2. /\ row' = row /\ request' = request /\ me[w].pc \in Escalating
  BY EscalateSound DEF SoundStep, others, Escalate, OpenIncident, LogDocumentationIncident,
       ResolveDocumentationIncident, CloseUnsuccessful, ReleaseResource, Escalating
<1>3. SameRow
  BY <1>2 DEF SameRow
<1>4. /\ Placed(Run(w)) /\ (PastLaunch(me[w]) => EngineSaved)
      /\ request = "DELETE" /\ ext.record["given"] = "absent" => EngineSaved
  BY DEF RedrivesFindTheWorld, Copies
<1>5. Run(w).status \in {"FAILED", "REJECTED"} /\ ext \in ExtType
  BY <1>2 DEF DriverInv, TypeOK, WorkerSound, PointSound, Run
<1>6. Run(w).st.vendor = "given" /\ DOMAIN ext.record = {"given", "real"}
  BY <1>4, <1>5 DEF Placed, ExtType
<1>7. request = "DELETE" /\ ext'.record["given"] = "absent" => ext.record["given"] = "absent"
  <2>1. ASSUME NEW x \in {"absent", "READY"},
               ext'.record = [ext.record EXCEPT ![Run(w).st.vendor] = x],
               x = "absent" => request = "CREATE" \/ RecordOf(Run(w)) = "absent"
        PROVE  request = "DELETE" /\ ext'.record["given"] = "absent" => ext.record["given"] = "absent"
    BY <1>6, <2>1 DEF RecordOf
  <2> QED BY <1>1, <2>1 DEF EscalationCall, Pages, Documents, Tells, Releases
<1>8. /\ Placed(m.run) /\ m.run.status # "RUNNING" /\ m.run.step = Run(w).step
      /\ m.pc \notin Driving
  BY <1>1, <1>5, <1>6 DEF Escalates, EscalationCall, Pages, Documents, Tells, Releases, Placed,
                          Active, Driving
<1>9. PastLaunch(m) => PastLaunch(me[w])
  BY <1>8 DEF PastLaunch, Run
<1> QED BY <1>1, <1>2, <1>3, <1>4, <1>7, <1>8, <1>9, FoundFrame

\* The invariant survives every step.
LEMMA FindsStep ==
    ASSUME DriverInv, RedrivesFindTheWorld, Requests \cap {"CREATE", "UPDATE"} = {}, [Next]_vars
    PROVE  RedrivesFindTheWorld'
<1>1. CASE Passes
  <2>1. /\ me' = me /\ row'.st = row.st /\ row'.status = row.status /\ row'.step = row.step
        /\ request' = request /\ ext'.record = ext.record
    BY <1>1 DEF Passes, SameRow
  <2>2. Placed(row') /\ EngineSaved' = EngineSaved
    BY <2>1 DEF RedrivesFindTheWorld, Placed, EngineSaved
  <2>3. ASSUME NEW run \in Copies' \cup {row'} PROVE Placed(run)
    BY <2>1, <2>2 DEF Copies, Run, RedrivesFindTheWorld
  <2> QED BY <2>1, <2>2, <2>3 DEF RedrivesFindTheWorld, Run, PastLaunch, Placed
<1>2. CASE Begins
  <2>1. \A w \in Workers : me'[w] = Idle
    BY <1>2 DEF Begins, DriverInv, RowSound
  <2>2. /\ Idle.pc = "idle" /\ Idle.run.step = "none" /\ Idle.run.st.vendor = "given"
        /\ Idle.run.status = "ABSENT"
    BY DEF Idle, Blank, NewState
  <2>3. Placed(Idle.run) /\ ~PastLaunch(Idle)
    BY <2>2 DEF Placed, PastLaunch, Active, Driving
  <2>4. Placed(row')
    BY <1>2 DEF Begins, NewState, Placed
  <2>5. ASSUME NEW run \in Copies' \cup {row'} PROVE Placed(run)
    BY <2>1, <2>3, <2>4 DEF Copies, Run
  <2>6. request' \in Requests /\ ~(request' = "DELETE" /\ ext'.record["given"] = "absent")
    BY <1>2 DEF Begins
  <2> QED BY <2>1, <2>2, <2>3, <2>5, <2>6 DEF RedrivesFindTheWorld, Run, PastLaunch, Placed
<1> QED BY <1>1, <1>2, NextForms, KeepingFinds, ExecuteFinds, EscalateFinds

-----------------------------------------------------------------------------
(* Why a run fails when every provider answers. *)

\* Steps that may fail although every provider answers.
MayFail == {"AWAIT_APPROVAL", "VALIDATE_RESOURCE", "RUN_ENGINE"}

\* One step moves one worker; the copies of the others are behind a row that
\* was saved.
LEMMA RealFrame ==
    ASSUME DriverInv, FailuresAreReal, NEW w \in Workers, SameRow \/ TakenFrom(w),
           NEW m, me' = [me EXCEPT ![w] = m],
           faults' = 0 /\ dbFaults' = 0 => faults = 0 /\ dbFaults = 0,
           m.run.status = "FAILED" /\ faults' = 0 /\ dbFaults' = 0 /\ m.run.version >= row'.version
               => m.run.step \in MayFail
    PROVE  FailuresAreReal'
<1>1. me \in [Workers -> WorkerType] /\ row.version \in Nat
  BY DEF DriverInv, TypeOK, RunType
<1>2. SUFFICES ASSUME faults' = 0, dbFaults' = 0 PROVE FailuresAreReal'
  BY DEF FailuresAreReal, RealFailure
<1>3. faults = 0 /\ dbFaults = 0
  BY <1>2
<1>4. row'.status = "FAILED" => row'.step \in MayFail
  <2>1. CASE SameRow
    <3>1. RealFailure(row)
      BY DEF FailuresAreReal
    <3>2. row.status = "FAILED" => row.step \in MayFail
      BY <1>1, <1>3, <3>1 DEF RealFailure, MayFail
    <3> QED BY <2>1, <3>2 DEF SameRow
  <2>2. CASE TakenFrom(w)
    <3>1. RealFailure(Run(w))
      BY DEF FailuresAreReal, Copies
    <3>2. /\ Run(w).version = row.version /\ row'.status = Run(w).status
          /\ row'.step = Run(w).step
      BY <2>2 DEF TakenFrom
    <3> QED BY <1>1, <1>3, <3>1, <3>2 DEF RealFailure, MayFail
  <2> QED BY <2>1, <2>2
<1>5. ASSUME NEW v \in Workers, me'[v].run.status = "FAILED", me'[v].run.version >= row'.version
      PROVE  me'[v].run.step \in MayFail
  <2>1. CASE me'[v] = m
    BY <1>2, <1>5, <2>1
  <2>2. CASE me'[v] = me[v]
    <3>1. RealFailure(me[v].run) /\ me[v].run.version \in Nat /\ PointSound(me[v])
      BY <1>1 DEF FailuresAreReal, Copies, Run, DriverInv, WorkerSound, WorkerType, RunType
    <3>2. CASE SameRow
      BY <1>3, <1>5, <2>2, <3>1, <3>2 DEF RealFailure, SameRow, MayFail
    <3>3. CASE TakenFrom(w)
      <4>1. \A x \in {Idle, [Idle EXCEPT !.pc = "claimed"]} : x.run.status # "FAILED"
        BY DEF Idle, Blank
      <4>2. me[v].pc \notin {"idle", "claimed"}
        <5>1. me[v].pc \in {"idle", "claimed"} => me[v] \in {Idle, [Idle EXCEPT !.pc = "claimed"]}
          BY <3>1 DEF PointSound
        <5> QED BY <1>5, <2>2, <4>1, <5>1
      <4>3. me[v] \in WorkerType
        BY <1>1
      <4>4. me[v].pc \in Busy
        BY <4>2, <4>3 DEF WorkerType, Busy, Driving, Escalating
      <4>5. me[v].run.version <= row.version
        BY <4>4 DEF DriverInv, WorkerSound, Tracks
      <4>6. row'.version = row.version + 1
        BY <3>3 DEF TakenFrom
      <4> QED BY <1>1, <1>5, <2>2, <3>1, <4>5, <4>6
    <3> QED BY <3>2, <3>3
  <2> QED BY <1>1, <2>1, <2>2
<1> QED BY <1>4, <1>5 DEF FailuresAreReal, RealFailure, Copies, Run, MayFail

\* A drive that begins again at the record of a DELETE finds it.
LEMMA RecordIsThere ==
    ASSUME DriverInv, RedrivesFindTheWorld, Requests \cap {"CREATE", "UPDATE"} = {},
           NEW w \in Workers, me[w].pc \in Driving, Run(w).version >= row.version,
           Run(w).step = "CONFIGURE_RESOURCE"
    PROVE  RecordOf(Run(w)) # "absent"
<1> SUFFICES ASSUME RecordOf(Run(w)) = "absent" PROVE FALSE
  OBVIOUS
<1>1. /\ Tracks(me[w]) /\ row \in RunType /\ Run(w) \in RunType /\ Run(w).step \in PlanSteps
      /\ row.step \in PlanSteps \cup {"none"}
  BY DrivingFacts DEF Ready
<1>2. Run(w).version = row.version
  <2>1. PICK a \in Nat, b \in Nat : a = Run(w).version /\ b = row.version
    BY <1>1 DEF RunType
  <2>2. a <= b /\ a >= b
    BY <1>1, <2>1 DEF Tracks, Run
  <2> QED BY <2>1, <2>2
<1>3. row.status \in Active /\ Keeps(row, Run(w))
  BY <1>1, <1>2 DEF Tracks, Run
<1>4. request = "DELETE"
  <2>1. me[w] # Idle
    BY DEF Idle, Driving
  <2>2. request \in Kinds /\ request \notin {"AUTOMATION", "LEGACY"}
    BY <1>1, <2>1, AutomationPlan, LegacyPlan DEF DriverInv, TypeOK, RowSound
  <2> QED BY <2>2 DEF RedrivesFindTheWorld, Kinds
<1>5. Run(w).st.vendor = "given"
  BY DEF RedrivesFindTheWorld, Copies, Placed
<1>6. EngineSaved
  BY <1>4, <1>5 DEF RedrivesFindTheWorld, RecordOf
<1>7. row.step \in FromEngineOn
  BY <1>3, <1>6 DEF EngineSaved, Active, Terminal
<1>8. PICK i, j : i = Position(row.step) /\ j = Position(Run(w).step)
  OBVIOUS
<1>9. i \in {5, 6, 7} /\ j = 2
  BY <1>4, <1>7, <1>8, ResourcePlan DEF FromEngineOn
<1>10. i <= j
  BY <1>3, <1>7, <1>8 DEF Keeps, FromEngineOn
<1> QED BY <1>9, <1>10

\* A step that fails although every provider answers is one that may.
LEMMA ExecuteReal ==
    ASSUME DriverInv, ClocksRun, RedrivesFindTheWorld, FailuresAreReal,
           Requests \cap {"CREATE", "UPDATE"} = {}, NEW w \in Workers, ExecuteStep(w)
    PROVE  FailuresAreReal'
<1>1. PICK m : me' = [me EXCEPT ![w] = m] /\ Effect(w, m)
  BY ExecuteEffects DEF Affects
<1>2. /\ row' = row /\ dbFaults' = dbFaults /\ request' = request /\ me[w].pc \in Driving
      /\ SameRow /\ me \in [Workers -> WorkerType]
  BY ExecuteStepSound, ExecuteLeaves DEF SoundStep, others, SameRow, DriverInv, TypeOK
<1>3. m.run.version = Run(w).version
  <2>1. PICK n : me' = [me EXCEPT ![w] = n] /\ n.run.version = Run(w).version
    BY ExecuteStepSound DEF SoundStep, SoundMove
  <2> QED BY <1>1, <1>2, <2>1
<1>4. faults \in Nat /\ (faults' = 0 => faults = 0)
  <2>1. faults \in Nat /\ ext \in ExtType
    BY DEF DriverInv, TypeOK
  <2> QED BY <2>1, WorldFrame
<1>5. ASSUME m.run.status = "FAILED", faults' = 0, m.run.version >= row'.version
      PROVE  m.run.step \in MayFail
  <2>1. Fails(w, m)
    <3>1. Run(w).status = "RUNNING"
      BY <1>2, DrivingFacts DEF Ready
    <3> QED BY <1>1, <1>5, <3>1 DEF Effect, Plain, Configures, Finalizes, MarksDeleted, Deletes,
                              Closes, Submits, Continues, Waits, GoesOn
  <2>2. m.run.step = Run(w).step
    BY <2>1 DEF Fails
  <2>3. CASE me[w].pc = "overdue"
    <3>1. Run(w).st.clock > 0 /\ Timed(Run(w)) /\ Run(w).status \in Active
      BY <1>2, <2>3, DrivingFacts DEF ClocksRun, Copies, Ready, Active
    <3> QED BY <2>2, <3>1 DEF Timed, MayFail
  <2>4. CASE Run(w).step \in {"VALIDATE_RESOURCE", "RUN_ENGINE"}
    BY <2>2, <2>4 DEF MayFail
  <2>5. Run(w).step # "FINALIZE_RESOURCE" \/ request = "DELETE"
    <3>1. Run(w).step = "FINALIZE_RESOURCE" => request \in Kinds \ {"AUTOMATION", "LEGACY"}
      <4>1. me[w] # Idle /\ Run(w).step \in PlanSteps
        BY <1>2, DrivingFacts DEF Idle, Driving
      <4> QED BY <4>1, AutomationPlan, LegacyPlan DEF DriverInv, TypeOK, RowSound
    <3> QED BY <3>1 DEF RedrivesFindTheWorld, Kinds
  <2>6. Run(w).step = "CONFIGURE_RESOURCE" => RecordOf(Run(w)) # "absent"
    BY <1>2, <1>3, <1>5, RecordIsThere
  <2> QED BY <1>5, <2>1, <2>3, <2>4, <2>5, <2>6 DEF Fails
<1> QED BY <1>1, <1>2, <1>4, <1>5, RealFrame

\* The invariant survives every step.
LEMMA RealStep ==
    ASSUME DriverInv, ClocksRun, RedrivesFindTheWorld, FailuresAreReal,
           Requests \cap {"CREATE", "UPDATE"} = {}, [Next]_vars
    PROVE  FailuresAreReal'
<1>1. CASE UNCHANGED <<faults, dbFaults>> /\ Passes
  BY <1>1 DEF Passes, SameRow, FailuresAreReal, RealFailure, Copies, Run
<1>2. CASE Begins
  <2>1. (\A w \in Workers : me'[w] = Idle) /\ row'.status = "PENDING"
    BY <1>2 DEF Begins, DriverInv, RowSound
  <2> QED BY <2>1 DEF FailuresAreReal, RealFailure, Copies, Run, Idle, Blank
<1>3. ASSUME NEW w \in Workers, Keeping(w) PROVE FailuresAreReal'
  <2>1. /\ SameRow \/ TakenFrom(w)
        /\ faults' = 0 /\ dbFaults' = 0 => faults = 0 /\ dbFaults = 0
    <3>1. /\ SameRow \/ TakenFrom(w)
          /\ faults' = faults /\ (dbFaults' = dbFaults \/ dbFaults' > 0)
      BY <1>3, KeepingForm
    <3> QED BY <3>1
  <2>2. PICK m : /\ me' = [me EXCEPT ![w] = m]
                 /\ Rests(m) \/ Resumes(w, m) \/ dbFaults' > 0
    BY <1>3, KeepingForm
  <2>3. m.run.status # "FAILED" \/ dbFaults' # 0
    BY <2>2 DEF Rests, Resumes, Blank
  <2> QED BY <2>1, <2>2, <2>3, RealFrame
<1>4. ASSUME NEW w \in Workers, Escalate(w) PROVE FailuresAreReal'
  <2>1. PICK m : me' = [me EXCEPT ![w] = m] /\ Escalates(w, m)
    BY <1>4, EscalateEffects
  <2>2. /\ m.run.status = Run(w).status /\ m.run.step = Run(w).step
        /\ m.run.version = Run(w).version
    BY <2>1 DEF Escalates
  <2>3. row' = row /\ dbFaults' = dbFaults /\ SameRow
    BY <1>4, EscalateSound DEF SoundStep, others, SameRow
  <2>4. faults' = 0 => faults = 0
    <3>1. faults \in Nat /\ ext \in ExtType
      BY DEF DriverInv, TypeOK
    <3> QED BY <1>4, <3>1, WorldFrame
  <2>5. RealFailure(Run(w))
    BY DEF FailuresAreReal, Copies
  <2>6. /\ m.run.status = "FAILED" /\ faults' = 0 /\ dbFaults' = 0 /\ m.run.version >= row'.version
        => m.run.step \in MayFail
    BY <2>2, <2>3, <2>4, <2>5 DEF RealFailure, MayFail
  <2> QED BY <2>1, <2>3, <2>4, <2>6, RealFrame
<1> QED BY <1>1, <1>2, <1>3, <1>4, NextForms, ExecuteReal

\* Driving a DELETE, an automation or a legacy run again is harmless: however
\* drives overlap, die and take the run up again, while no call has failed a run
\* fails only where an approval, a validation or an engine run may fail it, and
\* never because an earlier drive has done what this one does again
\* (RunExecutor.execute, FinalizeResourceStep). No lease is assumed.
THEOREM RedrivesAreSafe ==
    ASSUME Requests \cap {"CREATE", "UPDATE"} = {}
    PROVE  Spec => []RedriveIsSafe
<1>1. DriverInv /\ DriverInv' /\ ClocksRun /\ [Next]_vars => ClocksRun'
  BY ClocksStep
<1>2. DriverInv /\ RedrivesFindTheWorld /\ [Next]_vars => RedrivesFindTheWorld'
  BY FindsStep
<1>3. DriverInv /\ ClocksRun /\ RedrivesFindTheWorld /\ FailuresAreReal /\ [Next]_vars
          => FailuresAreReal'
  BY RealStep
<1>4. Init => RedrivesFindTheWorld /\ FailuresAreReal
  <2> SUFFICES ASSUME Init PROVE RedrivesFindTheWorld /\ FailuresAreReal
    OBVIOUS
  <2>1. row = Blank /\ request = "none" /\ \A w \in Workers : me[w] = Idle
    BY DEF Init
  <2>2. /\ Idle.run = Blank /\ Idle.pc = "idle" /\ Blank.status = "ABSENT" /\ Blank.step = "none"
        /\ Blank.st.vendor = "given"
    BY DEF Idle, Blank, NewState
  <2>3. \A run \in Copies \cup {row} : run = Blank
    BY <2>1, <2>2 DEF Copies, Run
  <2>4. Placed(Blank) /\ RealFailure(Blank) /\ ~PastLaunch(Idle)
    BY <2>2 DEF Placed, RealFailure, PastLaunch, Active, Driving
  <2> QED BY <2>1, <2>2, <2>3, <2>4 DEF RedrivesFindTheWorld, FailuresAreReal
<1>5. DriverInv /\ FailuresAreReal => RedriveIsSafe
  <2> SUFFICES ASSUME DriverInv, FailuresAreReal PROVE RedriveIsSafe
    OBVIOUS
  <2>1. row.version \in Nat /\ RealFailure(row)
    BY DEF DriverInv, TypeOK, RunType, FailuresAreReal
  <2> QED BY <2>1 DEF RealFailure, RedriveIsSafe
<1> QED BY <1>1, <1>2, <1>3, <1>4, <1>5, ClocksInit, DriverInvariant, PTL DEF Spec
=============================================================================
