------------------------- MODULE RunDriverSoleProofs ------------------------
(***************************************************************************)
(* Properties of runs whose drives do not overlap: leases cover the drives *)
(* (LeaseCovers) and no callback dates the run while it is driven. They    *)
(* rest on the invariant of RunDriverProofs and on Sole: one worker at a   *)
(* time has the run.                                                       *)
(***************************************************************************)
EXTENDS RunDriverStepProofs

-----------------------------------------------------------------------------
(* The inductive invariants: one worker at a time, and what it has counted. *)

\* What the workers hold.
Copies == {Run(w) : w \in Workers}

\* No callback dates the run while a worker drives it: there is none, or the
\* run has nothing a callback could be about.
Unwoken == MaxWakes = 0 \/ request = "LEGACY"

\* A legacy run has neither a ticket nor an engine run, so no callback finds it.
NoCallback ==
    request \in {"none", "LEGACY"} =>
        ~found /\ \A run \in Copies \cup {row} : run.st.ticket = 0 /\ run.st.engine = 0

\* One worker at a time has the run, and what it has is the row's version until
\* an exception out of save() leaves open whether it was saved.
Exclusive ==
    \A w \in Workers : me[w].pc # "idle" =>
        /\ row.date # "due"
        /\ \A v \in Workers : me[v].pc # "idle" => v = w
        /\ me[w].pc \in Busy /\ ~me[w].quiet => Run(w).version = row.version

Sole == NoCallback /\ (Unwoken => Exclusive)

\* The handover that is not paid for by a crash or a call that failed is the
\* one after which the run is COMPLETED.
Delivered ==
    \/ row.status \in Terminal
    \/ \E w \in Workers : me[w].pc = "save" /\ Run(w).status = "COMPLETED"

HandoversCounted ==
    /\ request # "LEGACY" => ext.handovers = 0
    /\ ext.handovers <= crashes + faults + dbFaults + (IF Delivered THEN 1 ELSE 0)

\* The incident that is not paid for by a crash or a database call that failed
\* is the one of the escalation after which the run is FAILED.
Paged ==
    \/ row.status = "FAILED"
    \/ \E w \in Workers : /\ me[w].pc \in (Escalating \cup {"save"}) \ {"incident"}
                          /\ Run(w).status = "FAILED"
                          /\ ~me[w].quiet

IncidentsCounted ==
    /\ ext.incidents <= crashes + dbFaults + (IF Paged THEN 1 ELSE 0)
    /\ \A w \in Workers : me[w].pc = "incident" =>
          /\ Run(w).status = "FAILED"
          /\ me[w].quiet => ext.incidents + 1 <= crashes + dbFaults

AfterApproval == {"VALIDATE_RESOURCE", "RUN_ENGINE", "FINALIZE_RESOURCE", "CLOSE_TICKET"}

\* The ticket of a copy is tagged with the run's key, and approved if the copy
\* is past the approval.
HoldsTicket(run) ==
    /\ run.st.ticket # 0 => run.st.ticket \in ext.tagged
    /\ run.step \in AfterApproval =>
          run.st.ticket # 0 /\ ext.approval[run.st.ticket] = "approved"

\* While the ticket system answers, a run has one ticket, which no drive loses,
\* and whatever is launched is launched after the approval of that ticket.
OneTicket ==
    request \notin {"AUTOMATION", "LEGACY"} =>
        /\ \A s, t \in ext.tagged : s = t
        /\ Launched # {} => \E t \in ext.tagged : ext.approval[t] = "approved"
        /\ \A w \in Workers : me[w].pc \in {"order", "tag"} => ext.tagged = {}
        /\ \A run \in Copies \cup {row} : HoldsTicket(run)

RejectionsUntouched ==
    \A run \in Copies \cup {row} : run.status = "REJECTED" => Launched = {}

-----------------------------------------------------------------------------
(* What the moves of a drive do to a worker's copy, field by field. *)

\* The markers that make a re-drive skip a side effect, and where the record is.
SameMarks(a, b) ==
    /\ a.st.ticket = b.st.ticket /\ a.st.configured = b.st.configured
    /\ a.st.finalized = b.st.finalized /\ a.st.closed = b.st.closed
    /\ a.st.submitted = b.st.submitted /\ a.st.vendor = b.st.vendor

\* The step is done.
LEMMA AdvanceFields ==
    ASSUME me \in [Workers -> WorkerType], NEW w \in Workers, NEW run \in RunType, Advance(w, run)
    PROVE  \E m : /\ me' = [me EXCEPT ![w] = m] /\ m.quiet = me[w].quiet
                  /\ SameMarks(m.run, run)
                  /\ m.run.st.engine = run.st.engine /\ m.run.st.output = run.st.output
                  /\ m.run.st.clock = 0
                  /\ \/ /\ m.pc = "step" /\ m.run.status = run.status
                        /\ Position(run.step) < Len(Plan)
                        /\ m.run.step = Plan[Position(run.step) + 1]
                     \/ /\ m.pc = "save" /\ m.run.status = "COMPLETED" /\ m.run.step = "none"
                        /\ ~(Position(run.step) < Len(Plan))
<1> DEFINE done == [run EXCEPT !.st.attempts = 0, !.st.clock = 0]
           i    == Position(run.step)
<1>1. done \in RunType
  <2>1. 0 \in 0 .. MaxPolls /\ 0 \in 0 .. (MaxRetries + 1)
    BY DriverAssumption
  <2>2. [run EXCEPT !.st.attempts = 0] \in RunType
    BY <2>1, RunStateUpdates
  <2> QED BY <2>1, <2>2, RunStateUpdates
<1>2. /\ done.status = run.status /\ SameMarks(done, run) /\ done.st.clock = 0
      /\ done.st.engine = run.st.engine /\ done.st.output = run.st.output
  BY DEF RunType, StateType, SameMarks
<1> HIDE DEF done
<1>3. CASE i < Len(Plan)
  <2> DEFINE new == [done EXCEPT !.step = Plan[i + 1]]
             m   == [pc |-> "step", err |-> me[w].err, order |-> me[w].order,
                     quiet |-> me[w].quiet, run |-> new]
  <2>1. me' = [me EXCEPT ![w] = m]
    BY <1>3, GotoIs DEF Advance, done
  <2>2. new.step = Plan[i + 1] /\ new.status = run.status /\ new.st = done.st
    BY <1>1, <1>2 DEF RunType
  <2> HIDE DEF new
  <2>3. SameMarks(new, run)
    BY <1>2, <2>2 DEF SameMarks
  <2>4. m.pc = "step" /\ m.quiet = me[w].quiet /\ m.run = new
    OBVIOUS
  <2> HIDE DEF m
  <2> QED BY <1>2, <1>3, <2>1, <2>2, <2>3, <2>4
<1>4. CASE ~(i < Len(Plan))
  <2> DEFINE new == [done EXCEPT !.status = "COMPLETED", !.step = "none", !.date = "null"]
             m   == [pc |-> "save", err |-> me[w].err, order |-> me[w].order,
                     quiet |-> me[w].quiet, run |-> new]
  <2>1. me' = [me EXCEPT ![w] = m]
    BY <1>4, GotoIs DEF Advance, done
  <2>2. new.step = "none" /\ new.status = "COMPLETED" /\ new.st = done.st
    BY <1>1 DEF RunType
  <2> HIDE DEF new
  <2>3. SameMarks(new, run)
    BY <1>2, <2>2 DEF SameMarks
  <2>4. m.pc = "save" /\ m.quiet = me[w].quiet /\ m.run = new
    OBVIOUS
  <2> HIDE DEF m
  <2> QED BY <1>2, <1>4, <2>1, <2>2, <2>3, <2>4
<1> QED BY <1>3, <1>4

\* The step is not done.
LEMMA PollFields ==
    ASSUME me \in [Workers -> WorkerType], NEW w \in Workers, NEW run \in RunType, Poll(w, run)
    PROVE  \E m : /\ me' = [me EXCEPT ![w] = m] /\ m.quiet = me[w].quiet
                  /\ SameMarks(m.run, run)
                  /\ m.run.st.engine = run.st.engine /\ m.run.st.output = run.st.output
                  /\ m.pc = "save" /\ m.run.status = run.status /\ m.run.step = run.step
<1> DEFINE new == [run EXCEPT !.date = "future", !.st.clock = @ + 1]
           m   == [pc |-> "save", err |-> me[w].err, order |-> me[w].order,
                   quiet |-> me[w].quiet, run |-> new]
<1>1. me' = [me EXCEPT ![w] = m]
  BY GotoIs DEF Poll
<1>2. /\ new.status = run.status /\ new.step = run.step /\ SameMarks(new, run)
      /\ new.st.engine = run.st.engine /\ new.st.output = run.st.output
  BY DEF RunType, StateType, SameMarks
<1> HIDE DEF new
<1>3. m.pc = "save" /\ m.quiet = me[w].quiet /\ m.run = new
  OBVIOUS
<1> HIDE DEF m
<1> QED BY <1>1, <1>2, <1>3

\* The step raised.
LEMMA StepErrorFields ==
    ASSUME me \in [Workers -> WorkerType], NEW w \in Workers, NEW run \in RunType, NEW err,
           run.st.attempts <= MaxRetries, StepError(w, run, err)
    PROVE  \E m : /\ me' = [me EXCEPT ![w] = m] /\ m.quiet = me[w].quiet
                  /\ SameMarks(m.run, run) /\ m.run.step = run.step
                  /\ m.run.st.engine \in {run.st.engine, 0}
                  /\ \/ m.pc = "save" /\ m.run.status = run.status /\ m.run.st.clock = 0
                     \/ /\ m.pc \in {"incident", "closing"} /\ m.run.status = "FAILED"
                        /\ m.pc = EscalationPoint(err) /\ m.err = err
<1> DEFINE failed == [run EXCEPT !.st.attempts = @ + 1]
<1>1. failed \in RunType
  <2>1. run.st.attempts \in Nat
    BY DEF RunType, StateType
  <2>2. run.st.attempts + 1 \in 0 .. (MaxRetries + 1)
    BY <2>1, DriverAssumption
  <2> QED BY <2>2, RunStateUpdates
<1>2. /\ failed.status = run.status /\ failed.step = run.step /\ SameMarks(failed, run)
      /\ failed.st.engine = run.st.engine
  BY DEF RunType, StateType, SameMarks
<1> HIDE DEF failed
<1>3. CASE Retryable(err) /\ failed.st.attempts <= RetryLimit
  <2> DEFINE reset == ResetForRetry(failed)
             new   == [reset EXCEPT !.st.clock = 0, !.date = "future"]
             m     == [pc |-> "save", err |-> me[w].err, order |-> me[w].order,
                       quiet |-> me[w].quiet, run |-> new]
  <2>1. me' = [me EXCEPT ![w] = m]
    BY <1>3, GotoIs DEF StepError, failed
  <2>2. /\ reset \in RunType /\ reset.step = run.step /\ reset.status = run.status
        /\ SameMarks(reset, run) /\ reset.st.engine \in {run.st.engine, 0}
    <3>1. CASE failed.step = "RUN_ENGINE"
      <4> DEFINE x == [failed EXCEPT !.st.engine = 0, !.st.failure = "none", !.st.output = FALSE]
      <4>1. [failed EXCEPT !.st.engine = 0] \in RunType
        BY <1>1, RunStateUpdates
      <4>2. [failed EXCEPT !.st.engine = 0, !.st.failure = "none"] \in RunType
        BY <4>1, RunStateUpdates
      <4>3. x \in RunType
        BY <4>2, RunStateUpdates
      <4>4. /\ x.step = failed.step /\ x.status = failed.status /\ x.st.engine = 0
            /\ SameMarks(x, failed)
        BY <1>1 DEF RunType, StateType, SameMarks
      <4>5. reset = x
        BY <3>1 DEF ResetForRetry
      <4> HIDE DEF x, reset
      <4> QED BY <1>2, <4>3, <4>4, <4>5 DEF SameMarks
    <3>2. CASE failed.step # "RUN_ENGINE"
      <4>1. reset = failed
        BY <3>2 DEF ResetForRetry
      <4> QED BY <1>1, <1>2, <4>1
    <3> QED BY <3>1, <3>2
  <2> HIDE DEF reset
  <2>3. /\ new.step = reset.step /\ new.status = reset.status /\ SameMarks(new, reset)
        /\ new.st.engine = reset.st.engine /\ new.st.clock = 0
    BY <2>2 DEF RunType, StateType, SameMarks
  <2> HIDE DEF new
  <2>4. SameMarks(new, run)
    BY <2>2, <2>3 DEF SameMarks
  <2>5. m.pc = "save" /\ m.quiet = me[w].quiet /\ m.run = new
    OBVIOUS
  <2> HIDE DEF m
  <2> QED BY <2>1, <2>2, <2>3, <2>4, <2>5
<1>4. CASE ~(Retryable(err) /\ failed.st.attempts <= RetryLimit)
  <2> DEFINE new == Failed(failed)
  <2>1. PICK e : e = EscalationPoint(err)
    OBVIOUS
  <2>2. e \in {"incident", "closing"}
    BY <2>1 DEF EscalationPoint
  <2> DEFINE m == [[[me[w] EXCEPT !.pc = e] EXCEPT !.err = err] EXCEPT !.run = new]
  <2>3. me' = [me EXCEPT ![w] = m]
    BY <1>4, <2>1 DEF StepError, failed
  <2>4. new.step = run.step /\ new.status = "FAILED" /\ new.st = failed.st
    BY <1>1, <1>2 DEF RunType, Failed
  <2> HIDE DEF new
  <2>5. m.pc = e /\ m.err = err /\ m.quiet = me[w].quiet /\ m.run = new
    BY DEF WorkerType
  <2> HIDE DEF m
  <2>6. SameMarks(new, run) /\ new.st.engine = run.st.engine
    BY <1>2, <2>4 DEF SameMarks
  <2> QED BY <2>1, <2>2, <2>3, <2>4, <2>5, <2>6
<1> QED BY <1>3, <1>4

\* Saved copies and loaded rows, and what is marked FAILED.
LEMMA CopyFields ==
    ASSUME NEW run \in RunType
    PROVE  /\ \A n : LET new == [run EXCEPT !.version = n]
                     IN  /\ SameMarks(new, run) /\ new.st = run.st /\ new.step = run.step
                         /\ new.status = run.status /\ new.version = n /\ new.date = run.date
           /\ \A d : LET new == [run EXCEPT !.date = d]
                     IN  /\ SameMarks(new, run) /\ new.st = run.st /\ new.step = run.step
                         /\ new.status = run.status /\ new.version = run.version /\ new.date = d
           /\ SameMarks(Failed(run), run) /\ Failed(run).st = run.st
           /\ Failed(run).step = run.step /\ Failed(run).status = "FAILED"
BY DEF RunType, SameMarks, Failed
-----------------------------------------------------------------------------
(* One worker at a time. *)

\* How SaveRaised marks a worker.
LEMMA SaveRaisedFields ==
    ASSUME me \in [Workers -> WorkerType], NEW w \in Workers, SaveRaised(w)
    PROVE  \E m : /\ me' = [me EXCEPT ![w] = m] /\ m.quiet = TRUE
                  /\ m.run.st = Run(w).st /\ m.run.step = Run(w).step
                  /\ m.run.status = "FAILED" /\ m.run.version = Run(w).version
                  /\ \/ Run(w).status = "FAILED" /\ m.pc = me[w].pc
                     \/ Run(w).status # "FAILED" /\ m.pc = "incident"
<1>1. me[w] \in WorkerType /\ Run(w) \in RunType
  BY DEF WorkerType, Run
<1>2. CASE Run(w).status = "FAILED"
  <2> DEFINE m == [me[w] EXCEPT !.quiet = TRUE]
  <2>1. me' = [me EXCEPT ![w] = m]
    BY <1>2 DEF SaveRaised
  <2>2. m.quiet = TRUE /\ m.pc = me[w].pc /\ m.run = Run(w)
    BY <1>1 DEF WorkerType, Run
  <2> HIDE DEF m
  <2> QED BY <1>2, <2>1, <2>2
<1>3. CASE Run(w).status # "FAILED"
  <2> DEFINE m == [[[[me[w] EXCEPT !.quiet = TRUE] EXCEPT !.pc = "incident"]
                      EXCEPT !.err = "unclassified"] EXCEPT !.run = Failed(Run(w))]
  <2>1. me' = [me EXCEPT ![w] = m]
    BY <1>3 DEF SaveRaised
  <2>2. m.quiet = TRUE /\ m.pc = "incident" /\ m.run = Failed(Run(w))
    BY <1>1 DEF WorkerType
  <2>3. /\ Failed(Run(w)).status = "FAILED" /\ Failed(Run(w)).st = Run(w).st
        /\ Failed(Run(w)).step = Run(w).step /\ Failed(Run(w)).version = Run(w).version
    BY <1>1 DEF Failed, RunType
  <2> HIDE DEF m
  <2> QED BY <1>3, <2>1, <2>2, <2>3
<1> QED BY <1>2, <1>3

\* Escalation changes nothing of the copy but the mark of a closed ticket.
LEMMA EscalateFields ==
    ASSUME me \in [Workers -> WorkerType], NEW w \in Workers, Escalate(w)
    PROVE  /\ me[w].pc \in Escalating
           /\ \E m : /\ me' = [me EXCEPT ![w] = m] /\ m.quiet = me[w].quiet
                     /\ m.pc \in (Escalating \cup {"save"}) \ {"incident"}
                     /\ m.run.status = Run(w).status
                     /\ m.run.version = Run(w).version /\ m.run.step = Run(w).step
                     /\ m.run.st.ticket = Run(w).st.ticket
                     /\ m.run.st.engine = Run(w).st.engine
<1>1. me[w] \in WorkerType /\ Run(w) \in RunType
  BY DEF WorkerType, Run
<1> DEFINE Moved(p, run) ==
              \E m : /\ me' = [me EXCEPT ![w] = m] /\ m.quiet = me[w].quiet
                     /\ m.pc = p /\ m.run = run
<1>2. ASSUME NEW p, me' = [me EXCEPT ![w].pc = p] PROVE Moved(p, Run(w))
  <2> DEFINE m == [me[w] EXCEPT !.pc = p]
  <2>1. me' = [me EXCEPT ![w] = m]
    BY <1>2
  <2>2. m.quiet = me[w].quiet /\ m.pc = p /\ m.run = Run(w)
    BY <1>1 DEF WorkerType, Run
  <2> HIDE DEF m
  <2> QED BY <2>1, <2>2
<1>3. ASSUME NEW p, NEW run, Goto(w, p, run) PROVE Moved(p, run)
  <2> DEFINE m == [pc |-> p, err |-> me[w].err, order |-> me[w].order, quiet |-> me[w].quiet,
                   run |-> run]
  <2>1. me' = [me EXCEPT ![w] = m]
    BY <1>3, GotoIs
  <2>2. m.quiet = me[w].quiet /\ m.pc = p /\ m.run = run
    OBVIOUS
  <2> HIDE DEF m
  <2> QED BY <2>1, <2>2
<1>4. ASSUME NEW provider, NEW effect, NEW next, NEW rescue,
             Guarded(w, provider, effect, next, rescue)
      PROVE  \E p \in {next, rescue} : Moved(p, Run(w))
  <2> HIDE DEF Moved
  <2>1. CASE me' = [me EXCEPT ![w].pc = next]
    BY <1>2, <2>1
  <2>2. CASE me' = [me EXCEPT ![w].pc = rescue]
    BY <1>2, <2>2
  <2> QED BY <1>4, <2>1, <2>2 DEF Guarded
<1> DEFINE closed == [Run(w) EXCEPT !.st.closed = TRUE]
<1>5. /\ closed.status = Run(w).status /\ closed.version = Run(w).version
      /\ closed.step = Run(w).step
      /\ closed.st.ticket = Run(w).st.ticket /\ closed.st.engine = Run(w).st.engine
  BY <1>1 DEF RunType, StateType
<1>6. /\ me[w].pc \in Escalating
      /\ \E p \in (Escalating \cup {"save"}) \ {"incident"} :
            Moved(p, Run(w)) \/ Moved(p, closed)
  <2> HIDE DEF Moved, closed
  <2>1. CASE OpenIncident(w)
    <3>1. AfterIncident(w) \in {"release", "document", "closing"}
      BY DEF AfterIncident
    <3> QED BY <1>4, <2>1, <3>1 DEF OpenIncident, Escalating
  <2>2. CASE LogDocumentationIncident(w)
    BY <1>4, <2>2 DEF LogDocumentationIncident, Escalating
  <2>3. CASE ResolveDocumentationIncident(w)
    BY <1>4, <2>3 DEF ResolveDocumentationIncident, Escalating
  <2>4. CASE CloseUnsuccessful(w)
    <3>1. Goto(w, "release", Run(w)) \/ Goto(w, "release", closed)
      BY <2>4 DEF CloseUnsuccessful, closed
    <3>2. Moved("release", Run(w)) \/ Moved("release", closed)
      BY <1>3, <3>1
    <3> QED BY <2>4, <3>2 DEF CloseUnsuccessful, Escalating
  <2>5. CASE ReleaseResource(w)
    <3>1. Moved("save", Run(w))
      BY <1>3, <1>4, <2>5 DEF ReleaseResource
    <3> QED BY <2>5, <3>1 DEF ReleaseResource, Escalating
  <2> QED BY <2>1, <2>2, <2>3, <2>4, <2>5 DEF Escalate
<1>7. PICK p \in (Escalating \cup {"save"}) \ {"incident"} : Moved(p, Run(w)) \/ Moved(p, closed)
  BY <1>6
<1>8. PICK run \in {Run(w), closed} : Moved(p, run)
  <2> HIDE DEF Moved, closed
  <2> QED BY <1>7
<1>9. PICK m : /\ me' = [me EXCEPT ![w] = m] /\ m.quiet = me[w].quiet
               /\ m.pc = p /\ m.run = run
  BY <1>8
<1> HIDE DEF closed, Moved
<1> QED BY <1>5, <1>6, <1>7, <1>8, <1>9

\* What a worker loads.
LEMMA LoadFields ==
    ASSUME me \in [Workers -> WorkerType], row \in RunType, NEW w \in Workers, Load(w)
    PROVE  \/ me' = [me EXCEPT ![w] = Idle]
           \/ /\ row.status \in Active
              /\ \E m : /\ me' = [me EXCEPT ![w] = m] /\ m.pc \in {"overdue", "step"}
                        /\ m.quiet = me[w].quiet
                        /\ m.run.st = row.st /\ m.run.version = row.version
                        /\ m.run.status = "RUNNING"
                        /\ m.run.step = IF row.step = "none" THEN Plan[1] ELSE row.step
<1>1. CASE ~Unfinished /\ me' = [me EXCEPT ![w] = Idle]
  BY <1>1
<1>2. CASE Unfinished /\ Goto(w, IF Late THEN "overdue" ELSE "step",
                  [row EXCEPT !.status = "RUNNING", !.step = IF @ = "none" THEN Plan[1] ELSE @])
  <2> DEFINE p   == IF Late THEN "overdue" ELSE "step"
             run == [row EXCEPT !.status = "RUNNING", !.step = IF @ = "none" THEN Plan[1] ELSE @]
             m   == [pc |-> p, err |-> me[w].err, order |-> me[w].order, quiet |-> me[w].quiet,
                     run |-> run]
  <2>1. me' = [me EXCEPT ![w] = m]
    BY <1>2, GotoIs
  <2>2. m.pc \in {"overdue", "step"} /\ m.quiet = me[w].quiet /\ m.run = run
    OBVIOUS
  <2>3. /\ run.status = "RUNNING" /\ run.st = row.st /\ run.version = row.version
        /\ run.step = IF row.step = "none" THEN Plan[1] ELSE row.step
    BY DEF RunType
  <2> HIDE DEF m, run
  <2> QED BY <1>2, <2>1, <2>2, <2>3 DEF Unfinished
<1> QED BY <1>1, <1>2 DEF Load

\* A step of a worker that has the run.
LEMMA WorkForm ==
    ASSUME DriverInv, NEW w \in Workers,
           Load(w) \/ ExecuteStep(w) \/ Escalate(w) \/ Save(w) \/ SaveRaises(w) \/ Crash(w)
    PROVE  /\ me[w].pc # "idle" /\ UNCHANGED <<request, found>>
           /\ \E m : /\ me' = [me EXCEPT ![w] = m]
                     /\ \/ /\ row' = row
                           /\ \/ m.pc \notin Busy
                              \/ m.quiet = TRUE
                              \/ m.run.version = row.version
                              \/ /\ me[w].pc \in Busy /\ m.quiet = me[w].quiet
                                 /\ m.run.version = Run(w).version
                        \/ /\ me[w].pc = "save" /\ Write(w) /\ (m = Idle \/ m.quiet = TRUE)
<1>1. me \in [Workers -> WorkerType] /\ row \in RunType /\ me[w].quiet \in BOOLEAN
  BY DEF DriverInv, TypeOK, WorkerType
<1>2. Idle.pc \notin Busy
  BY DEF Idle, Busy, Driving, Escalating
<1>3. CASE Load(w)
  <2>1. me[w].pc # "idle" /\ UNCHANGED <<request, found, row>>
    BY <1>3 DEF Load, world
  <2> QED BY <1>1, <1>2, <1>3, <2>1, LoadFields
<1>4. CASE ExecuteStep(w) \/ Escalate(w)
  <2>1. SoundStep(w)
    BY <1>4, ExecuteStepSound, EscalateSound
  <2>2. me[w].pc # "idle" /\ UNCHANGED <<request, found, row>> /\ me[w].pc \in Busy
    BY <2>1 DEF SoundStep, others, Busy, Driving, Escalating
  <2> QED BY <2>1, <2>2 DEF SoundStep, SoundMove
<1>5. CASE Save(w)
  <2>1. me[w].pc # "idle" /\ UNCHANGED <<request, found>>
    BY <1>5 DEF Save, world
  <2> QED BY <1>2, <1>5, <2>1 DEF Save
<1>6. CASE SaveRaises(w)
  <2>1. me[w].pc # "idle" /\ UNCHANGED <<request, found>> /\ me[w].pc = "save"
        /\ (Write(w) \/ row' = row)
    BY <1>6 DEF SaveRaises, world
  <2>2. CASE SaveRaised(w)
    <3>1. PICK m : me' = [me EXCEPT ![w] = m] /\ m.quiet = TRUE
      BY <1>1, <2>2, SaveRaisedFields
    <3> QED BY <2>1, <3>1
  <2>3. CASE me' = [me EXCEPT ![w] = Idle]
    BY <1>2, <2>1, <2>3
  <2> QED BY <1>6, <2>2, <2>3 DEF SaveRaises
<1>7. CASE Crash(w)
  <2>1. me[w].pc # "idle" /\ UNCHANGED <<request, found, row>> /\ me' = [me EXCEPT ![w] = Idle]
    BY <1>7 DEF Crash, world
  <2> QED BY <1>2, <2>1
<1> QED BY <1>3, <1>4, <1>5, <1>6, <1>7

\* The worker that has the run goes on and no other comes.
LEMMA ExclusiveWork ==
    ASSUME DriverInv, Exclusive, NEW w \in Workers,
           Load(w) \/ ExecuteStep(w) \/ Escalate(w) \/ Save(w) \/ SaveRaises(w) \/ Crash(w)
    PROVE  Exclusive'
<1>1. me[w].pc # "idle"
  BY WorkForm
<1>2. PICK m : /\ me' = [me EXCEPT ![w] = m]
               /\ \/ /\ row' = row
                     /\ \/ m.pc \notin Busy
                        \/ m.quiet = TRUE
                        \/ m.run.version = row.version
                        \/ /\ me[w].pc \in Busy /\ m.quiet = me[w].quiet
                           /\ m.run.version = Run(w).version
                  \/ /\ me[w].pc = "save" /\ Write(w) /\ (m = Idle \/ m.quiet = TRUE)
  BY WorkForm
<1>3. /\ me \in [Workers -> WorkerType] /\ me[w] \in WorkerType /\ Run(w) \in RunType
      /\ me[w].quiet \in BOOLEAN /\ PointSound(me[w])
  BY DEF DriverInv, TypeOK, WorkerType, WorkerSound, Run
<1>4. \A v \in Workers : me'[v].pc # "idle" => v = w
  BY <1>1, <1>2, <1>3 DEF Exclusive
<1>5. me'[w] = m
  BY <1>2, <1>3
<1>6. row.date # "due" /\ (me[w].pc \in Busy /\ ~me[w].quiet => Run(w).version = row.version)
  BY <1>1 DEF Exclusive
<1>7. CASE row' = row
  <2>1. m.pc \in Busy /\ ~m.quiet => m.run.version = row.version
    <3>1. CASE m.pc \notin Busy
      BY <3>1
    <3>2. CASE m.quiet = TRUE
      BY <3>2
    <3>3. CASE m.run.version = row.version
      BY <3>3
    <3>4. CASE me[w].pc \in Busy /\ m.quiet = me[w].quiet /\ m.run.version = Run(w).version
      BY <1>6, <3>4
    <3>5. CASE me[w].pc = "save" /\ Write(w) /\ (m = Idle \/ m.quiet = TRUE)
      <4>1. CASE m = Idle
        BY <4>1 DEF Idle, Busy, Driving, Escalating
      <4>2. CASE m.quiet = TRUE
        BY <4>2
      <4> QED BY <3>5, <4>1, <4>2
    <3> QED BY <1>2, <3>1, <3>2, <3>3, <3>4, <3>5
  <2> QED BY <1>4, <1>5, <1>6, <1>7, <2>1 DEF Exclusive, Run
<1>8. CASE me[w].pc = "save" /\ Write(w) /\ (m = Idle \/ m.quiet = TRUE)
  <2>1. row'.date = Run(w).date
    BY <1>3, <1>8, CopyFields DEF Write, RunType
  <2>2. Run(w).date \in {"future", "null"}
    BY <1>3, <1>8 DEF PointSound, Run
  <2>3. ~(m.pc \in Busy /\ ~m.quiet)
    <3>1. CASE m = Idle
      BY <3>1 DEF Idle, Busy, Driving, Escalating
    <3>2. CASE m.quiet = TRUE
      BY <3>2
    <3> QED BY <1>8, <3>1, <3>2
  <2> QED BY <1>4, <1>5, <2>1, <2>2, <2>3 DEF Exclusive, Run
<1> QED BY <1>2, <1>7, <1>8

-----------------------------------------------------------------------------
(* What the calls of a drive change in the world. *)

\* Only OpenIncident opens incidents, only SubmitLegacy hands over, only
\* TagTicket tags and only TriggerEngine starts engine runs; none approves.
LEMMA WorldFrame ==
    ASSUME ext \in ExtType, faults \in Nat, NEW w \in Workers, ExecuteStep(w) \/ Escalate(w)
    PROVE  /\ ext'.approval = ext.approval
           /\ faults' \in {faults, faults + 1}
           /\ ext'.incidents = ext.incidents \/ OpenIncident(w)
           /\ ext'.handovers = ext.handovers \/ SubmitLegacy(w)
           /\ ext'.tagged = ext.tagged \/ TagTicket(w)
           /\ ext'.engine = ext.engine \/ TriggerEngine(w)
<1> DEFINE Same(e) == /\ e.approval = ext.approval /\ e.incidents = ext.incidents
                      /\ e.handovers = ext.handovers /\ e.tagged = ext.tagged
                      /\ e.engine = ext.engine
<1> USE DEF Raises
<1>0. Same(ext)
  OBVIOUS
<1>1. \A t, x : Same([ext EXCEPT !.ticket[t] = x])
  BY DEF ExtType
<1>2. \A x : Same([ext EXCEPT !.record = x])
  BY DEF ExtType
<1>3. \A v, x : Same([ext EXCEPT !.record[v] = x])
  BY DEF ExtType
<1>4. /\ Same([ext EXCEPT !.docs = @ + 1]) /\ Same([ext EXCEPT !.resolved = @ + 1])
  BY DEF ExtType
<1>5. Same(Created)
  BY <1>0, <1>3 DEF Created, ExtType
<1>6. \A run : /\ Same(RecordDeleted(run)) /\ Same(Finalized(run)) /\ Same(Released(run))
               /\ \A x : Same(SetRecord(run, x))
  BY <1>0, <1>2, <1>3 DEF SetRecord, RecordDeleted, Finalized, Released
<1>7. \A t, x : Same(TicketClosed(t, x))
  BY <1>1 DEF TicketClosed
<1>11. CASE DeadlineExceeded(w)
  BY <1>11 DEF DeadlineExceeded
<1>12. CASE CreateTicket(w)
  BY <1>12 DEF CreateTicket, Skip, ReadRaises
<1>13. CASE OrderTicket(w)
  <2>1. PICK t : /\ ext' \in {ext, [ext EXCEPT !.ticket[t] = "open"]}
                 /\ faults' \in {faults, faults + 1}
    BY <1>13 DEF OrderTicket
  <2>2. Same([ext EXCEPT !.ticket[t] = "open"])
    BY <1>1
  <2>3. Same(ext')
    BY <1>0, <2>1, <2>2
  <2> QED BY <2>1, <2>3
<1>14. CASE TagTicket(w)
  <2>1. PICK t : t = me[w].order
    OBVIOUS
  <2>2. /\ [ext EXCEPT !.tagged = @ \cup {t}].approval = ext.approval
        /\ [ext EXCEPT !.tagged = @ \cup {t}].incidents = ext.incidents
        /\ [ext EXCEPT !.tagged = @ \cup {t}].handovers = ext.handovers
        /\ [ext EXCEPT !.tagged = @ \cup {t}].engine = ext.engine
    BY DEF ExtType
  <2>3. ext' \in {ext, [ext EXCEPT !.tagged = @ \cup {t}]} /\ faults' \in {faults, faults + 1}
    BY <1>14, <2>1 DEF TagTicket, Call
  <2> QED BY <1>14, <2>2, <2>3
<1>15. CASE ConfigureResource(w)
  <2>1. faults' \in {faults, faults + 1} /\ Same(ext')
    BY <1>0, <1>5, <1>6, <1>15 DEF ConfigureResource, Call, Skip, NotFound
  <2> QED BY <2>1
<1>16. CASE AwaitApproval(w)
  BY <1>16 DEF AwaitApproval, Skip, ReadRaises
<1>17. CASE ValidateResource(w)
  BY <1>17 DEF ValidateResource, Skip, ReadRaises
<1>18. CASE TriggerEngine(w)
  <2>1. PICK k : k = EngineRunKey(Run(w))
    OBVIOUS
  <2>2. /\ Triggered(k).approval = ext.approval /\ Triggered(k).incidents = ext.incidents
        /\ Triggered(k).handovers = ext.handovers /\ Triggered(k).tagged = ext.tagged
    BY DEF ExtType, Triggered
  <2>3. ext' \in {ext, Triggered(k)} /\ faults' \in {faults, faults + 1}
    BY <1>18, <2>1 DEF TriggerEngine
  <2> QED BY <1>18, <2>2, <2>3
<1>19. CASE PollEngine(w)
  BY <1>19 DEF PollEngine
<1>20. CASE FinalizeResource(w)
  <2>1. faults' \in {faults, faults + 1} /\ Same(ext')
    BY <1>0, <1>6, <1>20 DEF FinalizeResource, Call, Skip, NotFound
  <2> QED BY <2>1
<1>21. CASE MarkDeleted(w)
  <2>1. faults' \in {faults, faults + 1} /\ Same(ext')
    BY <1>0, <1>6, <1>21 DEF MarkDeleted
  <2> QED BY <2>1
<1>22. CASE DeleteRecord(w)
  <2>1. faults' \in {faults, faults + 1} /\ Same(ext')
    BY <1>0, <1>6, <1>22 DEF DeleteRecord, Call
  <2> QED BY <2>1
<1>23. CASE CloseTicket(w)
  <2>1. faults' \in {faults, faults + 1} /\ Same(ext')
    BY <1>0, <1>7, <1>23 DEF CloseTicket, Call, Skip
  <2> QED BY <2>1
<1>24. CASE SubmitLegacy(w)
  <2>1. /\ HandedOver.approval = ext.approval /\ HandedOver.incidents = ext.incidents
        /\ HandedOver.engine = ext.engine /\ HandedOver.tagged = ext.tagged
    BY DEF ExtType, HandedOver
  <2>2. ext' \in {ext, HandedOver} /\ faults' \in {faults, faults + 1}
    BY <1>24 DEF SubmitLegacy, Call, Skip
  <2> QED BY <1>24, <2>1, <2>2
<1>25. CASE OpenIncident(w)
  <2>1. /\ IncidentOpened.approval = ext.approval /\ IncidentOpened.handovers = ext.handovers
        /\ IncidentOpened.engine = ext.engine /\ IncidentOpened.tagged = ext.tagged
    BY DEF ExtType, IncidentOpened
  <2>2. ext' \in {ext, IncidentOpened} /\ faults' \in {faults, faults + 1}
    BY <1>25 DEF OpenIncident, Guarded
  <2> QED BY <1>25, <2>1, <2>2
<1>26. CASE LogDocumentationIncident(w) \/ ResolveDocumentationIncident(w)
  <2>1. faults' \in {faults, faults + 1} /\ Same(ext')
    BY <1>0, <1>4, <1>26 DEF LogDocumentationIncident, ResolveDocumentationIncident, Guarded
  <2> QED BY <2>1
<1>27. CASE CloseUnsuccessful(w)
  <2>1. faults' \in {faults, faults + 1} /\ Same(ext')
    BY <1>0, <1>7, <1>27 DEF CloseUnsuccessful
  <2> QED BY <2>1
<1>28. CASE ReleaseResource(w)
  <2>1. faults' \in {faults, faults + 1} /\ Same(ext')
    BY <1>0, <1>6, <1>28 DEF ReleaseResource, Guarded
  <2> QED BY <2>1
<1> QED BY <1>11, <1>12, <1>13, <1>14, <1>15, <1>16, <1>17, <1>18, <1>19, <1>20, <1>21, <1>22,
           <1>23, <1>24, <1>25, <1>26, <1>27, <1>28 DEF ExecuteStep, Escalate

-----------------------------------------------------------------------------
(* Legacy runs. *)

\* A legacy run has one step.
LEMMA LegacyDrive ==
    ASSUME DriverInv, NEW w \in Workers, request = "LEGACY", ExecuteStep(w)
    PROVE  me[w].pc \in Driving /\ (DeadlineExceeded(w) \/ SubmitLegacy(w))
<1>1. me[w].pc \in Driving => Run(w).step = "SUBMIT_LEGACY"
  BY DrivingFacts, LegacyPlan
<1>2. PointSound(me[w])
  BY DEF DriverInv, WorkerSound
<1>3. me[w].pc \notin {"order", "tag", "delete"}
  BY <1>1, <1>2 DEF PointSound, Run, Driving
<1>4. \A s : At(w, s) => s = "SUBMIT_LEGACY" /\ me[w].pc \in Driving
  BY <1>1 DEF At, Driving
<1>5. ~CreateTicket(w) /\ ~ConfigureResource(w) /\ ~AwaitApproval(w) /\ ~ValidateResource(w)
  BY <1>4 DEF CreateTicket, ConfigureResource, AwaitApproval, ValidateResource
<1>6. ~TriggerEngine(w) /\ ~PollEngine(w) /\ ~FinalizeResource(w) /\ ~MarkDeleted(w)
      /\ ~CloseTicket(w)
  BY <1>4 DEF TriggerEngine, PollEngine, FinalizeResource, MarkDeleted, CloseTicket
<1>7. ~OrderTicket(w) /\ ~TagTicket(w) /\ ~DeleteRecord(w)
  BY <1>3 DEF OrderTicket, TagTicket, DeleteRecord
<1>8. DeadlineExceeded(w) \/ SubmitLegacy(w)
  BY <1>5, <1>6, <1>7 DEF ExecuteStep
<1> QED BY <1>4, <1>8 DEF DeadlineExceeded, SubmitLegacy, Driving

\* It is handed over and COMPLETED, or the call raised.
LEMMA LegacyStep ==
    ASSUME DriverInv, NEW w \in Workers, request = "LEGACY", ExecuteStep(w)
    PROVE  /\ me[w].pc \in Driving
           /\ \E m : /\ me' = [me EXCEPT ![w] = m]
                     /\ m.run.st.ticket = Run(w).st.ticket
                     /\ m.run.st.engine \in {Run(w).st.engine, 0}
                     /\ \/ ext' = ext /\ faults' = faults
                        \/ ext' \in {ext, HandedOver} /\ faults' = faults + 1
                        \/ /\ ext' = HandedOver /\ faults' = faults
                           /\ m.pc = "save" /\ m.run.status = "COMPLETED"
<1>1. me[w].pc \in Driving /\ (DeadlineExceeded(w) \/ SubmitLegacy(w))
  BY LegacyDrive
<1>2. /\ Run(w) \in RunType /\ Run(w).st.attempts <= MaxRetries
      /\ me \in [Workers -> WorkerType]
  BY <1>1, DrivingFacts DEF WorkerType, Run, DriverInv, TypeOK
<1>3. Run(w).step = "SUBMIT_LEGACY" /\ Position("SUBMIT_LEGACY") = 1 /\ Len(Plan) = 1
  BY <1>1, DrivingFacts, LegacyPlan
<1>4. ASSUME StepError(w, Run(w), "unclassified")
      PROVE  \E m : /\ me' = [me EXCEPT ![w] = m]
                    /\ m.run.st.ticket = Run(w).st.ticket
                    /\ m.run.st.engine \in {Run(w).st.engine, 0}
  BY <1>2, <1>4, StepErrorFields DEF SameMarks
<1>5. ASSUME NEW run \in RunType, run.step = "SUBMIT_LEGACY", Advance(w, run),
             run.st.ticket = Run(w).st.ticket, run.st.engine = Run(w).st.engine
      PROVE  \E m : /\ me' = [me EXCEPT ![w] = m]
                    /\ m.run.st.ticket = Run(w).st.ticket
                    /\ m.run.st.engine = Run(w).st.engine
                    /\ m.pc = "save" /\ m.run.status = "COMPLETED"
  <2>1. ~(Position(run.step) < Len(Plan))
    BY <1>3, <1>5
  <2> QED BY <1>2, <1>5, <2>1, AdvanceFields DEF SameMarks
<1>6. CASE DeadlineExceeded(w)
  <2>1. ext' = ext /\ faults' = faults
    BY <1>6 DEF DeadlineExceeded
  <2> QED BY <1>1, <1>4, <1>6, <2>1 DEF DeadlineExceeded
<1>7. CASE SubmitLegacy(w)
  <2>1. CASE Skip(w)
    <3>1. ext' = ext /\ faults' = faults /\ Advance(w, Run(w))
      BY <2>1 DEF Skip
    <3> QED BY <1>1, <1>2, <1>3, <1>5, <3>1
  <2> DEFINE run == [Run(w) EXCEPT !.st.submitted = TRUE]
  <2>2. /\ run.step = "SUBMIT_LEGACY" /\ run.st.ticket = Run(w).st.ticket
        /\ run.st.engine = Run(w).st.engine
    BY <1>2, <1>3 DEF RunType, StateType
  <2>3. run \in RunType
    BY <1>2, RunStateUpdates
  <2>4. CASE Call(w, "legacy", HandedOver, run)
    <3> HIDE DEF run
    <3>1. CASE ext' = HandedOver /\ Advance(w, run) /\ UNCHANGED faults
      BY <1>1, <1>5, <2>2, <2>3, <3>1
    <3>2. CASE /\ Raises("legacy") /\ ext' \in {ext, HandedOver}
               /\ StepError(w, Run(w), "unclassified")
      <4>1. faults' = faults + 1
        BY <3>2 DEF Raises
      <4> QED BY <1>1, <1>4, <3>2, <4>1
    <3> QED BY <2>4, <3>1, <3>2 DEF Call
  <2> QED BY <1>7, <2>1, <2>4 DEF SubmitLegacy
<1> QED BY <1>1, <1>6, <1>7

-----------------------------------------------------------------------------
(* Sole is an invariant. *)

\* No step gives a legacy run what a callback could be about.
LEMMA NoCallbackStep ==
    ASSUME DriverInv, NoCallback, [Next]_vars
    PROVE  NoCallback'
<1>1. me \in [Workers -> WorkerType] /\ row \in RunType
  BY DEF DriverInv, TypeOK
<1> DEFINE Bare(run) == run.st.ticket = 0 /\ run.st.engine = 0
<1>2. Bare(Blank) /\ Idle.run = Blank
  BY DEF Blank, NewState, Idle
<1>3. request \in {"none", "LEGACY"} =>
         ~found /\ Bare(row) /\ \A w \in Workers : Bare(me[w].run)
  BY DEF NoCallback, Copies, Run
<1>4. SUFFICES ASSUME request' \in {"none", "LEGACY"}
               PROVE  ~found' /\ Bare(row') /\ \A w \in Workers : Bare(me'[w].run)
  BY DEF NoCallback, Copies, Run
<1>5. CASE UNCHANGED vars
  BY <1>3, <1>4, <1>5 DEF vars
<1>6. CASE \E kind \in Requests : Trigger(kind)
  <2>1. PICK kind \in Requests : Trigger(kind)
    BY <1>6
  <2>2. request' = kind /\ request = "none" /\ me' = me /\ found' = found
    BY <2>1 DEF Trigger
  <2>3. kind # "AUTOMATION"
    BY <1>4, <2>2
  <2>4. row'.st = NewState(kind)
    BY <2>1 DEF Trigger, Blank
  <2> QED BY <1>3, <2>2, <2>3, <2>4 DEF NewState
<1>7. ASSUME NEW w \in Workers, NEW m, me' = [me EXCEPT ![w] = m], Bare(m.run),
             UNCHANGED <<request, found>>, row' = row \/ Bare(row')
      PROVE  ~found' /\ Bare(row') /\ \A v \in Workers : Bare(me'[v].run)
  <2>1. \A v \in Workers : me'[v] = IF v = w THEN m ELSE me[v]
    BY <1>1, <1>7
  <2> QED BY <1>3, <1>4, <1>7, <2>1
<1>8. ASSUME NEW w \in Workers, Work(w) \/ SaveRaises(w) \/ Crash(w)
      PROVE  ~found' /\ Bare(row') /\ \A v \in Workers : Bare(me'[v].run)
  <2>1. Run(w) \in RunType /\ me[w] \in WorkerType
    BY <1>1 DEF WorkerType, Run
  <2>2. ASSUME request \in {"none", "LEGACY"} PROVE Bare(Run(w)) /\ Bare(row)
    BY <1>3, <2>2 DEF Run
  <2>3. ASSUME Write(w), request \in {"none", "LEGACY"} PROVE Bare(row')
    BY <2>1, <2>2, <2>3, CopyFields DEF Write
  <2>4. CASE Claim(w)
    <3>1. UNCHANGED <<request, found>> /\ row' = [row EXCEPT !.date = "future"]
      BY <2>4 DEF Claim, world
    <3>2. row'.st = row.st
      BY <1>1, <3>1 DEF RunType
    <3> DEFINE m == [me[w] EXCEPT !.pc = "claimed"]
    <3>3. me' = [me EXCEPT ![w] = m]
      BY <2>4 DEF Claim
    <3>4. m.run = Run(w)
      BY <2>1 DEF WorkerType, Run
    <3> HIDE DEF m
    <3> QED BY <1>4, <1>7, <2>2, <3>1, <3>2, <3>3, <3>4
  <2>5. CASE Load(w)
    <3>1. UNCHANGED <<request, found, row>>
      BY <2>5 DEF Load, world
    <3>2. PICK m : me' = [me EXCEPT ![w] = m] /\ (m = Idle \/ m.run.st = row.st)
      BY <1>1, <2>5, LoadFields
    <3> QED BY <1>2, <1>4, <1>7, <2>2, <3>1, <3>2
  <2>6. CASE ExecuteStep(w)
    <3>1. SoundStep(w)
      BY <2>6, ExecuteStepSound
    <3>2. UNCHANGED <<request, found, row>> /\ me[w].pc \in Busy
      BY <3>1 DEF SoundStep, others
    <3>3. request = "LEGACY"
      <4>1. request = "none" => me[w] = Idle
        BY DEF DriverInv, RowSound
      <4> QED BY <1>4, <3>2, <4>1 DEF Idle, Busy, Driving, Escalating
    <3>4. PICK m : /\ me' = [me EXCEPT ![w] = m]
                   /\ m.run.st.ticket = Run(w).st.ticket
                   /\ m.run.st.engine \in {Run(w).st.engine, 0}
      BY <2>6, <3>3, LegacyStep
    <3> QED BY <1>7, <2>2, <3>2, <3>3, <3>4
  <2>7. CASE Escalate(w)
    <3>1. UNCHANGED <<request, found, row>> /\ me[w].pc \in Busy
      BY <2>7, EscalateSound DEF SoundStep, others
    <3>2. PICK m : me' = [me EXCEPT ![w] = m] /\ m.run.st.ticket = Run(w).st.ticket
                   /\ m.run.st.engine = Run(w).st.engine
      BY <1>1, <2>7, EscalateFields
    <3> QED BY <1>4, <1>7, <2>2, <3>1, <3>2
  <2>8. CASE Save(w)
    <3>1. UNCHANGED <<request, found>> /\ me' = [me EXCEPT ![w] = Idle]
          /\ (Write(w) \/ row' = row)
      BY <2>8 DEF Save, world
    <3> QED BY <1>2, <1>4, <1>7, <2>3, <3>1
  <2>9. CASE SaveRaises(w)
    <3>1. UNCHANGED <<request, found>> /\ (Write(w) \/ row' = row)
      BY <2>9 DEF SaveRaises, world
    <3>2. PICK m : me' = [me EXCEPT ![w] = m] /\ (m = Idle \/ m.run.st = Run(w).st)
      <4>1. CASE SaveRaised(w)
        BY <1>1, <4>1, SaveRaisedFields
      <4>2. CASE me' = [me EXCEPT ![w] = Idle]
        BY <4>2
      <4> QED BY <2>9, <4>1, <4>2 DEF SaveRaises
    <3> QED BY <1>2, <1>4, <1>7, <2>2, <2>3, <3>1, <3>2
  <2>10. CASE Crash(w)
    <3>1. UNCHANGED <<request, found, row>> /\ me' = [me EXCEPT ![w] = Idle]
      BY <2>10 DEF Crash, world
    <3> QED BY <1>2, <1>7, <3>1
  <2> QED BY <1>8, <2>4, <2>5, <2>6, <2>7, <2>8, <2>9, <2>10 DEF Work
<1>9. CASE \E t \in TicketIds, answer \in {"approved", "rejected"} : DecideApproval(t, answer)
  <2>1. UNCHANGED <<request, found, row, me>>
    BY <1>9 DEF DecideApproval
  <2> QED BY <1>3, <1>4, <2>1
<1>10. CASE \E k \in EngineIds : FinishEngine(k)
  <2>1. UNCHANGED <<request, found, row, me>>
    BY <1>10 DEF FinishEngine
  <2> QED BY <1>3, <1>4, <2>1
<1>11. CASE Elapse
  <2>1. UNCHANGED <<request, found, me>> /\ row' = [row EXCEPT !.date = "due"]
    BY <1>11 DEF Elapse, world
  <2>2. row'.st = row.st
    BY <1>1, <2>1 DEF RunType
  <2> QED BY <1>3, <1>4, <2>1, <2>2
<1>12. CASE Overrun
  <2>1. UNCHANGED <<request, found, row, me>>
    BY <1>12 DEF Overrun, world
  <2> QED BY <1>3, <1>4, <2>1
<1>13. CASE FindRun
  BY <1>3, <1>4, <1>13 DEF FindRun
<1>14. CASE WakeRun
  BY <1>3, <1>4, <1>14 DEF WakeRun
<1> QED BY <1>5, <1>6, <1>8, <1>9, <1>10, <1>11, <1>12, <1>13, <1>14 DEF Next

\* A worker that is not idle keeps the others away, while leases cover drives.
LEMMA ExclusiveStep ==
    ASSUME LeaseCovers, DriverInv, NoCallback, Unwoken => Exclusive, [Next]_vars
    PROVE  Unwoken' => Exclusive'
<1>1. me \in [Workers -> WorkerType] /\ row \in RunType
  BY DEF DriverInv, TypeOK
<1> DEFINE AllIdle == \A w \in Workers : me[w].pc = "idle"
<1>2. CASE UNCHANGED vars
  BY <1>2 DEF vars, Unwoken, Exclusive, Run
<1>3. CASE \E kind \in Requests : Trigger(kind)
  <2>1. request = "none" /\ me' = me
    BY <1>3 DEF Trigger
  <2>2. AllIdle
    BY <2>1 DEF DriverInv, RowSound, Idle
  <2> QED BY <2>1, <2>2 DEF Exclusive
<1>4. SUFFICES ASSUME request' = request, Unwoken, Exclusive
               PROVE  Exclusive'
  <2>1. request' = request \/ UNCHANGED vars \/ \E kind \in Requests : Trigger(kind)
    <3>1. ASSUME NEW w \in Workers, Work(w) \/ SaveRaises(w) \/ Crash(w) PROVE request' = request
      <4>1. CASE Claim(w)
        BY <4>1 DEF Claim, world
      <4> QED BY <3>1, <4>1, WorkForm DEF Work
    <3>2. ASSUME Next, ~\E kind \in Requests : Trigger(kind),
                 ~\E w \in Workers : Work(w) \/ SaveRaises(w) \/ Crash(w)
          PROVE request' = request
      BY <3>2 DEF Next, DecideApproval, FinishEngine, Elapse, Overrun, FindRun, WakeRun, world
    <3> QED BY <3>1, <3>2
  <2> QED BY <1>2, <1>3, <2>1 DEF Unwoken
<1>5. ASSUME NEW w \in Workers, Work(w) \/ SaveRaises(w) \/ Crash(w)
      PROVE  Exclusive'
  <2>1. CASE Claim(w)
    <3>1. row.date = "due" /\ row' = [row EXCEPT !.date = "future"]
          /\ me' = [me EXCEPT ![w].pc = "claimed"]
      BY <2>1 DEF Claim
    <3>2. AllIdle
      BY <1>4, <3>1 DEF Exclusive
    <3>3. \A v \in Workers : me'[v].pc = IF v = w THEN "claimed" ELSE "idle"
      BY <1>1, <3>1, <3>2 DEF WorkerType
    <3>4. row'.date = "future" /\ "claimed" \notin Busy
      BY <1>1, <3>1 DEF RunType, Busy, Driving, Escalating
    <3> QED BY <3>3, <3>4 DEF Exclusive
  <2> QED BY <1>4, <1>5, <2>1, ExclusiveWork DEF Work
<1>6. CASE \E t \in TicketIds, answer \in {"approved", "rejected"} : DecideApproval(t, answer)
  <2>1. UNCHANGED <<row, me>>
    BY <1>6 DEF DecideApproval
  <2> QED BY <1>4, <2>1 DEF Exclusive, Run
<1>7. CASE \E k \in EngineIds : FinishEngine(k)
  <2>1. UNCHANGED <<row, me>>
    BY <1>7 DEF FinishEngine
  <2> QED BY <1>4, <2>1 DEF Exclusive, Run
<1>8. CASE Elapse
  <2>1. AllIdle /\ me' = me
    BY <1>8 DEF Elapse
  <2> QED BY <2>1 DEF Exclusive
<1>9. CASE Overrun \/ FindRun
  <2>1. UNCHANGED <<row, me>>
    BY <1>9 DEF Overrun, FindRun
  <2> QED BY <1>4, <2>1 DEF Exclusive, Run
<1>10. CASE WakeRun
  <2>1. found => wakes < MaxWakes /\ wakes \in Nat
    BY DEF DriverInv, TypeOK
  <2>2. found => request # "LEGACY"
    BY DEF NoCallback
  <2> QED BY <1>4, <1>10, <2>1, <2>2 DEF WakeRun, Unwoken
<1>11. Unwoken'
  BY <1>4 DEF Unwoken
<1> QED BY <1>2, <1>3, <1>5, <1>6, <1>7, <1>8, <1>9, <1>10, <1>11 DEF Next

\* What holds of every run while leases cover drives: one worker at a time has
\* the run, and its copy is the row's version until a save() raised.
THEOREM DrivesAreSole == ASSUME LeaseCovers PROVE Spec => []Sole
<1>1. Init => Sole
  <2>1. ASSUME Init PROVE NoCallback
    BY <2>1 DEF Init, NoCallback, Copies, Run, Idle, Blank, NewState
  <2>2. ASSUME Init PROVE Exclusive
    BY <2>2 DEF Init, Exclusive, Idle
  <2> QED BY <2>1, <2>2 DEF Sole
<1>2. DriverInv /\ Sole /\ [Next]_vars => Sole'
  BY NoCallbackStep, ExclusiveStep DEF Sole
<1> QED BY <1>1, <1>2, DriverInvariant, PTL DEF Spec

-----------------------------------------------------------------------------
(* Steps of the world, and of runs that are over. *)

\* A run that is over stays as it is.
LEMMA OverStays ==
    ASSUME DriverInv, [Next]_vars, row.status \in Terminal
    PROVE  row'.status = row.status
<1>1. row \in RunType /\ row.status # "ABSENT" /\ row.status \notin Active
  BY DEF DriverInv, TypeOK, Terminal, Active
<1>2. ASSUME NEW w \in Workers, me[w].pc = "save", Write(w) PROVE FALSE
  <2>1. row.version = Run(w).version
    BY <1>2 DEF Write, VersionMatches
  <2>2. Tracks(me[w])
    BY <1>2 DEF DriverInv, WorkerSound, Busy
  <2> QED BY <1>1, <2>1, <2>2 DEF Tracks, Run
<1>3. \A d \in {"future", "due"} : [row EXCEPT !.date = d].status = row.status
  BY <1>1, CopyFields
<1> QED BY <1>1, <1>2, <1>3, RowSteps

\* The steps that are no worker's.
LEMMA WorldStep ==
    ASSUME DriverInv, [Next]_vars, ~\E w \in Workers : Work(w) \/ SaveRaises(w) \/ Crash(w)
    PROVE  /\ UNCHANGED <<me, crashes, faults, dbFaults>>
           /\ ext'.handovers = ext.handovers /\ ext'.incidents = ext.incidents
           /\ ext'.tagged = ext.tagged
           /\ request' = request \/ request = "none"
           /\ \/ row'.st = row.st /\ row'.step = row.step /\ row'.status = row.status
              \/ /\ request = "none" /\ row'.st = NewState(request') /\ row'.step = "none"
                 /\ row'.status = "PENDING" /\ ext'.engine = ext.engine
<1>1. ext \in ExtType /\ row \in RunType
  BY DEF DriverInv, TypeOK
<1>2. CASE UNCHANGED vars
  BY <1>2 DEF vars
<1>3. CASE \E kind \in Requests : Trigger(kind)
  <2>1. PICK kind \in Requests : Trigger(kind)
    BY <1>3
  <2>2. PICK x, y : ext' = [[ext EXCEPT !.ticket[1] = x] EXCEPT !.record["given"] = y]
    BY <2>1 DEF Trigger
  <2>3. /\ ext'.handovers = ext.handovers /\ ext'.incidents = ext.incidents
        /\ ext'.tagged = ext.tagged /\ ext'.engine = ext.engine
    BY <1>1, <2>2 DEF ExtType
  <2>4. row' = [Blank EXCEPT !.status = "PENDING", !.date = "due", !.st = NewState(kind)]
    BY <2>1 DEF Trigger
  <2>5. row'.status = "PENDING" /\ row'.st = NewState(kind) /\ row'.step = "none"
    BY <2>4 DEF Blank
  <2> QED BY <2>1, <2>3, <2>5 DEF Trigger
<1>4. CASE \E t \in TicketIds, answer \in {"approved", "rejected"} : DecideApproval(t, answer)
  <2>1. PICK t, answer : DecideApproval(t, answer)
    BY <1>4
  <2>2. ext' = [ext EXCEPT !.approval[t] = answer]
    BY <2>1 DEF DecideApproval
  <2>3. /\ ext'.handovers = ext.handovers /\ ext'.incidents = ext.incidents
        /\ ext'.tagged = ext.tagged
    BY <1>1, <2>2 DEF ExtType
  <2> QED BY <2>1, <2>3 DEF DecideApproval
<1>5. CASE \E k \in EngineIds : FinishEngine(k)
  <2>1. PICK k : FinishEngine(k)
    BY <1>5
  <2>2. PICK end : ext' = [ext EXCEPT !.engine[k] = end]
    BY <2>1 DEF FinishEngine
  <2>3. /\ ext'.handovers = ext.handovers /\ ext'.incidents = ext.incidents
        /\ ext'.tagged = ext.tagged
    BY <1>1, <2>2 DEF ExtType
  <2> QED BY <2>1, <2>3 DEF FinishEngine
<1>6. CASE Elapse
  <2>1. row' = [row EXCEPT !.date = "due"]
    BY <1>6 DEF Elapse
  <2>2. row'.st = row.st /\ row'.step = row.step /\ row'.status = row.status
    BY <1>1, <2>1, CopyFields
  <2> QED BY <1>6, <2>2 DEF Elapse, world
<1>7. CASE Overrun \/ FindRun
  BY <1>7 DEF Overrun, FindRun, world
<1>8. CASE WakeRun
  <2>1. row' = row \/ row' = [row EXCEPT !.date = "due"]
    BY <1>8 DEF WakeRun
  <2>2. CASE row' = [row EXCEPT !.date = "due"]
    <3>1. row'.st = row.st /\ row'.step = row.step /\ row'.status = row.status
      BY <1>1, <2>2, CopyFields
    <3> QED BY <1>8, <3>1 DEF WakeRun
  <2>3. CASE row' = row
    BY <1>8, <2>3 DEF WakeRun
  <2> QED BY <2>1, <2>2, <2>3
<1> QED BY <1>2, <1>3, <1>4, <1>5, <1>6, <1>7, <1>8 DEF Next

-----------------------------------------------------------------------------
(* Handovers. *)

\* Only a save can end a delivery.
LEMMA DeliveredKept ==
    ASSUME DriverInv, [Next]_vars, Delivered, NEW w \in Workers, NEW m,
           me' = [me EXCEPT ![w] = m], ~(me[w].pc = "save" /\ Run(w).status = "COMPLETED")
    PROVE  Delivered'
<1>1. me \in [Workers -> WorkerType]
  BY DEF DriverInv, TypeOK
<1>2. CASE row.status \in Terminal
  BY <1>2, OverStays DEF Delivered
<1>3. CASE \E v \in Workers : me[v].pc = "save" /\ Run(v).status = "COMPLETED"
  <2>1. PICK v \in Workers : me[v].pc = "save" /\ Run(v).status = "COMPLETED"
    BY <1>3
  <2>2. v # w
    BY <2>1
  <2>3. me'[v] = me[v]
    BY <1>1, <2>2
  <2> QED BY <2>1, <2>3 DEF Delivered, Run
<1> QED BY <1>2, <1>3 DEF Delivered

\* Only the step of a legacy run hands over.
LEMMA HandoverIsLegacy ==
    ASSUME DriverInv, NEW w \in Workers, SubmitLegacy(w)
    PROVE  request = "LEGACY"
<1>1. me[w].pc \in Driving /\ Run(w).step = "SUBMIT_LEGACY"
  BY DEF SubmitLegacy, At, Driving
<1>2. "SUBMIT_LEGACY" \in PlanSteps
  BY <1>1, DrivingFacts
<1> QED BY <1>2, ResourcePlan, AutomationPlan

\* Sums grow with what they are sums of.
LEMMA SumGrows ==
    \A a, b, c, x, y, z \in Nat :
        /\ a + b + c \in Nat
        /\ x >= a /\ y >= b /\ z >= c => x + y + z >= a + b + c
OBVIOUS

\* A count stays within its cost when neither the cost nor what is allowed
\* beyond it shrinks, or when the cost grows.
LEMMA CountKept ==
    ASSUME NEW n \in Nat, NEW c \in Nat, NEW d \in Nat, NEW x \in BOOLEAN, NEW y \in BOOLEAN,
           n <= c + (IF x THEN 1 ELSE 0), (d >= c /\ (x => y)) \/ d > c
    PROVE  n <= d + (IF y THEN 1 ELSE 0)
<1>1. CASE x = TRUE /\ y = TRUE
  BY <1>1
<1>2. CASE x = FALSE
  BY <1>2
<1>3. CASE x = TRUE /\ y = FALSE
  BY <1>3
<1> QED BY <1>1, <1>2, <1>3

\* Every step pays for the handover it makes.
LEMMA HandoversStep ==
    ASSUME DriverInv, Sole, HandoversCounted, [Next]_vars
    PROVE  HandoversCounted'
<1>1. /\ me \in [Workers -> WorkerType] /\ ext \in ExtType
      /\ crashes \in Nat /\ faults \in Nat /\ dbFaults \in Nat /\ ext.handovers \in Nat
  BY DEF DriverInv, TypeOK, ExtType
<1>2. /\ request # "LEGACY" => ext.handovers = 0
      /\ ext.handovers <= crashes + faults + dbFaults + (IF Delivered THEN 1 ELSE 0)
  BY DEF HandoversCounted
<1>3. ASSUME ext'.handovers = ext.handovers, request' = request \/ request = "none",
             crashes' \in Nat, faults' \in Nat, dbFaults' \in Nat,
             \/ /\ Delivered => Delivered'
                /\ crashes' + faults' + dbFaults' >= crashes + faults + dbFaults
             \/ crashes' + faults' + dbFaults' > crashes + faults + dbFaults
      PROVE  HandoversCounted'
  <2>1. ext'.handovers <= crashes' + faults' + dbFaults' + (IF Delivered' THEN 1 ELSE 0)
    <3>1. PICK c \in Nat : c = crashes + faults + dbFaults
      BY <1>1
    <3>2. PICK d \in Nat : d = crashes' + faults' + dbFaults'
      <4>1. crashes' \in Nat /\ faults' \in Nat /\ dbFaults' \in Nat
        BY <1>3
      <4> QED BY <4>1, SumGrows
    <3>3. Delivered \in BOOLEAN /\ Delivered' \in BOOLEAN
      BY DEF Delivered
    <3>4. (d >= c /\ (Delivered => Delivered')) \/ d > c
      BY <1>3, <3>1, <3>2
    <3>5. ext.handovers <= c + (IF Delivered THEN 1 ELSE 0)
      BY <1>2, <3>1
    <3>6. ext.handovers <= d + (IF Delivered' THEN 1 ELSE 0)
      BY <1>1, <3>3, <3>4, <3>5, CountKept
    <3> QED BY <1>3, <3>2, <3>6
  <2>2. request' # "LEGACY" => ext'.handovers = 0
    BY <1>2, <1>3
  <2> QED BY <2>1, <2>2 DEF HandoversCounted
<1>4. CASE ~\E w \in Workers : Work(w) \/ SaveRaises(w) \/ Crash(w)
  <2>1. /\ UNCHANGED <<me, crashes, faults, dbFaults>> /\ ext'.handovers = ext.handovers
        /\ request' = request \/ request = "none"
    BY <1>4, WorldStep
  <2>2. Delivered => Delivered'
    BY <2>1, OverStays DEF Delivered, Run
  <2> QED BY <1>1, <1>3, <2>1, <2>2
<1>5. ASSUME NEW w \in Workers, Work(w) \/ SaveRaises(w) \/ Crash(w) PROVE HandoversCounted'
  <2>1. CASE Claim(w) \/ Load(w)
    <3>1. /\ UNCHANGED <<request, ext, faults, crashes, dbFaults>>
          /\ me[w].pc \in {"idle", "claimed"}
      BY <2>1 DEF Claim, Load, world
    <3>2. PICK m : me' = [me EXCEPT ![w] = m]
      <4>1. CASE Claim(w)
        <5>1. me' = [me EXCEPT ![w] = [me[w] EXCEPT !.pc = "claimed"]]
          BY <4>1 DEF Claim
        <5> QED BY <5>1
      <4>2. CASE Load(w)
        BY <4>2, WorkForm
      <4> QED BY <2>1, <4>1, <4>2
    <3>3. Delivered => Delivered'
      BY <3>1, <3>2, DeliveredKept
    <3> QED BY <1>1, <1>3, <3>1, <3>3
  <2>2. CASE ExecuteStep(w) /\ request = "LEGACY"
    <3>1. UNCHANGED <<request, row, crashes, dbFaults>> /\ me[w].pc # "idle"
      BY <2>2, ExecuteStepSound DEF SoundStep, others, Busy, Driving, Escalating
    <3>2. me[w].pc \in Driving
      BY <2>2, LegacyStep
    <3>3. PICK m : /\ me' = [me EXCEPT ![w] = m]
                   /\ \/ ext' = ext /\ faults' = faults
                      \/ ext' \in {ext, HandedOver} /\ faults' = faults + 1
                      \/ /\ ext' = HandedOver /\ faults' = faults
                         /\ m.pc = "save" /\ m.run.status = "COMPLETED"
      BY <2>2, LegacyStep
    <3>4. Delivered => Delivered'
      BY <3>2, <3>3, DeliveredKept DEF Driving
    <3>5. HandedOver.handovers = ext.handovers + 1
      BY <1>1 DEF HandedOver, ExtType
    <3>6. CASE ext' = ext /\ faults' = faults
      BY <1>1, <1>3, <3>1, <3>4, <3>6
    <3>7. CASE ext' \in {ext, HandedOver} /\ faults' = faults + 1
      <4>1. ext'.handovers <= ext.handovers + 1 /\ ext'.handovers \in Nat
        BY <1>1, <3>5, <3>7
      <4>2. ext'.handovers <= crashes' + faults' + dbFaults' + (IF Delivered' THEN 1 ELSE 0)
        BY <1>1, <1>2, <3>1, <3>4, <3>7, <4>1
      <4> QED BY <2>2, <3>1, <4>2 DEF HandoversCounted
    <3>8. CASE /\ ext' = HandedOver /\ faults' = faults
               /\ m.pc = "save" /\ m.run.status = "COMPLETED"
      <4>1. Exclusive
        BY <2>2 DEF Sole, Unwoken
      <4>2. /\ Run(w).version = row.version
            /\ \A v \in Workers : me[v].pc # "idle" => v = w
        <5>1. ~me[w].quiet
          BY <3>2, DrivingFacts
        <5> QED BY <3>1, <3>2, <4>1, <5>1 DEF Exclusive, Busy
      <4>3. row.status \in Active
        BY <3>2, <4>2, DrivingFacts DEF Tracks, Run
      <4>4. ~Delivered
        BY <3>2, <4>2, <4>3 DEF Delivered, Active, Terminal, Driving
      <4>5. Delivered'
        <5>1. me'[w] = m
          BY <1>1, <3>3
        <5> QED BY <3>8, <5>1 DEF Delivered, Run
      <4>6. ext'.handovers <= crashes' + faults' + dbFaults' + (IF Delivered' THEN 1 ELSE 0)
        BY <1>1, <1>2, <3>1, <3>5, <3>8, <4>4, <4>5
      <4> QED BY <2>2, <3>1, <4>6 DEF HandoversCounted
    <3> QED BY <3>3, <3>6, <3>7, <3>8
  <2>3. CASE (ExecuteStep(w) /\ request # "LEGACY") \/ Escalate(w)
    <3>1. UNCHANGED <<request, row, crashes, dbFaults>>
      BY <2>3, ExecuteStepSound, EscalateSound DEF SoundStep, others
    <3>2. faults' \in {faults, faults + 1} /\ ext'.handovers = ext.handovers
      <4>1. ~SubmitLegacy(w)
        <5>1. CASE request # "LEGACY"
          BY <5>1, HandoverIsLegacy
        <5>2. CASE Escalate(w)
          BY <1>1, <5>2, EscalateFields DEF SubmitLegacy, At, Escalating
        <5> QED BY <2>3, <5>1, <5>2
      <4> QED BY <1>1, <2>3, <4>1, WorldFrame
    <3>3. CASE request # "LEGACY"
      <4>1. ext'.handovers <= crashes' + faults' + dbFaults' + (IF Delivered' THEN 1 ELSE 0)
        BY <1>1, <1>2, <3>1, <3>2, <3>3
      <4> QED BY <1>2, <3>1, <3>2, <3>3, <4>1 DEF HandoversCounted
    <3>4. CASE Escalate(w)
      <4>1. Delivered => Delivered'
        BY <1>1, <3>4, EscalateFields, DeliveredKept DEF Escalating
      <4>2. faults' \in Nat /\ faults' >= faults
        BY <1>1, <3>2
      <4>3. crashes' + faults' + dbFaults' >= crashes + faults + dbFaults
        <5>1. crashes' = crashes /\ dbFaults' = dbFaults
          BY <3>1
        <5>2. crashes \in Nat /\ dbFaults \in Nat /\ faults \in Nat
          BY <1>1
        <5>3. /\ crashes' \in Nat /\ dbFaults' \in Nat /\ faults' \in Nat
              /\ crashes' >= crashes /\ dbFaults' >= dbFaults /\ faults' >= faults
          BY <4>2, <5>1, <5>2
        <5> QED BY <5>2, <5>3, SumGrows
      <4> QED BY <1>1, <1>3, <3>1, <3>2, <4>1, <4>2, <4>3
    <3> QED BY <2>3, <3>3, <3>4
  <2>4. CASE Save(w)
    <3>1. /\ UNCHANGED <<request, ext, faults, crashes, dbFaults>>
          /\ me' = [me EXCEPT ![w] = Idle] /\ me[w].pc = "save"
          /\ Write(w) \/ ~VersionMatches(w)
      BY <2>4 DEF Save, world
    <3>2. CASE Run(w).status = "COMPLETED" /\ request = "LEGACY"
      <4>1. Exclusive
        BY <3>2 DEF Sole, Unwoken
      <4>2. ~me[w].quiet /\ Run(w) \in RunType
        BY <1>1, <3>2 DEF DriverInv, WorkerSound, PointSound, Run, WorkerType
      <4>3. Run(w).version = row.version
        BY <3>1, <4>1, <4>2 DEF Exclusive, Busy
      <4>4. row'.status = "COMPLETED"
        <5>1. PICK n : row' = [Run(w) EXCEPT !.version = n]
          BY <3>1, <4>3 DEF Write, VersionMatches
        <5> QED BY <3>2, <4>2, <5>1, CopyFields
      <4>5. Delivered'
        BY <4>4 DEF Delivered, Terminal
      <4> QED BY <1>1, <1>3, <3>1, <4>5
    <3>3. CASE Run(w).status # "COMPLETED"
      <4>1. Delivered => Delivered'
        BY <3>1, <3>3, DeliveredKept
      <4> QED BY <1>1, <1>3, <3>1, <4>1
    <3>4. CASE request # "LEGACY"
      <4>1. ext'.handovers <= crashes' + faults' + dbFaults' + (IF Delivered' THEN 1 ELSE 0)
        BY <1>1, <1>2, <3>1, <3>4
      <4> QED BY <1>2, <3>1, <3>4, <4>1 DEF HandoversCounted
    <3> QED BY <3>2, <3>3, <3>4
  <2>5. CASE SaveRaises(w)
    <3>1. UNCHANGED <<request, ext, faults, crashes>> /\ dbFaults' = dbFaults + 1
      BY <2>5 DEF SaveRaises, world
    <3> QED BY <1>1, <1>3, <3>1
  <2>6. CASE Crash(w)
    <3>1. UNCHANGED <<request, ext, faults, dbFaults>> /\ crashes' = crashes + 1
      BY <2>6 DEF Crash, world
    <3> QED BY <1>1, <1>3, <3>1
  <2> QED BY <1>5, <2>1, <2>2, <2>3, <2>4, <2>5, <2>6 DEF Work
<1> QED BY <1>4, <1>5

\* One handover, and one more at most for every crash and every call that
\* failed (submit() is not keyed; submitted is saved with the run).
THEOREM HandoversAreBounded == ASSUME LeaseCovers PROVE Spec => []HandoversBounded
<1>1. Init => HandoversCounted
  <2>1. ASSUME Init PROVE ~Delivered
    BY <2>1 DEF Init, Delivered, Blank, Idle, Terminal
  <2>2. ASSUME Init PROVE ext.handovers = 0 /\ crashes = 0 /\ faults = 0 /\ dbFaults = 0
    BY <2>2 DEF Init
  <2> QED BY <2>1, <2>2 DEF HandoversCounted
<1>2. DriverInv /\ Sole /\ HandoversCounted /\ [Next]_vars => HandoversCounted'
  BY HandoversStep
<1>3. DriverInv /\ HandoversCounted => HandoversBounded
  <2>1. ASSUME DriverInv
        PROVE  crashes \in Nat /\ faults \in Nat /\ dbFaults \in Nat /\ ext.handovers \in Nat
    BY <2>1 DEF DriverInv, TypeOK, ExtType
  <2> QED BY <2>1 DEF HandoversCounted, HandoversBounded
<1> QED BY <1>1, <1>2, <1>3, DriverInvariant, DrivesAreSole, PTL DEF Spec

-----------------------------------------------------------------------------
(* How a step leaves a worker. *)

TicketOf(w, t) ==
    \/ t = Run(w).st.ticket
    \/ t \in ext.tagged
    \/ TagTicket(w) /\ t = me[w].order

StepOf(w, s) ==
    \/ s \in {Run(w).step, "none"}
    \/ /\ Follows(Run(w).step, s)
       /\ Run(w).step = "AWAIT_APPROVAL" => Approved(Run(w).st.ticket)

\* Nothing but an approver's answer rejects or lets a run pass, a ticket is the
\* one found or ordered, and one is ordered when none was found.
Outcome(w, m) ==
    /\ m.quiet = me[w].quiet
    /\ m.pc = "incident" => m.run.status = "FAILED"
    /\ m.run.status = "REJECTED" =>
          Run(w).step = "AWAIT_APPROVAL" /\ ext.approval[Run(w).st.ticket] = "rejected"
    /\ m.pc = "order" => ext.tagged = {} /\ me[w].pc = "step"
    /\ m.pc = "tag" => me[w].pc = "order"
    /\ TicketOf(w, m.run.st.ticket)
    /\ StepOf(w, m.run.step)

Leaves(w) == \E m : me' = [me EXCEPT ![w] = m] /\ Outcome(w, m)

\* A step that is done.
LEMMA AdvanceLeaves ==
    ASSUME DriverInv, NEW w \in Workers, me[w].pc \in Driving, NEW run, Ready(w, run),
           TicketOf(w, run.st.ticket), Advance(w, run),
           Run(w).step = "AWAIT_APPROVAL" => Approved(Run(w).st.ticket)
    PROVE  Leaves(w)
<1>1. /\ run \in RunType /\ run.step = Run(w).step /\ run.status = "RUNNING"
      /\ me \in [Workers -> WorkerType] /\ Run(w).step \in PlanSteps
  BY DrivingFacts DEF Ready, DriverInv, TypeOK
<1>2. PICK m : /\ me' = [me EXCEPT ![w] = m] /\ m.quiet = me[w].quiet
               /\ SameMarks(m.run, run)
               /\ \/ /\ m.pc = "step" /\ m.run.status = run.status
                     /\ Position(run.step) < Len(Plan)
                     /\ m.run.step = Plan[Position(run.step) + 1]
                  \/ /\ m.pc = "save" /\ m.run.status = "COMPLETED" /\ m.run.step = "none"
  BY <1>1, AdvanceFields
<1>3. m.pc \in {"step", "save"} /\ m.run.status \in {"RUNNING", "COMPLETED"}
      /\ m.run.st.ticket = run.st.ticket
  BY <1>1, <1>2 DEF SameMarks
<1>4. m.run.step = "none" \/ Follows(Run(w).step, m.run.step)
  BY <1>1, <1>2, PlanNext
<1>5. StepOf(w, m.run.step)
  BY <1>4 DEF StepOf
<1>6. Outcome(w, m)
  BY <1>2, <1>3, <1>5 DEF Outcome
<1> QED BY <1>2, <1>6 DEF Leaves

\* A step that is not.
LEMMA PollLeaves ==
    ASSUME DriverInv, NEW w \in Workers, me[w].pc \in Driving, NEW run, Ready(w, run),
           run.st.ticket = Run(w).st.ticket, Poll(w, run)
    PROVE  Leaves(w)
<1>1. /\ run \in RunType /\ run.step = Run(w).step /\ run.status = "RUNNING"
      /\ me \in [Workers -> WorkerType]
  BY DEF Ready, DriverInv, TypeOK
<1>2. PICK m : /\ me' = [me EXCEPT ![w] = m] /\ m.quiet = me[w].quiet
               /\ SameMarks(m.run, run)
               /\ m.pc = "save" /\ m.run.status = run.status /\ m.run.step = run.step
  BY <1>1, PollFields
<1>3. TicketOf(w, m.run.st.ticket) /\ StepOf(w, m.run.step)
  BY <1>1, <1>2 DEF TicketOf, StepOf, SameMarks
<1>4. Outcome(w, m)
  BY <1>1, <1>2, <1>3 DEF Outcome
<1> QED BY <1>2, <1>4 DEF Leaves

\* A step that raised.
LEMMA StepErrorLeaves ==
    ASSUME DriverInv, NEW w \in Workers, me[w].pc \in Driving, NEW run, Ready(w, run),
           run.st.ticket = Run(w).st.ticket, NEW err, StepError(w, run, err)
    PROVE  Leaves(w)
<1>1. /\ run \in RunType /\ run.step = Run(w).step /\ run.status = "RUNNING"
      /\ me \in [Workers -> WorkerType] /\ run.st.attempts <= MaxRetries
  BY DrivingFacts DEF Ready, DriverInv, TypeOK
<1>2. PICK m : /\ me' = [me EXCEPT ![w] = m] /\ m.quiet = me[w].quiet
               /\ SameMarks(m.run, run) /\ m.run.step = run.step
               /\ \/ m.pc = "save" /\ m.run.status = run.status
                  \/ m.pc \in {"incident", "closing"} /\ m.run.status = "FAILED"
  BY <1>1, StepErrorFields
<1>3. TicketOf(w, m.run.st.ticket) /\ StepOf(w, m.run.step)
  BY <1>1, <1>2 DEF TicketOf, StepOf, SameMarks
<1>4. m.pc \in {"save", "incident", "closing"} /\ m.run.status \in {"RUNNING", "FAILED"}
      /\ (m.pc = "incident" => m.run.status = "FAILED")
  BY <1>1, <1>2
<1>5. Outcome(w, m)
  BY <1>2, <1>3, <1>4 DEF Outcome
<1> QED BY <1>2, <1>5 DEF Leaves

\* A call of a step other than ordering a ticket.
LEMMA CallLeaves ==
    ASSUME DriverInv, NEW w \in Workers, me[w].pc \in Driving, NEW run, Ready(w, run),
           TicketOf(w, run.st.ticket), Run(w).step # "AWAIT_APPROVAL",
           NEW provider, NEW effect, Call(w, provider, effect, run)
    PROVE  Leaves(w)
<1>1. Ready(w, Run(w))
  BY DrivingFacts
<1> QED BY <1>1, AdvanceLeaves, StepErrorLeaves DEF Call

\* A call that reads and raises, and a step that was done before.
LEMMA ReadLeaves ==
    ASSUME DriverInv, NEW w \in Workers, me[w].pc \in Driving
    PROVE  /\ \A provider : ReadRaises(w, provider) => Leaves(w)
           /\ NotFound(w) => Leaves(w)
           /\ Skip(w) /\ (Run(w).step = "AWAIT_APPROVAL" => Approved(Run(w).st.ticket))
                 => Leaves(w)
<1>1. Ready(w, Run(w)) /\ TicketOf(w, Run(w).st.ticket)
  BY DrivingFacts DEF TicketOf
<1> QED BY <1>1, AdvanceLeaves, StepErrorLeaves DEF ReadRaises, NotFound, Skip

\* Setting a marker, or a result, leaves the ticket alone.
LEMMA SameTicket ==
    ASSUME NEW run \in RunType
    PROVE  /\ [run EXCEPT !.st.configured = TRUE].st.ticket = run.st.ticket
           /\ [run EXCEPT !.st.finalized = TRUE].st.ticket = run.st.ticket
           /\ \A v : [run EXCEPT !.st.finalized = TRUE, !.st.vendor = v].st.ticket = run.st.ticket
           /\ [run EXCEPT !.st.closed = TRUE].st.ticket = run.st.ticket
           /\ [run EXCEPT !.st.submitted = TRUE].st.ticket = run.st.ticket
           /\ \A x : [run EXCEPT !.st.output = x].st.ticket = run.st.ticket
           /\ \A x : [run EXCEPT !.st.engine = x].st.ticket = run.st.ticket
           /\ \A x : [run EXCEPT !.st.failure = x].st.ticket = run.st.ticket
BY DEF RunType, StateType

\* Every step leaves its worker so.
LEMMA ExecuteLeaves ==
    ASSUME DriverInv, NEW w \in Workers, ExecuteStep(w)
    PROVE  me[w].pc \in Driving /\ Leaves(w)
<1>0. me \in [Workers -> WorkerType] /\ me[w] \in WorkerType /\ Run(w) \in RunType
  BY DEF DriverInv, TypeOK, WorkerType, Run
<1>1. me[w].pc \in Driving
  BY DEF ExecuteStep, DeadlineExceeded, CreateTicket, OrderTicket, TagTicket, ConfigureResource,
         AwaitApproval, ValidateResource, TriggerEngine, PollEngine, FinalizeResource,
         MarkDeleted, DeleteRecord, CloseTicket, SubmitLegacy, At, Driving
<1> SUFFICES Leaves(w)
  BY <1>1
<1>2. Ready(w, Run(w)) /\ TicketOf(w, Run(w).st.ticket) /\ PointSound(me[w])
  BY <1>1, DrivingFacts DEF TicketOf, DriverInv, WorkerSound
<1>3. ASSUME NEW p, NEW o, p \in {"order", "delete"} \/ (p = "tag" /\ me[w].pc = "order"),
             p # "order" \/ (ext.tagged = {} /\ me[w].pc = "step"),
             me' = [me EXCEPT ![w] = [pc |-> p, err |-> me[w].err, order |-> o,
                                      quiet |-> me[w].quiet, run |-> Run(w)]]
      PROVE  Leaves(w)
  <2> DEFINE m == [pc |-> p, err |-> me[w].err, order |-> o, quiet |-> me[w].quiet,
                   run |-> Run(w)]
  <2>1. m.pc = p /\ m.quiet = me[w].quiet /\ m.run = Run(w)
    OBVIOUS
  <2>2. me' = [me EXCEPT ![w] = m]
    BY <1>3
  <2> HIDE DEF m
  <2>3. Run(w).status = "RUNNING" /\ StepOf(w, Run(w).step)
    BY <1>2 DEF Ready, StepOf
  <2>4. Outcome(w, m)
    BY <1>2, <1>3, <2>1, <2>3 DEF Outcome
  <2> QED BY <2>2, <2>4 DEF Leaves
<1>11. CASE DeadlineExceeded(w)
  BY <1>1, <1>2, <1>11, StepErrorLeaves DEF DeadlineExceeded
<1>12. CASE CreateTicket(w)
  <2>1. Run(w).step = "CREATE_TICKET"
    BY <1>12 DEF CreateTicket, At
  <2>2. CASE Skip(w) \/ ReadRaises(w, "ticket")
    BY <1>1, <2>1, <2>2, ReadLeaves
  <2>3. CASE /\ Run(w).st.ticket = 0
             /\ \E t \in AlreadyOrdered : Advance(w, [Run(w) EXCEPT !.st.ticket = t])
    <3>1. PICK t \in ext.tagged : Advance(w, [Run(w) EXCEPT !.st.ticket = t])
      BY <2>3 DEF AlreadyOrdered
    <3>2. t \in TicketIds
      BY DEF DriverInv, TypeOK, ExtType
    <3> DEFINE run == [Run(w) EXCEPT !.st.ticket = t]
    <3>3. Ready(w, run) /\ run.st.ticket = t
      BY <1>1, <2>3, <3>2, MarkedReady
    <3>4. Advance(w, run)
      BY <3>1
    <3> HIDE DEF run
    <3>5. TicketOf(w, run.st.ticket)
      BY <3>3 DEF TicketOf
    <3> QED BY <1>1, <2>1, <3>3, <3>4, <3>5, AdvanceLeaves
  <2>4. CASE AlreadyOrdered = {} /\ Goto(w, "order", Run(w))
    <3>1. me[w].pc = "step" /\ ext.tagged = {}
      BY <1>12, <2>4 DEF CreateTicket, At, AlreadyOrdered
    <3> QED BY <1>0, <1>3, <2>4, <3>1, GotoIs
  <2> QED BY <1>12, <2>2, <2>3, <2>4 DEF CreateTicket
<1>13. CASE OrderTicket(w)
  <2>1. CASE \E t : me' = [me EXCEPT ![w].pc = "tag", ![w].order = t]
    <3>1. PICK t : me' = [me EXCEPT ![w].pc = "tag", ![w].order = t]
      BY <2>1
    <3>2. me' = [me EXCEPT ![w] = [[me[w] EXCEPT !.pc = "tag"] EXCEPT !.order = t]]
      BY <3>1
    <3>3. [me[w] EXCEPT !.pc = "tag"] = [pc |-> "tag", err |-> me[w].err, order |-> me[w].order,
                                         quiet |-> me[w].quiet, run |-> Run(w)]
      BY <1>0 DEF WorkerType, Run
    <3>4. [[pc |-> "tag", err |-> me[w].err, order |-> me[w].order, quiet |-> me[w].quiet,
            run |-> Run(w)] EXCEPT !.order = t]
            = [pc |-> "tag", err |-> me[w].err, order |-> t, quiet |-> me[w].quiet,
               run |-> Run(w)]
      OBVIOUS
    <3>5. me' = [me EXCEPT ![w] = [pc |-> "tag", err |-> me[w].err, order |-> t,
                                   quiet |-> me[w].quiet, run |-> Run(w)]]
      BY <3>2, <3>3, <3>4
    <3>6. me[w].pc = "order"
      BY <1>13 DEF OrderTicket
    <3>7. "tag" # "order"
      OBVIOUS
    <3> HIDE DEF Leaves
    <3> QED BY <1>3, <3>5, <3>6, <3>7
  <2>2. CASE StepError(w, Run(w), "unclassified")
    BY <1>1, <1>2, <2>2, StepErrorLeaves
  <2> QED BY <1>13, <2>1, <2>2 DEF OrderTicket
<1>14. CASE TagTicket(w)
  <2>1. Run(w).step = "CREATE_TICKET" /\ Run(w).st.ticket = 0 /\ me[w].order # 0
    BY <1>2, <1>14 DEF PointSound, TagTicket, Run
  <2>2. PICK t \in TicketIds : t = me[w].order
    BY <1>0, <2>1 DEF WorkerType
  <2> DEFINE run == [Run(w) EXCEPT !.st.ticket = t]
  <2>3. Ready(w, run) /\ run.st.ticket = t
    BY <1>1, <2>1, MarkedReady
  <2>4. TicketOf(w, run.st.ticket)
    BY <1>14, <2>2, <2>3 DEF TicketOf
  <2>5. Call(w, "ticket", [ext EXCEPT !.tagged = @ \cup {t}], run) \/ Advance(w, run)
    BY <1>14, <2>2 DEF TagTicket
  <2> HIDE DEF run
  <2> QED BY <1>1, <2>1, <2>3, <2>4, <2>5, CallLeaves, AdvanceLeaves
<1>15. CASE ConfigureResource(w)
  <2> DEFINE run == [Run(w) EXCEPT !.st.configured = TRUE]
  <2>1. Ready(w, run)
    BY <1>1, MarkedReady
  <2>2. TicketOf(w, run.st.ticket) /\ Run(w).step = "CONFIGURE_RESOURCE"
    BY <1>0, <1>15, SameTicket DEF TicketOf, ConfigureResource, At
  <2>3. \/ Skip(w) \/ NotFound(w)
        \/ \E effect : Call(w, "resource", effect, run)
    BY <1>15 DEF ConfigureResource
  <2> HIDE DEF run
  <2> QED BY <1>1, <2>1, <2>2, <2>3, ReadLeaves, CallLeaves
<1>16. CASE AwaitApproval(w)
  <2>1. CASE Approved(Run(w).st.ticket) /\ Skip(w)
    BY <1>1, <2>1, ReadLeaves
  <2>2. CASE ReadRaises(w, "ticket")
    BY <1>1, <2>2, ReadLeaves
  <2>3. CASE Poll(w, Run(w))
    BY <1>1, <1>2, <2>3, PollLeaves
  <2>4. CASE ext.approval[Run(w).st.ticket] = "rejected" /\ RejectRun(w)
    <3> DEFINE run == [Run(w) EXCEPT !.status = "REJECTED", !.date = "null"]
               m   == [pc |-> "release", err |-> me[w].err, order |-> me[w].order,
                       quiet |-> me[w].quiet, run |-> run]
    <3>1. me' = [me EXCEPT ![w] = m]
      BY <1>0, <2>4, GotoIs DEF RejectRun
    <3>2. run.st = Run(w).st /\ run.step = Run(w).step
      BY <1>0 DEF RunType
    <3> HIDE DEF run
    <3>3. m.pc = "release" /\ m.quiet = me[w].quiet /\ m.run = run
      OBVIOUS
    <3> HIDE DEF m
    <3>4. Run(w).step = "AWAIT_APPROVAL"
      BY <1>16 DEF AwaitApproval, At
    <3>5. Outcome(w, m)
      BY <1>2, <2>4, <3>2, <3>3, <3>4 DEF Outcome, StepOf
    <3> QED BY <3>1, <3>5 DEF Leaves
  <2> QED BY <1>16, <2>1, <2>2, <2>3, <2>4 DEF AwaitApproval
<1>17. CASE ValidateResource(w)
  <2>1. Run(w).step = "VALIDATE_RESOURCE"
    BY <1>17 DEF ValidateResource, At
  <2> QED BY <1>1, <1>2, <1>17, <2>1, ReadLeaves, StepErrorLeaves DEF ValidateResource
<1>18. CASE TriggerEngine(w)
  <2>1. CASE StepError(w, Run(w), "unclassified")
    BY <1>1, <1>2, <2>1, StepErrorLeaves
  <2>2. CASE Poll(w, [Run(w) EXCEPT !.st.engine = EngineRunKey(Run(w))])
    <3>1. EngineRunKey(Run(w)) \in EngineIds
      BY <1>0, <1>1, DrivingFacts, DriverAssumption DEF RunType, StateType, EngineRunKey, EngineIds
    <3>2. PICK k \in EngineIds : k = EngineRunKey(Run(w))
      BY <3>1
    <3> DEFINE run == [Run(w) EXCEPT !.st.engine = k]
    <3>3. Ready(w, run)
      BY <1>1, MarkedReady
    <3>4. Poll(w, run)
      BY <2>2, <3>2
    <3>5. run.st.ticket = Run(w).st.ticket
      BY <1>0, SameTicket
    <3> HIDE DEF run
    <3> QED BY <1>1, <3>3, <3>4, <3>5, PollLeaves
  <2> QED BY <1>18, <2>1, <2>2 DEF TriggerEngine
<1>19. CASE PollEngine(w)
  <2>1. Run(w).step = "RUN_ENGINE"
    BY <1>19 DEF PollEngine, At
  <2>2. CASE Poll(w, Run(w))
    BY <1>1, <1>2, <2>2, PollLeaves
  <2>3. CASE Advance(w, Run(w))
    BY <1>1, <1>2, <2>1, <2>3, AdvanceLeaves
  <2>4. CASE \E err : StepError(w, Run(w), err)
    BY <1>1, <1>2, <2>4, StepErrorLeaves
  <2>5. CASE \E b \in BOOLEAN : Advance(w, [Run(w) EXCEPT !.st.output = b])
    <3>1. PICK b \in BOOLEAN : Advance(w, [Run(w) EXCEPT !.st.output = b])
      BY <2>5
    <3> DEFINE run == [Run(w) EXCEPT !.st.output = b]
    <3>2. Ready(w, run) /\ Advance(w, run)
      BY <1>1, <3>1, MarkedReady
    <3>3. TicketOf(w, run.st.ticket)
      BY <1>0, SameTicket DEF TicketOf
    <3> HIDE DEF run
    <3> QED BY <1>1, <2>1, <3>2, <3>3, AdvanceLeaves
  <2>6. CASE \E f \in EngineFailures : \E err : StepError(w, [Run(w) EXCEPT !.st.failure = f], err)
    <3>0. PICK f \in EngineFailures : \E err : StepError(w, [Run(w) EXCEPT !.st.failure = f], err)
      BY <2>6
    <3>1. PICK err : StepError(w, [Run(w) EXCEPT !.st.failure = f], err)
      BY <3>0
    <3> DEFINE run == [Run(w) EXCEPT !.st.failure = f]
    <3>2. Ready(w, run) /\ StepError(w, run, err)
      BY <1>1, <3>1, MarkedReady
    <3>3. run.st.ticket = Run(w).st.ticket
      BY <1>0, SameTicket
    <3> HIDE DEF run
    <3> QED BY <1>1, <3>2, <3>3, StepErrorLeaves
  <2>7. PICK b \in BOOLEAN : b = (HasResource /\ ext.engine[Run(w).st.engine] = "published")
    OBVIOUS
  <2>8. \/ Poll(w, Run(w)) \/ Advance(w, Run(w)) \/ \E err : StepError(w, Run(w), err)
        \/ Advance(w, [Run(w) EXCEPT !.st.output = b])
        \/ \E f \in EngineFailures : \E err : StepError(w, [Run(w) EXCEPT !.st.failure = f], err)
    BY <1>19, <2>7 DEF PollEngine
  <2> QED BY <2>2, <2>3, <2>4, <2>5, <2>6, <2>8
<1>20. CASE FinalizeResource(w)
  <2>1. Run(w).step = "FINALIZE_RESOURCE"
    BY <1>20 DEF FinalizeResource, At
  <2>2. CASE Skip(w) \/ NotFound(w)
    BY <1>1, <2>1, <2>2, ReadLeaves
  <2>3. CASE \E effect : Call(w, "resource", effect,
                             [Run(w) EXCEPT !.st.finalized = TRUE,
                                       !.st.vendor = IF Run(w).st.output THEN "real" ELSE @])
    <3>1. PICK v : v = IF Run(w).st.output THEN "real" ELSE Run(w).st.vendor
      OBVIOUS
    <3>2. v \in {"given", "real"}
      BY <1>0, <3>1 DEF RunType, StateType
    <3> DEFINE run == [Run(w) EXCEPT !.st.finalized = TRUE, !.st.vendor = v]
    <3>3. run = [Run(w) EXCEPT !.st.finalized = TRUE,
                               !.st.vendor = IF Run(w).st.output THEN "real" ELSE @]
      BY <1>0, <3>1 DEF RunType, StateType
    <3>4. Ready(w, run)
      BY <1>1, <3>2, MarkedReady
    <3>5. TicketOf(w, run.st.ticket)
      BY <1>0, SameTicket DEF TicketOf
    <3>6. PICK effect : Call(w, "resource", effect, run)
      BY <2>3, <3>3
    <3> HIDE DEF run
    <3> QED BY <1>1, <2>1, <3>4, <3>5, <3>6, CallLeaves
  <2> QED BY <1>20, <2>2, <2>3 DEF FinalizeResource
<1>21. CASE MarkDeleted(w)
  <2>1. CASE Goto(w, "delete", Run(w))
    BY <1>0, <1>3, <2>1, GotoIs
  <2>2. CASE StepError(w, Run(w), "unclassified")
    BY <1>1, <1>2, <2>2, StepErrorLeaves
  <2> QED BY <1>21, <2>1, <2>2 DEF MarkDeleted
<1>22. CASE DeleteRecord(w)
  <2> DEFINE run == [Run(w) EXCEPT !.st.finalized = TRUE]
  <2>1. Ready(w, run)
    BY <1>1, MarkedReady
  <2>2. TicketOf(w, run.st.ticket) /\ Run(w).step = "FINALIZE_RESOURCE"
    BY <1>0, <1>2, <1>22, SameTicket DEF TicketOf, DeleteRecord, PointSound, Run
  <2>3. \E effect : Call(w, "resource", effect, run)
    BY <1>22 DEF DeleteRecord
  <2> HIDE DEF run
  <2> QED BY <1>1, <2>1, <2>2, <2>3, CallLeaves
<1>23. CASE CloseTicket(w)
  <2> DEFINE run == [Run(w) EXCEPT !.st.closed = TRUE]
  <2>1. Ready(w, run)
    BY <1>1, MarkedReady
  <2>2. TicketOf(w, run.st.ticket) /\ Run(w).step = "CLOSE_TICKET"
    BY <1>0, <1>23, SameTicket DEF TicketOf, CloseTicket, At
  <2>3. Skip(w) \/ \E effect : Call(w, "ticket", effect, run)
    BY <1>23 DEF CloseTicket
  <2> HIDE DEF run
  <2> QED BY <1>1, <2>1, <2>2, <2>3, ReadLeaves, CallLeaves
<1>24. CASE SubmitLegacy(w)
  <2> DEFINE run == [Run(w) EXCEPT !.st.submitted = TRUE]
  <2>1. Ready(w, run)
    BY <1>1, MarkedReady
  <2>2. TicketOf(w, run.st.ticket) /\ Run(w).step = "SUBMIT_LEGACY"
    BY <1>0, <1>24, SameTicket DEF TicketOf, SubmitLegacy, At
  <2>3. Skip(w) \/ \E effect : Call(w, "legacy", effect, run)
    BY <1>24 DEF SubmitLegacy
  <2> HIDE DEF run
  <2> QED BY <1>1, <2>1, <2>2, <2>3, ReadLeaves, CallLeaves
<1> QED BY <1>1, <1>11, <1>12, <1>13, <1>14, <1>15, <1>16, <1>17, <1>18, <1>19, <1>20, <1>21,
           <1>22, <1>23, <1>24 DEF ExecuteStep

-----------------------------------------------------------------------------
(* Incidents. *)

\* A worker whose copy may still become the row's next state has a run that is
\* not over.
LEMMA HolderIsCurrent ==
    ASSUME DriverInv, Exclusive, NEW w \in Workers, me[w].pc \in Busy, ~me[w].quiet
    PROVE  row.status \in Active /\ Run(w).version = row.version
<1>1. me[w].pc # "idle"
  BY DEF Busy, Driving, Escalating
<1>2. Run(w).version = row.version
  BY <1>1 DEF Exclusive
<1>3. Tracks(me[w])
  BY DEF DriverInv, WorkerSound
<1> QED BY <1>2, <1>3 DEF Tracks, Run

\* Only a save can take from an escalation that paged.
LEMMA PagedKept ==
    ASSUME DriverInv, [Next]_vars, Paged, NEW w \in Workers, NEW m,
           me' = [me EXCEPT ![w] = m],
           me[w].pc \notin (Escalating \cup {"save"}) \ {"incident"} \/ Run(w).status # "FAILED"
              \/ me[w].quiet
              \/ (/\ m.pc \in (Escalating \cup {"save"}) \ {"incident"}
                  /\ m.run.status = "FAILED" /\ ~m.quiet)
    PROVE  Paged'
<1>1. me \in [Workers -> WorkerType]
  BY DEF DriverInv, TypeOK
<1>2. CASE row.status = "FAILED"
  BY <1>2, OverStays DEF Paged, Terminal
<1>3. CASE \E v \in Workers : /\ me[v].pc \in (Escalating \cup {"save"}) \ {"incident"}
                              /\ Run(v).status = "FAILED"
                              /\ ~me[v].quiet
  <2>1. PICK v \in Workers : /\ me[v].pc \in (Escalating \cup {"save"}) \ {"incident"}
                             /\ Run(v).status = "FAILED"
                             /\ ~me[v].quiet
    BY <1>3
  <2>2. CASE v # w
    <3>1. me'[v] = me[v]
      BY <1>1, <2>2
    <3> QED BY <2>1, <3>1 DEF Paged, Run
  <2>3. CASE v = w
    <3>1. me'[w] = m
      BY <1>1
    <3>2. /\ m.pc \in (Escalating \cup {"save"}) \ {"incident"}
          /\ m.run.status = "FAILED" /\ ~m.quiet
      BY <2>1, <2>3
    <3> QED BY <3>1, <3>2 DEF Paged, Run
  <2> QED BY <2>2, <2>3
<1> QED BY <1>2, <1>3 DEF Paged

\* Every step pays for the incident it opens.
LEMMA IncidentsStep ==
    ASSUME DriverInv, Exclusive, IncidentsCounted, [Next]_vars
    PROVE  IncidentsCounted'
<1>1. /\ me \in [Workers -> WorkerType] /\ ext \in ExtType /\ faults \in Nat
      /\ crashes \in Nat /\ dbFaults \in Nat /\ ext.incidents \in Nat
  BY DEF DriverInv, TypeOK, ExtType
<1>2. PICK c \in Nat : c = crashes + dbFaults
  BY <1>1
<1>3. /\ ext.incidents <= c + (IF Paged THEN 1 ELSE 0)
      /\ \A w \in Workers : me[w].pc = "incident" =>
            Run(w).status = "FAILED" /\ (me[w].quiet => ext.incidents + 1 <= c)
  BY <1>2 DEF IncidentsCounted
<1>4. Paged \in BOOLEAN /\ Paged' \in BOOLEAN
  BY DEF Paged
<1>5. ASSUME NEW d \in Nat, d = crashes' + dbFaults', ext'.incidents = ext.incidents,
             (d >= c /\ (Paged => Paged')) \/ d > c,
             \A w \in Workers :
                \/ me'[w] = me[w]
                \/ me'[w].pc # "incident"
                \/ me'[w].run.status = "FAILED" /\ (me'[w].quiet => ext.incidents + 1 <= d)
      PROVE  IncidentsCounted'
  <2>1. ext.incidents <= d + (IF Paged' THEN 1 ELSE 0)
    BY <1>1, <1>3, <1>4, <1>5, CountKept
  <2>2. ASSUME NEW w \in Workers, me'[w].pc = "incident"
        PROVE  me'[w].run.status = "FAILED" /\ (me'[w].quiet => ext.incidents + 1 <= d)
    <3>1. CASE me'[w] = me[w]
      <4>1. Run(w).status = "FAILED" /\ (me[w].quiet => ext.incidents + 1 <= c) /\ c <= d
        BY <1>3, <1>5, <2>2, <3>1
      <4> QED BY <1>1, <3>1, <4>1 DEF Run
    <3> QED BY <1>5, <2>2, <3>1
  <2> QED BY <1>5, <2>1, <2>2 DEF IncidentsCounted, Run
<1>6. CASE ~\E w \in Workers : Work(w) \/ SaveRaises(w) \/ Crash(w)
  <2>1. UNCHANGED <<me, crashes, dbFaults>> /\ ext'.incidents = ext.incidents
    BY <1>6, WorldStep
  <2>2. Paged => Paged'
    BY <2>1, OverStays DEF Paged, Run, Terminal
  <2>3. c = crashes' + dbFaults'
    BY <1>2, <2>1
  <2> QED BY <1>5, <2>1, <2>2, <2>3
<1>7. ASSUME NEW w \in Workers, NEW m, me' = [me EXCEPT ![w] = m]
      PROVE  me'[w] = m /\ \A v \in Workers : v # w => me'[v] = me[v]
  BY <1>1, <1>7
<1>8. ASSUME NEW w \in Workers, Work(w) \/ SaveRaises(w) \/ Crash(w) PROVE IncidentsCounted'
  <2>1. CASE Claim(w) \/ Load(w)
    <3>1. UNCHANGED <<ext, crashes, dbFaults>> /\ me[w].pc \in {"idle", "claimed"}
      BY <2>1 DEF Claim, Load, world
    <3>2. PICK m : me' = [me EXCEPT ![w] = m] /\ m.pc # "incident"
      <4>1. CASE Claim(w)
        <5>1. me' = [me EXCEPT ![w] = [me[w] EXCEPT !.pc = "claimed"]]
          BY <4>1 DEF Claim
        <5>2. [me[w] EXCEPT !.pc = "claimed"].pc = "claimed"
          BY <1>1 DEF WorkerType
        <5> QED BY <5>1, <5>2
      <4>2. CASE Load(w)
        <5>1. row \in RunType /\ Idle.pc # "incident"
          BY DEF DriverInv, TypeOK, Idle
        <5> QED BY <1>1, <4>2, <5>1, LoadFields
      <4> QED BY <2>1, <4>1, <4>2
    <3>3. Paged => Paged'
      BY <3>1, <3>2, PagedKept DEF Escalating
    <3>4. c = crashes' + dbFaults'
      BY <1>2, <3>1
    <3> QED BY <1>5, <1>7, <3>1, <3>2, <3>3, <3>4
  <2>2. CASE ExecuteStep(w)
    <3>1. UNCHANGED <<crashes, dbFaults>>
      BY <2>2, ExecuteStepSound DEF SoundStep, others
    <3>2. me[w].pc \in Driving /\ Leaves(w) /\ ~me[w].quiet
      BY <2>2, ExecuteLeaves, DrivingFacts
    <3>3. PICK m : /\ me' = [me EXCEPT ![w] = m] /\ m.quiet = me[w].quiet
                   /\ (m.pc = "incident" => m.run.status = "FAILED")
      BY <3>2 DEF Leaves, Outcome
    <3>4. Paged => Paged'
      BY <3>2, <3>3, PagedKept DEF Driving, Escalating
    <3>5. c = crashes' + dbFaults'
      BY <1>2, <3>1
    <3>6. ext'.incidents = ext.incidents
      BY <1>1, <2>2, <3>2, WorldFrame DEF OpenIncident, Driving
    <3> QED BY <1>5, <1>7, <3>2, <3>3, <3>4, <3>5, <3>6
  <2>3. CASE Escalate(w) /\ ~OpenIncident(w)
    <3>1. UNCHANGED <<crashes, dbFaults>>
      BY <2>3, EscalateSound DEF SoundStep, others
    <3>2. PICK m : /\ me' = [me EXCEPT ![w] = m] /\ m.quiet = me[w].quiet
                   /\ m.pc \in (Escalating \cup {"save"}) \ {"incident"}
                   /\ m.run.status = Run(w).status
      BY <1>1, <2>3, EscalateFields
    <3>3. Paged => Paged'
      <4>1. CASE Run(w).status = "FAILED" /\ ~me[w].quiet
        <5>1. /\ m.pc \in (Escalating \cup {"save"}) \ {"incident"}
              /\ m.run.status = "FAILED" /\ ~m.quiet
          BY <3>2, <4>1
        <5> QED BY <3>2, <5>1, PagedKept
      <4>2. CASE Run(w).status # "FAILED" \/ me[w].quiet
        BY <3>2, <4>2, PagedKept
      <4> QED BY <4>1, <4>2
    <3>4. c = crashes' + dbFaults'
      BY <1>2, <3>1
    <3>5. ext'.incidents = ext.incidents
      BY <1>1, <2>3, WorldFrame
    <3> QED BY <1>5, <1>7, <3>2, <3>3, <3>4, <3>5
  <2>4. CASE OpenIncident(w)
    <3>1. UNCHANGED <<crashes, dbFaults>> /\ me[w].pc = "incident" /\ Escalate(w)
      BY <2>4 DEF OpenIncident, others, Escalate
    <3>2. PICK m : /\ me' = [me EXCEPT ![w] = m] /\ m.quiet = me[w].quiet
                   /\ m.pc \in (Escalating \cup {"save"}) \ {"incident"}
                   /\ m.run.status = Run(w).status
      BY <1>1, <3>1, EscalateFields
    <3>3. ext'.incidents \in {ext.incidents, ext.incidents + 1}
      <4>1. IncidentOpened.incidents = ext.incidents + 1
        BY <1>1 DEF IncidentOpened, ExtType
      <4>2. ext' \in {ext, IncidentOpened}
        BY <2>4 DEF OpenIncident, Guarded
      <4> QED BY <4>1, <4>2
    <3>4. Run(w).status = "FAILED" /\ (me[w].quiet => ext.incidents + 1 <= c)
      BY <1>3, <3>1
    <3>5. \A v \in Workers : me'[v].pc # "incident"
      <4>1. \A v \in Workers : v # w => me[v].pc = "idle"
        BY <3>1 DEF Exclusive
      <4> QED BY <1>7, <3>2, <4>1
    <3>6. ext'.incidents <= c + (IF Paged' THEN 1 ELSE 0)
      <4>1. CASE me[w].quiet
        <5>1. ext'.incidents <= c
          BY <1>1, <3>3, <3>4, <4>1
        <5> QED BY <1>1, <3>3, <5>1
      <4>2. CASE ~me[w].quiet
        <5>1. row.status \in Active
          BY <3>1, <4>2, HolderIsCurrent DEF Busy, Escalating
        <5>2. \A v \in Workers : v # w => me[v].pc = "idle"
          BY <3>1 DEF Exclusive
        <5>3. ~Paged
          BY <3>1, <5>1, <5>2 DEF Paged, Active, Escalating
        <5>4. Paged'
          BY <1>7, <3>2, <3>4, <4>2 DEF Paged, Run
        <5> QED BY <1>1, <1>3, <3>3, <5>3, <5>4
      <4> QED BY <4>1, <4>2
    <3>7. c = crashes' + dbFaults'
      BY <1>2, <3>1
    <3> QED BY <3>5, <3>6, <3>7 DEF IncidentsCounted
  <2>5. CASE Save(w)
    <3>1. /\ UNCHANGED <<ext, crashes, dbFaults>>
          /\ me' = [me EXCEPT ![w] = Idle] /\ me[w].pc = "save" /\ Idle.pc # "incident"
          /\ Write(w) \/ ~VersionMatches(w)
      BY <2>5 DEF Save, world, Idle
    <3>2. Paged => Paged'
      <4>1. CASE Run(w).status = "FAILED" /\ ~me[w].quiet
        <5>1. Run(w) \in RunType
          BY <1>1 DEF WorkerType, Run
        <5>2. Run(w).version = row.version
          BY <3>1, <4>1, HolderIsCurrent DEF Busy
        <5>3. PICK n : row' = [Run(w) EXCEPT !.version = n]
          BY <3>1, <5>2 DEF Write, VersionMatches
        <5>4. row'.status = "FAILED"
          BY <4>1, <5>1, <5>3, CopyFields
        <5> QED BY <5>4 DEF Paged
      <4>2. CASE Run(w).status # "FAILED" \/ me[w].quiet
        BY <3>1, <4>2, PagedKept
      <4> QED BY <4>1, <4>2
    <3>3. c = crashes' + dbFaults'
      BY <1>2, <3>1
    <3> QED BY <1>5, <1>7, <3>1, <3>2, <3>3
  <2>6. CASE SaveRaises(w)
    <3>1. UNCHANGED <<ext, crashes>> /\ dbFaults' = dbFaults + 1 /\ me[w].pc = "save"
      BY <2>6 DEF SaveRaises, world
    <3>2. c + 1 = crashes' + dbFaults'
      BY <1>1, <1>2, <3>1
    <3>3. CASE ~me[w].quiet /\ SaveRaised(w)
      <4>1. PICK m : /\ me' = [me EXCEPT ![w] = m] /\ m.run.status = "FAILED"
                     /\ \/ Run(w).status = "FAILED" /\ m.pc = me[w].pc
                        \/ Run(w).status # "FAILED" /\ m.pc = "incident"
        BY <1>1, <3>3, SaveRaisedFields
      <4>2. CASE m.pc # "incident"
        BY <1>5, <1>7, <3>1, <3>2, <4>1, <4>2
      <4>3. CASE Run(w).status # "FAILED"
        <5>1. row.status \in Active
          BY <3>1, <3>3, HolderIsCurrent DEF Busy
        <5>2. \A v \in Workers : v # w => me[v].pc = "idle"
          BY <3>1 DEF Exclusive
        <5>3. ~Paged
          BY <3>1, <4>3, <5>1, <5>2 DEF Paged, Active, Escalating
        <5>4. ext.incidents + 1 <= c + 1
          BY <1>1, <1>3, <5>3
        <5> QED BY <1>5, <1>7, <3>1, <3>2, <4>1, <5>4
      <4> QED BY <3>1, <4>1, <4>2, <4>3
    <3>4. CASE me' = [me EXCEPT ![w] = Idle]
      <4>1. Idle.pc # "incident"
        BY DEF Idle
      <4> QED BY <1>5, <1>7, <3>1, <3>2, <3>4, <4>1
    <3> QED BY <2>6, <3>3, <3>4 DEF SaveRaises
  <2>7. CASE Crash(w)
    <3>1. /\ UNCHANGED <<ext, dbFaults>> /\ crashes' = crashes + 1
          /\ me' = [me EXCEPT ![w] = Idle] /\ Idle.pc # "incident"
      BY <2>7 DEF Crash, world, Idle
    <3>2. c + 1 = crashes' + dbFaults'
      BY <1>1, <1>2, <3>1
    <3> QED BY <1>5, <1>7, <3>1, <3>2
  <2> QED BY <1>8, <2>1, <2>2, <2>3, <2>4, <2>5, <2>6, <2>7 DEF Work
<1> QED BY <1>6, <1>8

\* Crashes and failing saves stay within their bounds.
WithinBounds == crashes <= MaxCrashes /\ dbFaults <= MaxDbFaults

\* Crashes and failing database calls stay within their bounds,
LEMMA WithinBoundsStep ==
    ASSUME DriverInv, WithinBounds, [Next]_vars
    PROVE  WithinBounds'
<1>1. crashes \in Nat /\ dbFaults \in Nat /\ MaxCrashes \in Nat /\ MaxDbFaults \in Nat
  BY DriverAssumption DEF DriverInv, TypeOK
<1>2. CASE ~\E w \in Workers : Work(w) \/ SaveRaises(w) \/ Crash(w)
  <2>1. UNCHANGED <<crashes, dbFaults>>
    BY <1>2, WorldStep
  <2> QED BY <2>1 DEF WithinBounds
<1>3. ASSUME NEW w \in Workers, Work(w) \/ SaveRaises(w) \/ Crash(w) PROVE WithinBounds'
  <2>1. CASE Claim(w) \/ Load(w) \/ Save(w)
    <3>1. UNCHANGED <<crashes, dbFaults>>
      BY <2>1 DEF Claim, Load, Save
    <3> QED BY <3>1 DEF WithinBounds
  <2>2. CASE ExecuteStep(w) \/ Escalate(w)
    <3>1. UNCHANGED <<crashes, dbFaults>>
      BY <2>2, ExecuteStepSound, EscalateSound DEF SoundStep, others
    <3> QED BY <3>1 DEF WithinBounds
  <2>3. CASE SaveRaises(w)
    <3>1. crashes' = crashes /\ dbFaults' = dbFaults + 1 /\ dbFaults < MaxDbFaults
      BY <2>3 DEF SaveRaises
    <3> QED BY <1>1, <3>1 DEF WithinBounds
  <2>4. CASE Crash(w)
    <3>1. dbFaults' = dbFaults /\ crashes' = crashes + 1 /\ crashes < MaxCrashes
      BY <2>4 DEF Crash
    <3> QED BY <1>1, <3>1 DEF WithinBounds
  <2> QED BY <1>3, <2>1, <2>2, <2>3, <2>4 DEF Work
<1> QED BY <1>2, <1>3

\* always.
LEMMA StaysWithinBounds == Spec => []WithinBounds
<1>1. Init => WithinBounds
  BY DriverAssumption DEF Init, WithinBounds
<1>2. DriverInv /\ WithinBounds /\ [Next]_vars => WithinBounds'
  BY WithinBoundsStep
<1> QED BY <1>1, <1>2, DriverInvariant, PTL DEF Spec

\* While one worker at a time has the run, every incident but one is paid for by
\* a crash or by a save() that raised.
THEOREM IncidentsAreCounted == ASSUME LeaseCovers, MaxWakes = 0 PROVE Spec => []IncidentsCounted
<1>1. Init => IncidentsCounted
  <2>1. ASSUME Init PROVE \A w \in Workers : me[w].pc # "incident"
    BY <2>1 DEF Init, Idle
  <2>2. ASSUME Init PROVE ext.incidents = 0 /\ crashes = 0 /\ dbFaults = 0
    BY <2>2 DEF Init
  <2>3. ASSUME Init PROVE 0 <= 0 + 0 + (IF Paged THEN 1 ELSE 0)
    OBVIOUS
  <2> QED BY <2>1, <2>2, <2>3 DEF IncidentsCounted
<1>2. Sole => Exclusive
  BY DEF Sole, Unwoken
<1>3. DriverInv /\ Sole /\ IncidentsCounted /\ [Next]_vars => IncidentsCounted'
  BY <1>2, IncidentsStep
<1> QED BY <1>1, <1>3, DriverInvariant, DrivesAreSole, PTL DEF Spec

\* So one run has one incident, and one more at most for each of those.
THEOREM IncidentsAreBounded == ASSUME LeaseCovers, MaxWakes = 0 PROVE Spec => []IncidentsBounded
<1>1. DriverInv /\ IncidentsCounted => IncidentsBounded
  <2>1. ASSUME DriverInv PROVE crashes \in Nat /\ dbFaults \in Nat /\ ext.incidents \in Nat
    BY <2>1 DEF DriverInv, TypeOK, ExtType
  <2> QED BY <2>1 DEF IncidentsCounted, IncidentsBounded
<1> QED BY <1>1, DriverInvariant, IncidentsAreCounted, PTL

\* Without crashes and with a database that answers, one run has one incident,
\* however many of its steps fail and are retried (_on_step_error escalates only
\* what ends the run).
THEOREM OneRunOneIncident ==
    ASSUME LeaseCovers, MaxWakes = 0, MaxCrashes = 0, MaxDbFaults = 0
    PROVE  Spec => []OneIncident
<1>1. DriverInv /\ WithinBounds /\ IncidentsBounded => OneIncident
  <2>1. ASSUME DriverInv PROVE crashes \in Nat /\ dbFaults \in Nat /\ ext.incidents \in Nat
    BY <2>1 DEF DriverInv, TypeOK, ExtType
  <2>2. ASSUME DriverInv, WithinBounds PROVE crashes = 0 /\ dbFaults = 0
    BY <2>1, <2>2 DEF WithinBounds
  <2> QED BY <2>1, <2>2 DEF IncidentsBounded, OneIncident
<1> QED BY <1>1, DriverInvariant, IncidentsAreBounded, StaysWithinBounds, PTL

\* And then nobody is paged for a run that completed or was rejected (_reject
\* opens no incident, and a run is not failed after it was saved as over).
THEOREM OnlyFailuresPage ==
    ASSUME LeaseCovers, MaxWakes = 0, MaxCrashes = 0, MaxDbFaults = 0
    PROVE  Spec => []NoIncidentUnlessFailed
<1>1. DriverInv /\ Sole /\ WithinBounds /\ IncidentsCounted => NoIncidentUnlessFailed
  <2> SUFFICES ASSUME DriverInv, Sole, WithinBounds, IncidentsCounted,
                      row.status \in {"COMPLETED", "REJECTED"}
               PROVE  ext.incidents = 0
    BY DEF NoIncidentUnlessFailed
  <2>1. Exclusive
    BY DEF Sole, Unwoken
  <2>2. ~Paged
    BY <2>1, HolderIsCurrent DEF Paged, Active, Busy
  <2>3. crashes \in Nat /\ dbFaults \in Nat /\ ext.incidents \in Nat
    BY DEF DriverInv, TypeOK, ExtType
  <2>4. crashes = 0 /\ dbFaults = 0
    BY <2>3 DEF WithinBounds
  <2>5. ext.incidents <= crashes + dbFaults + (IF Paged THEN 1 ELSE 0)
    BY DEF IncidentsCounted
  <2> QED BY <2>2, <2>3, <2>4, <2>5
<1> QED BY <1>1, DriverInvariant, DrivesAreSole, StaysWithinBounds, IncidentsAreCounted, PTL

-----------------------------------------------------------------------------
(* Rejections. *)

\* An approval is never taken back, and engine runs are only started by workers.
LEMMA WorldKept ==
    ASSUME DriverInv, [Next]_vars
    PROVE  /\ \A t \in TicketIds : ext.approval[t] = "approved" => ext'.approval[t] = "approved"
           /\ Launched' = Launched \/ \E w \in Workers : TriggerEngine(w)
<1>1. ext \in ExtType /\ ext.approval \in [TicketIds -> {"pending", "approved", "rejected"}]
      /\ faults \in Nat
      /\ ext.engine \in [EngineIds -> {"none", "running"} \cup EngineSuccesses \cup EngineFailures]
  BY DEF DriverInv, TypeOK, ExtType
<1>2. ASSUME ext'.approval = ext.approval, ext'.engine = ext.engine
      PROVE  /\ \A t \in TicketIds : ext.approval[t] = "approved" => ext'.approval[t] = "approved"
             /\ Launched' = Launched
  BY <1>2 DEF Launched
<1>3. CASE UNCHANGED vars
  BY <1>2, <1>3 DEF vars
<1>4. CASE \E kind \in Requests : Trigger(kind)
  <2>1. PICK x, y : ext' = [[ext EXCEPT !.ticket[1] = x] EXCEPT !.record["given"] = y]
    BY <1>4 DEF Trigger
  <2>2. ext'.approval = ext.approval /\ ext'.engine = ext.engine
    BY <1>1, <2>1 DEF ExtType
  <2> QED BY <1>2, <2>2
<1>5. ASSUME NEW w \in Workers, Work(w) \/ SaveRaises(w) \/ Crash(w)
      PROVE  /\ \A t \in TicketIds : ext.approval[t] = "approved" => ext'.approval[t] = "approved"
             /\ Launched' = Launched \/ TriggerEngine(w)
  <2>1. CASE ExecuteStep(w) \/ Escalate(w)
    BY <1>1, <2>1, WorldFrame DEF Launched
  <2>2. CASE ~(ExecuteStep(w) \/ Escalate(w))
    <3>1. ext' = ext
      BY <1>5, <2>2 DEF Work, Claim, Load, Save, SaveRaises, Crash, world
    <3> QED BY <1>2, <3>1
  <2> QED BY <2>1, <2>2
<1>6. CASE \E t \in TicketIds, answer \in {"approved", "rejected"} : DecideApproval(t, answer)
  <2>1. PICK t \in TicketIds, answer \in {"approved", "rejected"} : DecideApproval(t, answer)
    BY <1>6
  <2>2. ext' = [ext EXCEPT !.approval[t] = answer] /\ ext.approval[t] = "pending"
    BY <2>1 DEF DecideApproval
  <2>3. ext'.approval = [ext.approval EXCEPT ![t] = answer] /\ ext'.engine = ext.engine
    BY <1>1, <2>2 DEF ExtType
  <2> QED BY <1>1, <2>2, <2>3 DEF Launched
<1>7. CASE \E k \in EngineIds : FinishEngine(k)
  <2>1. PICK k \in EngineIds : FinishEngine(k)
    BY <1>7
  <2>2. PICK end \in EngineSuccesses \cup EngineFailures : ext' = [ext EXCEPT !.engine[k] = end]
    BY <2>1 DEF FinishEngine
  <2>3. ext'.engine = [ext.engine EXCEPT ![k] = end] /\ ext'.approval = ext.approval
    BY <1>1, <2>2 DEF ExtType
  <2>4. ext.engine[k] # "none" /\ end # "none"
    BY <2>1 DEF FinishEngine, EngineSuccesses, EngineFailures
  <2>5. \A j \in EngineIds : ext'.engine[j] = IF j = k THEN end ELSE ext.engine[j]
    BY <1>1, <2>3
  <2> QED BY <2>3, <2>4, <2>5 DEF Launched
<1>8. CASE Elapse \/ Overrun \/ FindRun \/ WakeRun
  <2>1. ext' = ext
    BY <1>8 DEF Elapse, Overrun, FindRun, WakeRun, world
  <2> QED BY <1>2, <2>1
<1> QED BY <1>3, <1>4, <1>5, <1>6, <1>7, <1>8 DEF Next

\* What a copy holds it keeps, while the tagged tickets are the same.
LEMMA HoldsKept ==
    ASSUME DriverInv, [Next]_vars, ext.tagged \subseteq ext'.tagged, NEW run, HoldsTicket(run)
    PROVE  HoldsTicket(run)'
<1>1. ext.tagged \subseteq TicketIds
  BY DEF DriverInv, TypeOK, ExtType
<1>2. run.step \in AfterApproval =>
         run.st.ticket \in TicketIds /\ ext.approval[run.st.ticket] = "approved"
  BY <1>1 DEF HoldsTicket
<1> QED BY <1>2, WorldKept DEF HoldsTicket

\* What is asked for does not change.
LEMMA RequestKept ==
    ASSUME DriverInv, [Next]_vars
    PROVE  request' = request \/ request = "none"
<1>1. ASSUME NEW w \in Workers, Work(w) \/ SaveRaises(w) \/ Crash(w) PROVE request' = request
  <2>1. CASE Claim(w)
    BY <2>1 DEF Claim, world
  <2> QED BY <1>1, <2>1, WorkForm DEF Work
<1> QED BY <1>1, WorldStep

\* The ticket that is tagged is the first one, while the ticket system answers.
LEMMA TaggedStep ==
    ASSUME "ticket" \notin Faulty, DriverInv, OneTicket, request \notin {"AUTOMATION", "LEGACY"},
           [Next]_vars
    PROVE  \/ ext'.tagged = ext.tagged
           \/ /\ ext.tagged = {}
              /\ \E w \in Workers : TagTicket(w) /\ ext'.tagged = {me[w].order}
<1>1. ext \in ExtType /\ faults \in Nat
  BY DEF DriverInv, TypeOK
<1>2. CASE ~\E w \in Workers : Work(w) \/ SaveRaises(w) \/ Crash(w)
  BY <1>2, WorldStep
<1>3. ASSUME NEW w \in Workers, Work(w) \/ SaveRaises(w) \/ Crash(w)
      PROVE  \/ ext'.tagged = ext.tagged
             \/ ext.tagged = {} /\ TagTicket(w) /\ ext'.tagged = {me[w].order}
  <2>1. CASE TagTicket(w)
    <3>1. ext.tagged = {}
      BY <2>1 DEF OneTicket, TagTicket
    <3>2. PICK t : t = me[w].order
      OBVIOUS
    <3>3. ext' = [ext EXCEPT !.tagged = @ \cup {t}]
      BY <2>1, <3>2 DEF TagTicket, Call, Raises
    <3>4. ext'.tagged = ext.tagged \cup {t}
      BY <1>1, <3>3 DEF ExtType
    <3>5. ext'.tagged = {t}
      BY <3>1, <3>4
    <3> QED BY <2>1, <3>1, <3>2, <3>5
  <2>2. CASE (ExecuteStep(w) \/ Escalate(w)) /\ ~TagTicket(w)
    BY <1>1, <2>2, WorldFrame
  <2>3. CASE ~(ExecuteStep(w) \/ Escalate(w))
    <3>1. ext' = ext
      BY <1>3, <2>3 DEF Work, Claim, Load, Save, SaveRaises, Crash, world
    <3> QED BY <3>1
  <2> QED BY <2>1, <2>2, <2>3
<1> QED BY <1>2, <1>3

\* What a copy holds depends on its ticket and its step.
LEMMA SameHolds ==
    ASSUME NEW a, NEW b, a.st.ticket = b.st.ticket, a.step = b.step, HoldsTicket(b)'
    PROVE  HoldsTicket(a)'
BY DEF HoldsTicket

\* A copy with no ticket that has not begun.
LEMMA FreshHolds == ASSUME NEW a, a.st.ticket = 0, a.step = "none" PROVE HoldsTicket(a)'
BY DEF HoldsTicket, AfterApproval

\* A step of the worker leaves its copy with the ticket it had, or found, or
\* ordered and tagged.
LEMMA DriveHolds ==
    ASSUME "ticket" \notin Faulty, DriverInv, OneTicket, request \notin {"AUTOMATION", "LEGACY"},
           [Next]_vars, NEW w \in Workers, me[w].pc \in Driving, NEW m, Outcome(w, m)
    PROVE  HoldsTicket(m.run)'
<1> DEFINE old == Run(w)
           t   == m.run.st.ticket
<1>1. \/ ext'.tagged = ext.tagged
      \/ /\ ext.tagged = {}
         /\ \E v \in Workers : TagTicket(v) /\ ext'.tagged = {me[v].order}
  BY TaggedStep
<1>2. HasResource
  <2>1. request # "none"
    BY DEF DriverInv, RowSound, Idle, Driving
  <2>2. request \in Kinds \cup {"none"}
    BY DEF DriverInv, TypeOK
  <2> QED BY <2>1, <2>2 DEF HasResource, Kinds
<1>3. RunSound(old) /\ PointSound(me[w]) /\ old.step \in PlanSteps /\ old.step # "none"
  BY DrivingFacts DEF DriverInv, WorkerSound, Run, Busy, Driving, PointSound
<1>4. HoldsTicket(old) /\ \A x, y \in ext.tagged : x = y
  BY DEF OneTicket, Copies
<1>5. old.st.ticket # 0 => t = old.st.ticket
  <2>1. CASE t \in ext.tagged
    BY <1>4, <2>1 DEF HoldsTicket
  <2>2. CASE TagTicket(w)
    BY <1>3, <2>2 DEF PointSound, TagTicket, Run
  <2> QED BY <2>1, <2>2 DEF Outcome, TicketOf
<1>6. ext.tagged \subseteq ext'.tagged
  BY <1>1
<1>7. t # 0 => t \in ext'.tagged
  <2>1. CASE t = old.st.ticket
    BY <1>4, <1>6, <2>1 DEF HoldsTicket
  <2>2. CASE t \in ext.tagged
    BY <1>6, <2>2
  <2>3. CASE TagTicket(w) /\ t = me[w].order
    <3>1. PICK o : o = me[w].order
      OBVIOUS
    <3>2. ext' = [ext EXCEPT !.tagged = @ \cup {o}]
      BY <2>3, <3>1 DEF TagTicket, Call, Raises
    <3>3. ext'.tagged = ext.tagged \cup {o}
      BY <3>2 DEF DriverInv, TypeOK, ExtType
    <3> QED BY <2>3, <3>1, <3>3
  <2> QED BY <2>1, <2>2, <2>3 DEF Outcome, TicketOf
<1>8. m.run.step \in AfterApproval => old.st.ticket # 0 /\ ext.approval[old.st.ticket] = "approved"
  <2> SUFFICES ASSUME m.run.step \in AfterApproval
               PROVE  old.st.ticket # 0 /\ ext.approval[old.st.ticket] = "approved"
    OBVIOUS
  <2>1. CASE old.step \in AfterApproval
    BY <1>4, <2>1 DEF HoldsTicket
  <2>2. CASE old.step = "AWAIT_APPROVAL"
    <3>1. old.st.ticket # 0
      BY <1>2, <1>3, <2>2 DEF RunSound
    <3>2. m.run.step # old.step /\ m.run.step # "none"
      BY <2>2 DEF AfterApproval
    <3>3. Approved(old.st.ticket)
      BY <2>2, <3>2 DEF Outcome, StepOf
    <3> QED BY <3>1, <3>3 DEF Approved
  <2>3. old.step \in AfterApproval \cup {"AWAIT_APPROVAL"}
    BY DEF Outcome, StepOf, Follows, AfterApproval
  <2> QED BY <2>1, <2>2, <2>3
<1>9. m.run.step \in AfterApproval => t # 0 /\ ext'.approval[t] = "approved"
  <2>1. old.st.ticket # 0 => old.st.ticket \in TicketIds
    BY <1>4 DEF HoldsTicket, DriverInv, TypeOK, ExtType
  <2> QED BY <1>5, <1>8, <2>1, WorldKept
<1> QED BY <1>7, <1>9 DEF HoldsTicket

\* While one worker at a time has the run, no step gives it a second ticket.
LEMMA TicketStep ==
    ASSUME "ticket" \notin Faulty, DriverInv, Exclusive, OneTicket, [Next]_vars
    PROVE  OneTicket'
<1> SUFFICES ASSUME request' \notin {"AUTOMATION", "LEGACY"} PROVE OneTicket'
  BY DEF OneTicket
<1>1. request \notin {"AUTOMATION", "LEGACY"}
  BY RequestKept
<1>2. /\ \A s, t \in ext.tagged : s = t
      /\ Launched # {} => \E t \in ext.tagged : ext.approval[t] = "approved"
      /\ \A w \in Workers : me[w].pc \in {"order", "tag"} => ext.tagged = {}
      /\ HoldsTicket(row) /\ \A w \in Workers : HoldsTicket(me[w].run)
  BY <1>1 DEF OneTicket, Copies, Run
<1>3. /\ me \in [Workers -> WorkerType] /\ row \in RunType /\ ext.tagged \subseteq TicketIds
  BY DEF DriverInv, TypeOK, ExtType
<1>4. \/ ext'.tagged = ext.tagged
      \/ /\ ext.tagged = {}
         /\ \E w \in Workers : TagTicket(w) /\ ext'.tagged = {me[w].order}
  BY <1>1, TaggedStep
<1>5. (\A s, t \in ext'.tagged : s = t) /\ ext.tagged \subseteq ext'.tagged
  BY <1>2, <1>4
<1>6. Launched' # {} => \E t \in ext'.tagged : ext'.approval[t] = "approved"
  <2>1. CASE Launched' = Launched
    BY <1>2, <1>3, <1>5, <2>1, WorldKept
  <2>2. ASSUME NEW w \in Workers, TriggerEngine(w)
        PROVE  \E t \in ext'.tagged : ext'.approval[t] = "approved"
    <3>1. Run(w).step \in AfterApproval
      BY <2>2 DEF TriggerEngine, At, AfterApproval
    <3>2. Run(w).st.ticket \in ext.tagged /\ ext.approval[Run(w).st.ticket] = "approved"
      BY <1>2, <3>1 DEF HoldsTicket, Run
    <3> QED BY <1>3, <1>5, <3>2, WorldKept
  <2> QED BY <2>1, <2>2, WorldKept
<1>7. \A run : HoldsTicket(run) => HoldsTicket(run)'
  BY <1>5, HoldsKept
<1>8. SUFFICES /\ \A w \in Workers : me'[w].pc \in {"order", "tag"} => ext'.tagged = {}
               /\ HoldsTicket(row)' /\ \A w \in Workers : HoldsTicket(me[w].run)'
  BY <1>5, <1>6 DEF OneTicket, Copies, Run
<1>9. PICK old : old = row
  OBVIOUS
<1>10. PICK new : new = row'
  OBVIOUS
<1>11. HoldsTicket(old)'
  BY <1>2, <1>7, <1>9
<1>12. HoldsTicket(new)' <=> HoldsTicket(row)'
  BY <1>10 DEF HoldsTicket
<1>13. CASE ~\E w \in Workers : Work(w) \/ SaveRaises(w) \/ Crash(w)
  <2>1. /\ me' = me /\ ext'.tagged = ext.tagged
        /\ \/ row'.st = row.st /\ row'.step = row.step
           \/ row'.st = NewState(request') /\ row'.step = "none"
    BY <1>13, WorldStep
  <2>2. NewState(request').ticket = 0
    BY DEF NewState
  <2>3. HoldsTicket(new)'
    <3>1. CASE row'.st = row.st /\ row'.step = row.step
      BY <1>9, <1>10, <1>11, <3>1, SameHolds
    <3>2. CASE row'.st = NewState(request') /\ row'.step = "none"
      BY <1>10, <2>2, <3>2, FreshHolds
    <3> QED BY <2>1, <3>1, <3>2
  <2>4. ASSUME NEW w \in Workers PROVE HoldsTicket(me[w].run)'
    <3>1. PICK r : r = me[w].run
      OBVIOUS
    <3>2. HoldsTicket(r)' /\ me'[w].run = r
      BY <1>2, <1>7, <2>1, <3>1
    <3> QED BY <3>2 DEF HoldsTicket
  <2> QED BY <1>2, <1>12, <2>1, <2>3, <2>4
<1>14. ASSUME NEW w \in Workers, NEW m, me' = [me EXCEPT ![w] = m], HoldsTicket(m.run)',
              HoldsTicket(new)', m.pc \in {"order", "tag"} => ext'.tagged = {}
       PROVE  /\ \A v \in Workers : me'[v].pc \in {"order", "tag"} => ext'.tagged = {}
              /\ HoldsTicket(row)' /\ \A v \in Workers : HoldsTicket(me[v].run)'
  <2>1. me'[w] = m /\ \A v \in Workers : v # w => me'[v] = me[v]
    BY <1>3, <1>14
  <2>2. ASSUME NEW v \in Workers PROVE HoldsTicket(me[v].run)'
    <3>1. PICK r : r = IF v = w THEN m.run ELSE me[v].run
      OBVIOUS
    <3>2. me'[v].run = r
      BY <2>1, <3>1
    <3>3. HoldsTicket(r)'
      BY <1>2, <1>7, <1>14, <3>1
    <3> QED BY <3>2, <3>3 DEF HoldsTicket
  <2>3. ASSUME NEW v \in Workers, me'[v].pc \in {"order", "tag"} PROVE ext'.tagged = {}
    <3>1. CASE v # w
      <4>1. ext.tagged = {} /\ me[v].pc \in {"order", "tag"}
        BY <1>2, <2>1, <2>3, <3>1
      <4>2. ASSUME NEW u \in Workers, TagTicket(u) PROVE FALSE
        <5>1. u = v
          BY <4>1, <4>2 DEF Exclusive, TagTicket
        <5>2. ExecuteStep(v) /\ me[v].pc = "tag"
          BY <4>2, <5>1 DEF ExecuteStep, TagTicket
        <5>3. PICK n : me' = [me EXCEPT ![v] = n] /\ Outcome(v, n)
          BY <5>2, ExecuteLeaves DEF Leaves
        <5>4. n.pc \notin {"order", "tag"} /\ me'[v] = n
          BY <1>3, <5>2, <5>3 DEF Outcome
        <5> QED BY <2>3, <5>4
      <4> QED BY <1>4, <4>1, <4>2
    <3>2. CASE v = w
      BY <1>14, <2>1, <2>3, <3>2
    <3> QED BY <3>1, <3>2
  <2> QED BY <1>12, <1>14, <2>2, <2>3
<1>15. CASE \E w \in Workers : Work(w) \/ SaveRaises(w) \/ Crash(w)
  <2>1. PICK w \in Workers : Work(w) \/ SaveRaises(w) \/ Crash(w)
    BY <1>15
  <2>2. PICK mine : mine = Run(w)
    OBVIOUS
  <2>3. HoldsTicket(mine)' /\ mine \in RunType
    BY <1>2, <1>3, <1>7, <2>2 DEF Run, WorkerType
  <2>4. Idle.pc = "idle" /\ HoldsTicket(Idle.run)'
    <3>1. Idle.run.st.ticket = 0 /\ Idle.run.step = "none"
      BY DEF Idle, Blank, NewState
    <3> QED BY <3>1, FreshHolds DEF Idle
  <2>5. row' = row => HoldsTicket(new)'
    BY <1>9, <1>10, <1>11
  <2>6. ASSUME Write(w) PROVE HoldsTicket(new)'
    <3>1. PICK n : new = [mine EXCEPT !.version = n]
      BY <1>10, <2>2, <2>6 DEF Write
    <3>2. new.st = mine.st /\ new.step = mine.step
      BY <2>3, <3>1, CopyFields
    <3> QED BY <2>3, <3>2, SameHolds
  <2>7. CASE Claim(w)
    <3>1. row' = [row EXCEPT !.date = "future"]
      BY <2>7 DEF Claim
    <3>2. new.st = old.st /\ new.step = old.step
      BY <1>3, <1>9, <1>10, <3>1, CopyFields
    <3>3. HoldsTicket(new)'
      BY <1>11, <3>2, SameHolds
    <3>4. PICK m : m = [me[w] EXCEPT !.pc = "claimed"]
      OBVIOUS
    <3>5. m.pc = "claimed" /\ m.run = mine
      BY <1>3, <2>2, <3>4 DEF WorkerType, Run
    <3>6. me' = [me EXCEPT ![w] = m]
      BY <2>7, <3>4 DEF Claim
    <3> QED BY <1>14, <2>3, <3>3, <3>5, <3>6
  <2>8. CASE Load(w)
    <3>1. row' = row
      BY <2>8 DEF Load
    <3>2. CASE me' = [me EXCEPT ![w] = Idle]
      BY <1>14, <2>4, <2>5, <3>1, <3>2
    <3>3. ASSUME NEW m, me' = [me EXCEPT ![w] = m], m.pc \in {"overdue", "step"},
                 m.run.st = row.st, m.run.step = IF row.step = "none" THEN Plan[1] ELSE row.step
          PROVE  HoldsTicket(m.run)'
      <4>1. Plan[1] = "CREATE_TICKET"
        BY <1>1, ResourcePlan
      <4>2. CASE row.step = "none"
        <5>1. m.run.step = "CREATE_TICKET" /\ m.run.st.ticket = old.st.ticket
          BY <1>9, <3>3, <4>1, <4>2
        <5> QED BY <1>11, <5>1 DEF HoldsTicket, AfterApproval
      <4>3. CASE row.step # "none"
        <5>1. m.run.step = old.step /\ m.run.st.ticket = old.st.ticket
          BY <1>9, <3>3, <4>3
        <5> QED BY <1>11, <5>1, SameHolds
      <4> QED BY <4>2, <4>3
    <3> QED BY <1>3, <1>14, <2>5, <2>8, <3>1, <3>2, <3>3, LoadFields
  <2>9. CASE ExecuteStep(w)
    <3>1. row' = row
      BY <2>9, ExecuteStepSound DEF SoundStep, others
    <3>2. PICK m : me' = [me EXCEPT ![w] = m] /\ Outcome(w, m)
      BY <2>9, ExecuteLeaves DEF Leaves
    <3>3. HoldsTicket(m.run)'
      BY <1>1, <2>9, <3>2, ExecuteLeaves, DriveHolds
    <3>4. ASSUME m.pc \in {"order", "tag"} PROVE ext'.tagged = {}
      <4>1. ext.tagged = {} /\ me[w].pc \in {"step", "order"}
        BY <1>2, <3>2, <3>4 DEF Outcome
      <4>2. \A u \in Workers : ~TagTicket(u)
        BY <4>1 DEF Exclusive, TagTicket
      <4> QED BY <1>4, <4>1, <4>2
    <3> QED BY <1>14, <2>5, <3>1, <3>2, <3>3, <3>4
  <2>10. CASE Escalate(w)
    <3>1. row' = row
      BY <2>10, EscalateSound DEF SoundStep, others
    <3>2. PICK m : /\ me' = [me EXCEPT ![w] = m]
                   /\ m.pc \in (Escalating \cup {"save"}) \ {"incident"}
                   /\ m.run.step = Run(w).step /\ m.run.st.ticket = Run(w).st.ticket
      BY <1>3, <2>10, EscalateFields
    <3>3. HoldsTicket(m.run)'
      BY <2>2, <2>3, <3>2, SameHolds
    <3>4. m.pc \notin {"order", "tag"}
      BY <3>2 DEF Escalating
    <3> QED BY <1>14, <2>5, <3>1, <3>2, <3>3, <3>4
  <2>11. CASE Save(w)
    <3>1. me' = [me EXCEPT ![w] = Idle] /\ (Write(w) \/ row' = row)
      BY <2>11 DEF Save
    <3> QED BY <1>14, <2>4, <2>5, <2>6, <3>1
  <2>12. CASE SaveRaises(w)
    <3>1. (Write(w) \/ row' = row) /\ me[w].pc = "save"
      BY <2>12 DEF SaveRaises
    <3>2. CASE SaveRaised(w)
      <4>1. PICK m : /\ me' = [me EXCEPT ![w] = m] /\ m.pc \in {me[w].pc, "incident"}
                     /\ m.run.step = Run(w).step /\ m.run.st = Run(w).st
        BY <1>3, <3>2, SaveRaisedFields
      <4>2. HoldsTicket(m.run)'
        BY <2>2, <2>3, <4>1, SameHolds
      <4>3. m.pc \notin {"order", "tag"}
        BY <3>1, <4>1
      <4> QED BY <1>14, <2>5, <2>6, <3>1, <4>1, <4>2, <4>3
    <3>3. CASE me' = [me EXCEPT ![w] = Idle]
      BY <1>14, <2>4, <2>5, <2>6, <3>1, <3>3
    <3> QED BY <2>12, <3>2, <3>3 DEF SaveRaises
  <2>13. CASE Crash(w)
    <3>1. me' = [me EXCEPT ![w] = Idle] /\ row' = row
      BY <2>13 DEF Crash
    <3> QED BY <1>14, <2>4, <2>5, <3>1
  <2> QED BY <2>1, <2>7, <2>8, <2>9, <2>10, <2>11, <2>12, <2>13 DEF Work
<1> QED BY <1>13, <1>15

\* A worker that starts an engine run has a run that nobody rejected, and one
\* that reads a rejection has started none.
LEMMA RejectionStep ==
    ASSUME DriverInv, Exclusive, OneTicket, RejectionsUntouched, [Next]_vars
    PROVE  RejectionsUntouched'
<1>1. /\ me \in [Workers -> WorkerType] /\ row \in RunType
  BY DEF DriverInv, TypeOK
<1>2. /\ row.status = "REJECTED" => Launched = {}
      /\ \A w \in Workers : me[w].run.status = "REJECTED" => Launched = {}
  BY DEF RejectionsUntouched, Copies, Run
<1> SUFFICES /\ row'.status = "REJECTED" => Launched' = {}
             /\ \A w \in Workers : me'[w].run.status = "REJECTED" => Launched' = {}
  BY DEF RejectionsUntouched, Copies, Run
<1>3. Idle.run.status = "ABSENT" /\ Idle.pc = "idle"
  BY DEF Idle, Blank
<1>4. CASE \E w \in Workers : TriggerEngine(w)
  <2>1. PICK w \in Workers : TriggerEngine(w)
    BY <1>4
  <2>2. ExecuteStep(w) /\ Run(w).step = "RUN_ENGINE"
    BY <2>1 DEF ExecuteStep, TriggerEngine, At
  <2>3. me[w].pc \in Driving /\ Leaves(w) /\ ~me[w].quiet /\ row' = row /\ me[w].pc # "idle"
    BY <2>2, ExecuteLeaves, DrivingFacts, ExecuteStepSound DEF SoundStep, others, Driving
  <2>4. row'.status # "REJECTED"
    BY <2>3, HolderIsCurrent DEF Busy, Active
  <2>5. PICK m : me' = [me EXCEPT ![w] = m] /\ Outcome(w, m)
    BY <2>3 DEF Leaves
  <2>6. m.run.status # "REJECTED"
    BY <2>2, <2>5 DEF Outcome
  <2>7. \A v \in Workers : v # w => me[v] = Idle
    BY <2>3 DEF Exclusive, DriverInv, WorkerSound, PointSound
  <2>8. \A v \in Workers : me'[v] = IF v = w THEN m ELSE me[v]
    BY <1>1, <2>5
  <2> QED BY <1>3, <2>4, <2>6, <2>7, <2>8
<1>5. CASE ~\E w \in Workers : TriggerEngine(w)
  <2>1. Launched' = Launched
    BY <1>5, WorldKept
  <2>2. CASE ~\E w \in Workers : Work(w) \/ SaveRaises(w) \/ Crash(w)
    <3>1. me' = me /\ row'.status \in {row.status, "PENDING"}
      BY <2>2, WorldStep
    <3> QED BY <1>2, <2>1, <3>1
  <2>3. ASSUME NEW w \in Workers, NEW m, me' = [me EXCEPT ![w] = m],
               m.run.status = "REJECTED" => Launched = {},
               row'.status \in {row.status, Run(w).status}
        PROVE  /\ row'.status = "REJECTED" => Launched' = {}
               /\ \A v \in Workers : me'[v].run.status = "REJECTED" => Launched' = {}
    <3>1. \A v \in Workers : me'[v] = IF v = w THEN m ELSE me[v]
      BY <1>1, <2>3
    <3> QED BY <1>2, <2>1, <2>3, <3>1 DEF Run
  <2>4. ASSUME NEW w \in Workers, Work(w) \/ SaveRaises(w) \/ Crash(w)
        PROVE  /\ row'.status = "REJECTED" => Launched' = {}
               /\ \A v \in Workers : me'[v].run.status = "REJECTED" => Launched' = {}
    <3>1. Run(w) \in RunType /\ (Run(w).status = "REJECTED" => Launched = {})
      BY <1>1, <1>2 DEF Run, WorkerType
    <3>2. ASSUME Write(w) PROVE row'.status = Run(w).status
      <4>1. PICK n : row' = [Run(w) EXCEPT !.version = n]
        BY <3>2 DEF Write
      <4> QED BY <3>1, <4>1, CopyFields
    <3>3. CASE Claim(w)
      <4>1. row' = [row EXCEPT !.date = "future"]
        BY <3>3 DEF Claim
      <4>2. row'.status = row.status
        BY <1>1, <4>1, CopyFields
      <4>3. PICK m : m = [me[w] EXCEPT !.pc = "claimed"]
        OBVIOUS
      <4>4. m.run = Run(w) /\ me' = [me EXCEPT ![w] = m]
        BY <1>1, <3>3, <4>3 DEF WorkerType, Run, Claim
      <4> QED BY <2>3, <3>1, <4>2, <4>4
    <3>4. CASE Load(w)
      <4>1. row' = row
        BY <3>4 DEF Load
      <4>2. PICK m : me' = [me EXCEPT ![w] = m] /\ m.run.status # "REJECTED"
        BY <1>1, <1>3, <3>4, LoadFields
      <4> QED BY <2>3, <4>1, <4>2
    <3>5. CASE ExecuteStep(w)
      <4>1. row' = row /\ me[w].pc \in Driving
        BY <3>5, ExecuteStepSound, ExecuteLeaves DEF SoundStep, others
      <4>2. PICK m : me' = [me EXCEPT ![w] = m] /\ Outcome(w, m)
        BY <3>5, ExecuteLeaves DEF Leaves
      <4>3. ASSUME m.run.status = "REJECTED" PROVE Launched = {}
        <5>1. Run(w).step = "AWAIT_APPROVAL" /\ ext.approval[Run(w).st.ticket] = "rejected"
          BY <4>2, <4>3 DEF Outcome
        <5>2. Run(w).step \in PlanSteps /\ RunSound(Run(w)) /\ request # "none"
          BY <4>1, DrivingFacts
             DEF DriverInv, WorkerSound, RowSound, Idle, Driving, Busy, Run
        <5>3. request \notin {"AUTOMATION", "LEGACY"}
          BY <5>1, <5>2, AutomationPlan, LegacyPlan
        <5>4. HasResource
          BY <5>2, <5>3 DEF HasResource, DriverInv, TypeOK, Kinds
        <5>5. Run(w).st.ticket # 0
          BY <5>1, <5>2, <5>4 DEF RunSound
        <5>6. Run(w).st.ticket \in ext.tagged
          BY <5>3, <5>5 DEF OneTicket, HoldsTicket, Copies
        <5>7. /\ \A s, t \in ext.tagged : s = t
              /\ Launched # {} => \E t \in ext.tagged : ext.approval[t] = "approved"
          BY <5>3 DEF OneTicket
        <5> QED BY <5>1, <5>6, <5>7
      <4> QED BY <2>3, <4>1, <4>2, <4>3
    <3>6. CASE Escalate(w)
      <4>1. row' = row
        BY <3>6, EscalateSound DEF SoundStep, others
      <4>2. PICK m : me' = [me EXCEPT ![w] = m] /\ m.run.status = Run(w).status
        BY <1>1, <3>6, EscalateFields
      <4> QED BY <2>3, <3>1, <4>1, <4>2
    <3>7. CASE Save(w)
      <4>1. me' = [me EXCEPT ![w] = Idle] /\ (Write(w) \/ row' = row)
        BY <3>7 DEF Save
      <4> QED BY <1>3, <2>3, <3>2, <4>1
    <3>8. CASE SaveRaises(w)
      <4>1. Write(w) \/ row' = row
        BY <3>8 DEF SaveRaises
      <4>2. PICK m : me' = [me EXCEPT ![w] = m] /\ m.run.status # "REJECTED"
        <5>1. CASE SaveRaised(w)
          BY <1>1, <5>1, SaveRaisedFields
        <5>2. CASE me' = [me EXCEPT ![w] = Idle]
          BY <1>3, <5>2
        <5> QED BY <3>8, <5>1, <5>2 DEF SaveRaises
      <4> QED BY <2>3, <3>2, <4>1, <4>2
    <3>9. CASE Crash(w)
      <4>1. me' = [me EXCEPT ![w] = Idle] /\ row' = row
        BY <3>9 DEF Crash
      <4> QED BY <1>3, <2>3, <4>1
    <3> QED BY <2>4, <3>3, <3>4, <3>5, <3>6, <3>7, <3>8, <3>9 DEF Work
  <2> QED BY <2>2, <2>4
<1> QED BY <1>4, <1>5

\* While the ticket system answers and one worker at a time has the run, the run
\* has one ticket, and one whose approver said no has started no engine run:
\* AwaitApprovalStep reads the ticket the run keeps, and comes before
\* RunEngineStep.
THEOREM RejectedRunsAreUntouched ==
    ASSUME LeaseCovers, MaxWakes = 0, "ticket" \notin Faulty
    PROVE  Spec => []RejectedUntouched
<1>1. Init => OneTicket /\ RejectionsUntouched
  <2> SUFFICES ASSUME Init PROVE OneTicket /\ RejectionsUntouched
    OBVIOUS
  <2>1. /\ row.status = "ABSENT" /\ row.st.ticket = 0 /\ row.step = "none"
        /\ \A w \in Workers : me[w].pc = "idle" /\ me[w].run = row
    BY DEF Init, Blank, Idle, NewState
  <2>2. ext.tagged = {} /\ Launched = {}
    BY DEF Init, Launched
  <2>3. HoldsTicket(row) /\ \A run \in Copies : run = row
    BY <2>1 DEF HoldsTicket, AfterApproval, Copies, Run
  <2> QED BY <2>1, <2>2, <2>3 DEF OneTicket, RejectionsUntouched
<1>2. Sole => Exclusive
  BY DEF Sole, Unwoken
<1>3. DriverInv /\ Sole /\ OneTicket /\ RejectionsUntouched /\ [Next]_vars
         => (OneTicket /\ RejectionsUntouched)'
  BY <1>2, TicketStep, RejectionStep
<1>4. RejectionsUntouched => RejectedUntouched
  BY DEF RejectionsUntouched, RejectedUntouched
<1> QED BY <1>1, <1>3, <1>4, DriverInvariant, DrivesAreSole, PTL DEF Spec
=============================================================================
