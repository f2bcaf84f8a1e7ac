----------------------- MODULE FailureReportingProofs -----------------------
(***************************************************************************)
(* One renewal is enough for every set of callers, a run that is taken for *)
(* a success was one, and every incident reaches the team that owns the    *)
(* failure, for every set of DAG outcomes, groups and retries.             *)
(***************************************************************************)
EXTENDS FailureReporting, WellFoundedInduction, TLAPS

-----------------------------------------------------------------------------
(* The session. *)

\* A new session satisfies the invariant.
LEMMA SessionStarts == SessionInit => SessionInv /\ RefusedOnlyOnExpiry
BY SessionAssumption
   DEF SessionInit, SessionInv, RefusedOnlyOnExpiry, AtRest, Requests, Points

\* No step of the client, of a caller or of the engine breaks it.
LEMMA SessionSteps ==
    ASSUME SessionInv, RefusedOnlyOnExpiry, [SessionNext]_session
    PROVE  SessionInv' /\ RefusedOnlyOnExpiry'
<1> USE SessionAssumption
<1>1. ASSUME NEW c \in Callers, Request(c) \/ Take(c, AtRest) \/ Take(c, Begun)
      PROVE  SessionInv' /\ RefusedOnlyOnExpiry'
  <2>1. PICK r \in {AtRest, Begun} :
           /\ req' = [req EXCEPT ![c] = r]
           /\ UNCHANGED <<token, issued, expired, faults>>
    BY <1>1 DEF Request, Take
  <2>2. /\ r \in Requests
        /\ r.bearer <= issued
        /\ r.pc \in {"idle", "login", "send"}
        /\ r.pc = "send" => r.bearer # 0
    <3>1. \/ r = [pc |-> "idle", bearer |-> 0, lapsed |-> FALSE]
          \/ r = [pc |-> "login", bearer |-> 0, lapsed |-> FALSE]
          \/ token # 0 /\ r = [pc |-> "send", bearer |-> token, lapsed |-> FALSE]
      BY <2>1 DEF AtRest, Begun
    <3>2. token \in 0 .. MaxTokens /\ issued \in Nat /\ token <= issued
      BY DEF SessionInv
    <3>3. CASE r = [pc |-> "idle", bearer |-> 0, lapsed |-> FALSE]
      BY <3>2, <3>3 DEF Requests, Points
    <3>4. CASE r = [pc |-> "login", bearer |-> 0, lapsed |-> FALSE]
      BY <3>2, <3>4 DEF Requests, Points
    <3>5. CASE token # 0 /\ r = [pc |-> "send", bearer |-> token, lapsed |-> FALSE]
      BY <3>2, <3>5 DEF Requests, Points
    <3> QED
      BY <3>1, <3>3, <3>4, <3>5
  <2>3. \A d \in Callers : req'[d] = IF d = c THEN r ELSE req[d]
    BY <2>1 DEF SessionInv
  <2>4. req' \in [Callers -> Requests]
    BY <2>1, <2>2 DEF SessionInv
  <2> QED
    BY <2>1, <2>2, <2>3, <2>4 DEF SessionInv, RefusedOnlyOnExpiry
<1>2. ASSUME NEW c \in Callers, Grant(c)
      PROVE  SessionInv' /\ RefusedOnlyOnExpiry'
  BY <1>2 DEF Grant, SessionInv, RefusedOnlyOnExpiry, Requests, Points
<1>3. ASSUME NEW c \in Callers, Receive(c)
      PROVE  SessionInv' /\ RefusedOnlyOnExpiry'
  BY <1>3 DEF Receive, SessionInv, RefusedOnlyOnExpiry, Requests, Points
<1>4. ASSUME NEW c \in Callers, Send(c)
      PROVE  SessionInv' /\ RefusedOnlyOnExpiry'
  BY <1>4 DEF Send, Renewal, SessionInv, RefusedOnlyOnExpiry, Requests, Points
<1>5. ASSUME NEW c \in Callers, Resend(c)
      PROVE  SessionInv' /\ RefusedOnlyOnExpiry'
  BY <1>5 DEF Resend, SessionInv, RefusedOnlyOnExpiry, Requests, Points
<1>6. ASSUME NEW c \in Callers, Raise(c)
      PROVE  SessionInv' /\ RefusedOnlyOnExpiry'
  BY <1>6 DEF Raise, SessionInv, RefusedOnlyOnExpiry, Requests, Points
<1>7. ASSUME NEW t \in Tokens, Expire(t)
      PROVE  SessionInv' /\ RefusedOnlyOnExpiry'
  BY <1>7 DEF Expire, SessionInv, RefusedOnlyOnExpiry, Requests, Points
<1>8. ASSUME UNCHANGED session
      PROVE  SessionInv' /\ RefusedOnlyOnExpiry'
  BY <1>8 DEF session, SessionInv, RefusedOnlyOnExpiry
<1> QED
  BY <1>1, <1>2, <1>3, <1>4, <1>5, <1>6, <1>7, <1>8 DEF SessionNext, Transport

\* Every step of a reporter, of the ticket system and of the environment is a
\* step of the session or leaves it alone.
LEMMA ReportStepIsSessionStep == ASSUME [Next]_vars PROVE [SessionNext]_session
<1> USE ReportAssumption
<1>1. ASSUME NEW c \in Reporters, NEW r, Proceed(c, r)
      PROVE  SessionNext
  BY <1>1 DEF Proceed, SessionNext
<1>2. ASSUME NEW c \in Reporters, Engine(c)
      PROVE  SessionNext
  <2>1. CASE BeginCall(c)
    BY <2>1 DEF BeginCall, SessionNext
  <2>2. CASE TriggerWorkflow(c)
    BY <1>1, <2>2 DEF TriggerWorkflow
  <2>3. CASE QueryRunStatus(c)
    BY <1>1, <2>3 DEF QueryRunStatus
  <2>4. CASE ListTasks(c)
    BY <1>1, <2>4 DEF ListTasks
  <2>5. CASE ProbeTask(c)
    BY <1>1, <2>5 DEF ProbeTask
  <2>6. CASE FailedTaskInstances(c)
    BY <1>1, <2>6 DEF FailedTaskInstances
  <2>7. CASE ReadException(c)
    BY <1>1, <2>7 DEF ReadException
  <2>8. CASE FailCall(c)
    BY <1>1, <2>8 DEF FailCall
  <2> QED
    BY <1>2, <2>1, <2>2, <2>3, <2>4, <2>5, <2>6, <2>7, <2>8 DEF Engine
<1>3. ASSUME NEW c \in Reporters, Ticket(c)
      PROVE  [SessionNext]_session
  BY <1>3 DEF Ticket, AssignGroup, AssignDefault, OpenIncident, TicketRaises, Ticketing
<1>4. ASSUME NEW c \in Reporters, EndDag(c)
      PROVE  UNCHANGED session
  BY <1>4 DEF EndDag
<1>5. ASSUME NEW c \in Callers \ Reporters, OtherCall(c)
      PROVE  SessionNext
  BY <1>5 DEF OtherCall, SessionNext
<1>6. ASSUME NEW g \in Missing, CreateGroup(g)
      PROVE  UNCHANGED session
  BY <1>6 DEF CreateGroup
<1>7. ASSUME Transport
      PROVE  SessionNext
  BY <1>7 DEF SessionNext
<1>8. ASSUME UNCHANGED vars
      PROVE  UNCHANGED session
  BY <1>8 DEF vars
<1> QED
  BY <1>2, <1>3, <1>4, <1>5, <1>6, <1>7, <1>8 DEF Next

\* A caller of the shared client is refused only if the token it logged in
\* for expired under way, for every number of callers (_request).
THEOREM OneRenewalIsEnough == SessionSpec => []RefusedOnlyOnExpiry
<1>1. SessionInit => SessionInv /\ RefusedOnlyOnExpiry
  BY SessionStarts
<1>2. SessionInv /\ RefusedOnlyOnExpiry /\ [SessionNext]_session => (SessionInv /\ RefusedOnlyOnExpiry)'
  BY SessionSteps
<1> QED
  BY <1>1, <1>2, PTL DEF SessionSpec

\* The reporters use the session as any caller may: failure reporting
\* implements the session.
THEOREM ReportingUsesSession == Spec => SessionSpec
<1>1. Init => SessionInit
  BY DEF Init
<1>2. [Next]_vars => [SessionNext]_session
  BY ReportStepIsSessionStep
<1> QED
  BY <1>1, <1>2, PTL DEF Spec, SessionSpec

-----------------------------------------------------------------------------
(* What the DAG runs publish. *)

\* The first of some naturals is one of them.
LEMMA FirstExists ==
    ASSUME NEW S \in SUBSET Nat, S # {}
    PROVE  First(S) \in S
<1>1. PICK t \in S : \A u \in S : ~(<<u, t>> \in OpToRel(<, Nat))
  BY NatLessThanWellFounded, WFMin
<1>2. \A u \in S : t <= u
  <2> SUFFICES ASSUME NEW u \in S, ~(t <= u) PROVE FALSE
    OBVIOUS
  <2>1. u \in Nat /\ t \in Nat /\ u < t
    OBVIOUS
  <2>2. <<u, t>> \in {ss \in Nat \X Nat : ss[1] < ss[2]}
    BY <2>1
  <2> QED
    BY <1>1, <2>2 DEF OpToRel
<1> QED
  BY <1>2 DEF First

\* A least element is the first.
LEMMA FirstIs ==
    ASSUME NEW S \in SUBSET Nat, NEW t \in S, \A u \in S : t <= u
    PROVE  First(S) = t
<1>1. First(S) \in S /\ \A u \in S : First(S) <= u
  BY DEF First
<1>2. First(S) \in Nat /\ t \in Nat /\ First(S) <= t /\ t <= First(S)
  BY <1>1
<1> QED
  BY <1>2

\* The tasks of a DAG run.
LEMMA DagTasks ==
    ASSUME NEW d \in Dags
    PROVE  /\ d.state \in {"success", "failed"}
           /\ Len(d.tasks) \in Nat
           /\ DOMAIN d.tasks = 1 .. Len(d.tasks)
           /\ \A t \in DOMAIN d.tasks : d.tasks[t] \in Tasks
           /\ FailedInstances(d) \in SUBSET Nat
           /\ ReportedBy(d) \in SUBSET Nat
<1>1. d \in [state : {"success", "failed"}, tasks : Seq(Tasks)]
  BY ReportAssumption
<1>2. d.tasks \in Seq(Tasks) /\ d.state \in {"success", "failed"}
  BY <1>1
<1> QED
  BY <1>2 DEF FailedInstances, ReportedBy

\* What is required of the record of a run, whatever the others are.
Sound(r) ==
    /\ r \in Runs
    /\ Reading(r)
    /\ Routing(r)
    /\ r.stage = "succeeded" => Fulfilled(r.dag)

\* A step that replaces one sound run by another keeps the invariant.
LEMMA Replaced ==
    ASSUME ReportInv, NEW c \in Reporters, NEW r, Sound(r),
           run' = [run EXCEPT ![c] = r], memo \subseteq memo', groups \subseteq groups',
           r.stage \in Routes => r.seen \subseteq memo' \cup groups',
           groups' \subseteq Groups, memo' \subseteq groups' \cup Seeded,
           SessionInv', IncidentReachesOwner'
    PROVE  ReportInv'
<1>1. run' \in [Reporters -> Runs] /\ \A d \in Reporters : run'[d] = IF d = c THEN r ELSE run[d]
  BY DEF ReportInv, TypeOK, Sound
<1>2. \A d \in Reporters : /\ Reading(run'[d])
                           /\ Routing(run'[d])
                           /\ run'[d].stage \in Routes => run'[d].seen \subseteq memo' \cup groups'
                           /\ run'[d].stage = "succeeded" => Fulfilled(run'[d].dag)
  BY <1>1 DEF ReportInv, Sound, SuccessIsReal, Resolvable
<1> QED
  BY <1>1, <1>2 DEF ReportInv, TypeOK, SuccessIsReal, Resolvable

\* Where an incident is asked for after a failure of r.
Team(r, classified) ==
    IF classified /\ r.failure # None /\ r.failure.group # None THEN r.failure.group ELSE Default

\* _on_step_error leaves a sound run if the team it asks for is the one that
\* owns the failure.
LEMMA StepErrorSound ==
    ASSUME TypeOK, NEW r \in Runs, NEW kind, NEW classified \in BOOLEAN,
           r.attempts <= MaxRetries, ~r.doc,
           kind # "VALIDATION" => Team(r, classified) = Due(r)
    PROVE  LET s == StepError(r, kind, classified)
           IN  /\ Sound(s)
               /\ s.stage \notin Calls
               /\ s.stage \in Routes => s.seen \subseteq Resolvable
<1> DEFINE f == [r EXCEPT !.attempts = @ + 1, !.classified = classified,
                          !.key = "flow_failed", !.i = 0, !.task = 0, !.group = None]
           s == StepError(r, kind, classified)
<1>1. /\ f \in Runs /\ f.attempts = r.attempts + 1 /\ f.doc = r.doc /\ f.lost = r.lost
      /\ f.dag = r.dag /\ f.failure = r.failure
  <2>1. r.attempts + 1 \in 0 .. MaxRetries + 1
    BY ReportAssumption DEF Runs
  <2> QED
    BY <2>1 DEF Runs
<1> HIDE DEF f, s
<1>2. CASE kind = "VALIDATION"
  <2>1. s = [f EXCEPT !.stage = "closed"]
    BY <1>2 DEF StepError, f, s
  <2>2. s \in Runs /\ s.stage = "closed"
    BY <1>1, <2>1 DEF Runs, Stages
  <2> QED
    BY <2>2 DEF Sound, Reading, Routing, Calls, Routes, s
<1>3. CASE kind # "VALIDATION" /\ f.attempts <= MaxRetries
  <2>1. s = [f EXCEPT !.dag = None, !.failure = None, !.lost = FALSE, !.stage = "new"]
    BY <1>1, <1>3 DEF StepError, ResetForRetry, Runs, f, s
  <2>2. /\ s \in Runs /\ s.stage = "new" /\ s.failure = None /\ s.lost = FALSE
        /\ s.doc = f.doc /\ s.attempts = f.attempts
    BY <1>1, <2>1 DEF Runs, Stages
  <2> QED
    BY <1>1, <1>3, <2>2 DEF Sound, Reading, Routing, Calls, Routes, s
<1>4. CASE kind # "VALIDATION" /\ ~(f.attempts <= MaxRetries)
  <2>1. s = [f EXCEPT !.stage = "assign", !.asked = Team(r, classified), !.seen = Resolvable]
    BY <1>4 DEF StepError, Asking, Team, f, s
  <2>2. Team(r, classified) \in Groups
    BY ReportAssumption DEF Team, Runs, EngineFailure
  <2>3. Resolvable \subseteq Groups
    BY ReportAssumption DEF TypeOK, Resolvable
  <2>4. /\ s \in Runs /\ s.stage = "assign" /\ s.asked = Team(r, classified) /\ s.seen = Resolvable
        /\ s.doc = r.doc /\ s.lost = r.lost /\ s.dag = r.dag
    BY <1>1, <2>1, <2>2, <2>3 DEF Runs, Stages, Routes
  <2>5. Due(s) = Due(r)
    BY <2>4 DEF Due
  <2> QED
    BY <1>4, <2>2, <2>4, <2>5 DEF Sound, Reading, Routing, Calls, Routes, s
<1> QED
  BY <1>2, <1>3, <1>4 DEF s

\* The next probe, or the end of get_output: nothing was published.
LEMMA ProbingSound ==
    ASSUME NEW r, Sound(r), r.stage \in {"list", "probe"}, NEW i \in Nat, i # 0,
           \A j \in DOMAIN r.dag.tasks : j < i => ~Published(r.dag.tasks[j], r.key)
    PROVE  Sound(Probing(r, i)) /\ Probing(r, i).stage \notin Routes
<1> DEFINE s == Probing(r, i)
<1>1. /\ r \in Runs /\ r.dag \in Dags
      /\ r.failure = None /\ ~r.lost /\ ~r.doc /\ r.attempts <= MaxRetries
      /\ r.key = "flow_failed" => r.dag.state = "success"
  BY DEF Sound, Reading, Runs, Calls
<1>2. CASE i > Len(r.dag.tasks)
  <2>1. \A j \in DOMAIN r.dag.tasks : ~Published(r.dag.tasks[j], r.key)
    BY <1>1, <1>2, DagTasks
  <2>2. CASE r.key = "flow_failed"
    <3>1. s = [r EXCEPT !.stage = "succeeded"]
      BY <1>2, <2>2 DEF Probing, NotFound
    <3>2. Fulfilled(r.dag)
      BY <1>1, <2>1, <2>2, ReportAssumption DEF Fulfilled, RolledBack, Published
    <3>3. s \in Runs /\ s.stage = "succeeded" /\ s.dag = r.dag
      BY <1>1, <3>1 DEF Runs, Stages
    <3> QED
      BY <3>2, <3>3 DEF Sound, Reading, Routing, Calls, Routes
  <2>3. CASE r.key # "flow_failed"
    <3>1. s = [r EXCEPT !.stage = "instances"]
      BY <1>2, <2>3 DEF Probing, NotFound
    <3>2. ~Controlled(r.dag)
      BY <2>1, <2>3 DEF Controlled, ReportedBy, Published
    <3>3. /\ s \in Runs /\ s.stage = "instances" /\ s.dag = r.dag
          /\ s.failure = r.failure /\ s.lost = r.lost /\ s.doc = r.doc /\ s.attempts = r.attempts
      BY <1>1, <3>1 DEF Runs, Stages, Calls
    <3> QED
      BY <1>1, <3>2, <3>3, ReportAssumption DEF Sound, Reading, Routing, Calls, Routes
  <2> QED
    BY <2>2, <2>3
<1>3. CASE ~(i > Len(r.dag.tasks))
  <2>1. s = [r EXCEPT !.stage = "probe", !.i = i]
    BY <1>3 DEF Probing
  <2>2. /\ s \in Runs /\ s.stage = "probe" /\ s.i = i /\ s.dag = r.dag /\ s.key = r.key
        /\ s.failure = r.failure /\ s.lost = r.lost /\ s.doc = r.doc /\ s.attempts = r.attempts
    BY <1>1, <2>1 DEF Runs, Stages, Calls
  <2>3. i \in DOMAIN r.dag.tasks /\ \A j \in 1 .. i - 1 : ~Published(r.dag.tasks[j], r.key)
    BY <1>1, <1>3, DagTasks
  <2> QED
    BY <1>1, <2>2, <2>3, ReportAssumption DEF Sound, Reading, Routing, Calls, Routes
<1> QED
  BY <1>2, <1>3

\* What a probe found decides as the DAG run says: the verdict, or the task
\* and the group the controller names first.
LEMMA FoundSound ==
    ASSUME NEW r, Sound(r), r.stage = "probe", Published(r.dag.tasks[r.i], r.key)
    PROVE  Sound(Found(r, r.dag.tasks[r.i])) /\ Found(r, r.dag.tasks[r.i]).stage \notin Routes
<1> DEFINE t == r.dag.tasks[r.i]
           s == Found(r, t)
<1>1. /\ r \in Runs /\ r.dag \in Dags /\ r.i \in DOMAIN r.dag.tasks
      /\ \A j \in 1 .. r.i - 1 : ~Published(r.dag.tasks[j], r.key)
      /\ r.failure = None /\ ~r.lost /\ ~r.doc /\ r.attempts <= MaxRetries
      /\ r.key = "flow_failed" => r.dag.state = "success"
  BY DEF Sound, Reading, Runs, Calls
<1>2. t \in Tasks
  BY <1>1, DagTasks
<1> HIDE DEF t, s
<1>3. CASE r.key = "flow_failed" /\ Truthy(t.flow_failed)
  <2>1. s = [r EXCEPT !.stage = "list", !.key = "failed_tasks"]
    BY <1>3 DEF Found, Looking, s
  <2>2. /\ s \in Runs /\ s.stage = "list" /\ s.key = "failed_tasks" /\ s.dag = r.dag
        /\ s.failure = r.failure /\ s.lost = r.lost /\ s.doc = r.doc /\ s.attempts = r.attempts
    BY <1>1, <2>1 DEF Runs, Stages, Calls
  <2> QED
    BY <1>1, <2>2, ReportAssumption DEF Sound, Reading, Routing, Calls, Routes, s, t
<1>4. CASE r.key = "flow_failed" /\ ~Truthy(t.flow_failed)
  <2>1. s = [r EXCEPT !.stage = "succeeded"]
    BY <1>4 DEF Found, s
  <2>2. t.flow_failed = "false"
    BY <1>2, <1>4 DEF Truthy, Published, Tasks, Flags, t
  <2>3. Fulfilled(r.dag)
    BY <1>1, <1>4, <2>2, ReportAssumption DEF Fulfilled, RolledBack, t
  <2>4. s \in Runs /\ s.stage = "succeeded" /\ s.dag = r.dag
    BY <1>1, <2>1 DEF Runs, Stages
  <2> QED
    BY <2>3, <2>4 DEF Sound, Reading, Routing, Calls, Routes, s, t
<1>5. CASE r.key # "flow_failed"
  <2>1. r.i \in ReportedBy(r.dag) /\ \A u \in ReportedBy(r.dag) : r.i <= u
    BY <1>1, <1>5, DagTasks DEF ReportedBy, Published
  <2>2. First(ReportedBy(r.dag)) = r.i
    BY <1>1, <2>1, DagTasks, FirstIs
  <2>3. CASE t.failed_tasks.is = "map"
    <3>1. s = [r EXCEPT !.stage = "exception", !.task = t.failed_tasks.task, !.group = t.failed_tasks.group]
      BY <1>5, <2>3 DEF Found, s
    <3>2. t.failed_tasks.task \in Nat /\ t.failed_tasks.group \in Groups \cup {None}
      BY <1>2 DEF Tasks, Maps
    <3>3. /\ s \in Runs /\ s.stage = "exception" /\ s.dag = r.dag
          /\ s.task = t.failed_tasks.task /\ s.group = t.failed_tasks.group
          /\ s.failure = r.failure /\ s.lost = r.lost /\ s.doc = r.doc /\ s.attempts = r.attempts
      BY <1>1, <3>1, <3>2 DEF Runs, Stages, Calls
    <3>4. Controlled(r.dag) /\ r.dag.tasks[First(ReportedBy(r.dag))].failed_tasks = t.failed_tasks
      BY <2>1, <2>2, <2>3 DEF Controlled, t
    <3> QED
      BY <1>1, <3>3, <3>4, ReportAssumption DEF Sound, Reading, Routing, Calls, Routes, s, t
  <2>4. CASE t.failed_tasks.is # "map"
    <3>1. s = [r EXCEPT !.stage = "instances"]
      BY <1>5, <2>4 DEF Found, s
    <3>2. ~Controlled(r.dag)
      BY <2>2, <2>4 DEF Controlled, t
    <3>3. /\ s \in Runs /\ s.stage = "instances" /\ s.dag = r.dag
          /\ s.failure = r.failure /\ s.lost = r.lost /\ s.doc = r.doc /\ s.attempts = r.attempts
      BY <1>1, <3>1 DEF Runs, Stages, Calls
    <3> QED
      BY <1>1, <3>2, <3>3, ReportAssumption DEF Sound, Reading, Routing, Calls, Routes, s, t
  <2> QED
    BY <2>3, <2>4
<1> QED
  BY <1>3, <1>4, <1>5

-----------------------------------------------------------------------------
(* The steps of a report. *)

\* An answer that leads to a sound run keeps the invariant.
LEMMA Proceeds ==
    ASSUME ReportInv, SessionInv', NEW c \in Reporters, NEW r, Proceed(c, r), Sound(r),
           r.stage \in Routes => r.seen \subseteq Resolvable
    PROVE  ReportInv'
BY Replaced DEF Proceed, ReportInv, TypeOK, IncidentReachesOwner, Resolvable

\* With the detail of its failure the run asks for the team that owns it.
LEMMA EngineFailedSound ==
    ASSUME TypeOK, NEW r, Sound(r), r.stage \in {"instances", "exception"}, NEW f \in EngineFailure,
           f.kind # "VALIDATION" => (IF f.group # None THEN f.group ELSE Default) = Owner(r.dag)
    PROVE  LET s == EngineFailed([r EXCEPT !.failure = f])
           IN  Sound(s) /\ (s.stage \in Routes => s.seen \subseteq Resolvable)
<1> DEFINE q == [r EXCEPT !.failure = f]
<1>1. r \in Runs /\ ~r.lost /\ ~r.doc /\ r.attempts <= MaxRetries
  BY DEF Sound, Reading, Calls
<1>2. /\ q \in Runs /\ q.failure = f /\ q.dag = r.dag /\ q.lost = r.lost /\ q.doc = r.doc
      /\ q.attempts = r.attempts
  BY <1>1 DEF Runs
<1> HIDE DEF q
<1>3. f # None
  BY ReportAssumption
<1>4. f.kind # "VALIDATION" => Team(q, TRUE) = Due(q)
  BY <1>1, <1>2, <1>3 DEF Team, Due
<1>5. EngineFailed(q) = StepError(q, f.kind, TRUE)
  BY <1>2, <1>3 DEF EngineFailed
<1>6. Sound(EngineFailed(q)) /\ (EngineFailed(q).stage \in Routes => EngineFailed(q).seen \subseteq Resolvable)
  <2>1. q.attempts <= MaxRetries /\ ~q.doc
    BY <1>1, <1>2
  <2> QED
    BY <1>2, <1>4, <1>5, <2>1, StepErrorSound
<1> QED
  BY <1>6 DEF q

\* Without a detail the default team is asked for.
LEMMA UndetailedSound ==
    ASSUME TypeOK, NEW r, Sound(r), r.stage \in Calls, NEW classified \in BOOLEAN
    PROVE  LET s == StepError([r EXCEPT !.lost = TRUE], "TASK", classified)
           IN  Sound(s) /\ (s.stage \in Routes => s.seen \subseteq Resolvable)
<1> DEFINE q == [r EXCEPT !.lost = TRUE]
<1>1. r \in Runs /\ r.failure = None /\ ~r.doc /\ r.attempts <= MaxRetries
  BY DEF Sound, Reading
<1>2. q \in Runs /\ q.failure = None /\ q.lost = TRUE /\ q.doc = r.doc /\ q.attempts = r.attempts
  BY <1>1 DEF Runs
<1> HIDE DEF q
<1>3. Team(q, classified) = Due(q)
  BY <1>2 DEF Team, Due
<1>4. LET s == StepError(q, "TASK", classified)
      IN  Sound(s) /\ (s.stage \in Routes => s.seen \subseteq Resolvable)
  BY <1>1, <1>2, <1>3, StepErrorSound
<1> QED
  BY <1>4 DEF q

\* The step goes on without the detail get_failure could not read.
LEMMA UndetailedIs ==
    ASSUME NEW r, r \in Runs, r.failure = None
    PROVE  Undetailed(r) = StepError([r EXCEPT !.lost = TRUE], "TASK", TRUE)
<1>1. [r EXCEPT !.lost = TRUE].failure = None
  BY DEF Runs
<1> QED
  BY <1>1 DEF Undetailed, EngineFailed

\* The exception that is read, with the group of the controller, names the owner.
LEMMA ExceptionNamesOwner ==
    ASSUME NEW r, Sound(r), r.stage = "exception"
    PROVE  LET t == r.dag.tasks[r.task]
               f == FailureOf(t, r.group)
           IN  /\ f \in EngineFailure
               /\ t.callback # "ill_typed" => (IF f.group # None THEN f.group ELSE Default) = Owner(r.dag)
<1> DEFINE d == r.dag
           t == d.tasks[r.task]
           f == FailureOf(t, r.group)
<1>1. /\ d \in Dags /\ r.group \in Groups \cup {None}
      /\ IF Controlled(d)
         THEN /\ r.task = d.tasks[First(ReportedBy(d))].failed_tasks.task
              /\ r.group = d.tasks[First(ReportedBy(d))].failed_tasks.group
         ELSE FailedInstances(d) # {} /\ r.task = First(FailedInstances(d)) /\ r.group = None
  BY DEF Sound, Reading, Runs
<1>2. r.task \in DOMAIN d.tasks
  <2>1. CASE Controlled(d)
    <3>1. First(ReportedBy(d)) \in ReportedBy(d)
      BY <1>1, <2>1, DagTasks, FirstExists DEF Controlled
    <3> QED
      BY <1>1, <2>1, <3>1, ReportAssumption DEF Controlled, ReportedBy
  <2>2. CASE ~Controlled(d)
    BY <1>1, <2>2, DagTasks, FirstExists DEF FailedInstances
  <2> QED
    BY <2>1, <2>2
<1>3. t \in Tasks
  BY <1>1, <1>2, DagTasks
<1> HIDE DEF t, d
<1>4. ErrorGroup(t) \in Groups \cup {None}
  BY <1>3 DEF ErrorGroup, Tasks, Errors
<1>5. f \in EngineFailure
  BY <1>1, <1>4 DEF FailureOf, EngineFailure, KindOf
<1>6. Owner(d) = (IF f.group # None THEN f.group ELSE Default)
  <2>1. t = d.tasks[IF Controlled(d) THEN d.tasks[First(ReportedBy(d))].failed_tasks.task
                                     ELSE First(FailedInstances(d))]
    BY <1>1 DEF t
  <2>2. r.group = IF Controlled(d) THEN d.tasks[First(ReportedBy(d))].failed_tasks.group ELSE None
    BY <1>1
  <2>3. f.group = IF t.callback = "ran" /\ ErrorGroup(t) # None THEN ErrorGroup(t) ELSE r.group
    BY DEF FailureOf
  <2> QED
    BY <1>1, <2>1, <2>2, <2>3 DEF Owner
<1> QED
  BY <1>5, <1>6 DEF t, d

\* The calls to the engine.
LEMMA EngineSteps ==
    ASSUME ReportInv, SessionInv', NEW c \in Reporters, Engine(c)
    PROVE  ReportInv'
<1> DEFINE r == run[c]
<1>1. /\ TypeOK /\ Sound(r) /\ r \in Runs
      /\ r.stage \in Routes => r.seen \subseteq Resolvable
  BY DEF ReportInv, TypeOK, Sound, SuccessIsReal
<1>2. r.stage \in Calls \cup {"new", "waiting"} =>
         r.failure = None /\ ~r.lost /\ ~r.doc /\ r.attempts <= MaxRetries
  BY <1>1 DEF Sound, Reading
<1>3. r.stage \in {"list", "probe", "instances", "exception"} => r.dag \in Dags
  BY <1>1 DEF Sound, Reading, Runs
<1>4. CASE BeginCall(c)
  <2> DEFINE s == [r EXCEPT !.stage = IF @ = "new" THEN "trigger" ELSE "status"]
  <2>1. r.stage \in {"new", "waiting"} /\ run' = [run EXCEPT ![c] = s] /\ UNCHANGED <<groups, memo, incidents>>
    BY <1>4 DEF BeginCall
  <2>2. /\ s \in Runs /\ s.stage \in {"trigger", "status"} /\ s.failure = r.failure
        /\ s.lost = r.lost /\ s.doc = r.doc /\ s.attempts = r.attempts
    BY <1>1, <2>1 DEF Runs, Stages, Calls
  <2> HIDE DEF s
  <2>3. Sound(s) /\ s.stage \notin Routes
    BY <1>2, <2>1, <2>2 DEF Sound, Reading, Routing, Calls, Routes
  <2> QED
    BY <2>1, <2>3, Replaced DEF ReportInv, TypeOK, IncidentReachesOwner
<1>5. ASSUME r.stage = "trigger" \/ (r.stage = "status" /\ r.dag = None),
             Proceed(c, [r EXCEPT !.stage = "waiting"])
      PROVE  ReportInv'
  <2> DEFINE s == [r EXCEPT !.stage = "waiting"]
  <2>1. /\ s \in Runs /\ s.stage = "waiting" /\ s.failure = r.failure
        /\ s.lost = r.lost /\ s.doc = r.doc /\ s.attempts = r.attempts
    BY <1>1 DEF Runs, Stages
  <2> HIDE DEF s
  <2>2. Sound(s) /\ s.stage \notin Routes
    BY <1>2, <1>5, <2>1 DEF Sound, Reading, Routing, Calls, Routes
  <2> QED
    BY <1>5, <2>2, Proceeds DEF s
<1>6. CASE TriggerWorkflow(c)
  BY <1>5, <1>6 DEF TriggerWorkflow, Answered
<1>7. ASSUME r.stage = "status", r.dag # None, NEW key \in {"flow_failed", "failed_tasks"},
             key = "flow_failed" => r.dag.state = "success", Proceed(c, Looking(r, key))
      PROVE  ReportInv'
  <2> DEFINE s == Looking(r, key)
  <2>1. /\ s \in Runs /\ s.stage = "list" /\ s.key = key /\ s.dag = r.dag /\ s.failure = r.failure
        /\ s.lost = r.lost /\ s.doc = r.doc /\ s.attempts = r.attempts
    BY <1>1 DEF Runs, Stages, Calls, Looking
  <2> HIDE DEF s
  <2>2. Sound(s) /\ s.stage \notin Routes
    BY <1>2, <1>7, <2>1 DEF Sound, Reading, Routing, Calls, Routes
  <2> QED
    BY <1>7, <2>2, Proceeds DEF s
<1>8. CASE QueryRunStatus(c)
  BY <1>5, <1>7, <1>8 DEF QueryRunStatus, Answered
<1>9. CASE ListTasks(c)
  <2>1. r.stage = "list" /\ Proceed(c, Probing(r, 1))
    BY <1>9 DEF ListTasks, Answered
  <2>2. \A j \in DOMAIN r.dag.tasks : ~(j < 1)
    BY <1>3, <2>1, DagTasks
  <2>3. Sound(Probing(r, 1)) /\ Probing(r, 1).stage \notin Routes
    BY <1>1, <2>1, <2>2, ProbingSound
  <2> QED
    BY <2>1, <2>3, Proceeds
<1>10. CASE ProbeTask(c)
  <2> DEFINE t == r.dag.tasks[r.i]
  <2>1. r.stage = "probe" /\ Proceed(c, IF Published(t, r.key) THEN Found(r, t) ELSE Probing(r, r.i + 1))
    BY <1>10 DEF ProbeTask, Answered
  <2>2. CASE Published(t, r.key)
    <3>1. Sound(Found(r, t)) /\ Found(r, t).stage \notin Routes
      BY <1>1, <2>1, <2>2, FoundSound
    <3> QED
      BY <2>1, <2>2, <3>1, Proceeds
  <2>3. CASE ~Published(t, r.key)
    <3>1. /\ r.i \in DOMAIN r.dag.tasks
          /\ \A j \in 1 .. r.i - 1 : ~Published(r.dag.tasks[j], r.key)
      BY <1>1, <2>1 DEF Sound, Reading
    <3>2. r.i \in Nat /\ r.i + 1 # 0
      BY <1>1 DEF Runs
    <3>3. \A j \in DOMAIN r.dag.tasks : j < r.i + 1 => ~Published(r.dag.tasks[j], r.key)
      <4> SUFFICES ASSUME NEW j \in DOMAIN r.dag.tasks, j < r.i + 1
                   PROVE  ~Published(r.dag.tasks[j], r.key)
        OBVIOUS
      <4>1. j \in Nat \ {0}
        BY <1>3, <2>1, DagTasks
      <4>2. j = r.i \/ j \in 1 .. r.i - 1
        BY <3>2, <4>1
      <4> QED
        BY <2>3, <3>1, <4>2
    <3>4. Sound(Probing(r, r.i + 1)) /\ Probing(r, r.i + 1).stage \notin Routes
      BY <1>1, <2>1, <3>2, <3>3, ProbingSound
    <3> QED
      BY <2>1, <2>3, <3>4, Proceeds
  <2> QED
    BY <2>2, <2>3
<1>11. CASE FailedTaskInstances(c)
  <2> DEFINE failed == FailedInstances(r.dag)
             bare   == [kind |-> "TASK", group |-> None]
  <2>1. /\ r.stage = "instances"
        /\ Proceed(c, IF failed = {} THEN EngineFailed([r EXCEPT !.failure = bare])
                      ELSE [r EXCEPT !.stage = "exception", !.task = First(failed), !.group = None])
    BY <1>11 DEF FailedTaskInstances, Answered
  <2>2. ~Controlled(r.dag) /\ r.dag \in Dags
    BY <1>1, <1>3, <2>1 DEF Sound, Reading
  <2>3. CASE failed = {}
    <3>1. bare \in EngineFailure /\ bare.group = None
      BY DEF EngineFailure
    <3>2. Owner(r.dag) = Default
      BY <2>2, <2>3 DEF Owner
    <3> HIDE DEF bare
    <3>3. LET s == EngineFailed([r EXCEPT !.failure = bare])
          IN  Sound(s) /\ (s.stage \in Routes => s.seen \subseteq Resolvable)
      BY <1>1, <2>1, <3>1, <3>2, EngineFailedSound
    <3> QED
      BY <2>1, <2>3, <3>3, Proceeds
  <2>4. CASE failed # {}
    <3> DEFINE s == [r EXCEPT !.stage = "exception", !.task = First(failed), !.group = None]
    <3>1. First(failed) \in Nat
      BY <2>2, <2>4, DagTasks, FirstExists
    <3>2. /\ s \in Runs /\ s.stage = "exception" /\ s.task = First(failed) /\ s.group = None
          /\ s.dag = r.dag /\ s.failure = r.failure
          /\ s.lost = r.lost /\ s.doc = r.doc /\ s.attempts = r.attempts
      BY <1>1, <3>1 DEF Runs, Stages, Calls
    <3> HIDE DEF s
    <3>3. Sound(s) /\ s.stage \notin Routes
      BY <1>2, <2>1, <2>2, <2>4, <3>2, ReportAssumption DEF Sound, Reading, Routing, Calls, Routes
    <3> QED
      BY <2>1, <2>4, <3>3, Proceeds DEF s
  <2> QED
    BY <2>3, <2>4
<1>12. ASSUME r.stage \in Calls, NEW classified \in BOOLEAN,
              Proceed(c, StepError([r EXCEPT !.lost = TRUE], "TASK", classified))
       PROVE  ReportInv'
  BY <1>1, <1>12, UndetailedSound, Proceeds
<1>13. CASE ReadException(c)
  <2> DEFINE t == r.dag.tasks[r.task]
             f == FailureOf(t, r.group)
  <2>1. /\ r.stage = "exception" /\ r.stage \in Calls
        /\ Proceed(c, IF t.callback = "ill_typed" THEN Undetailed(r)
                      ELSE EngineFailed([r EXCEPT !.failure = f]))
    BY <1>13 DEF ReadException, Answered, Calls
  <2>2. CASE t.callback = "ill_typed"
    BY <1>1, <1>2, <1>12, <2>1, <2>2, UndetailedIs
  <2>3. CASE t.callback # "ill_typed"
    <3>1. f \in EngineFailure /\ (IF f.group # None THEN f.group ELSE Default) = Owner(r.dag)
      BY <1>1, <2>1, <2>3, ExceptionNamesOwner
    <3> HIDE DEF f
    <3>2. LET s == EngineFailed([r EXCEPT !.failure = f])
          IN  Sound(s) /\ (s.stage \in Routes => s.seen \subseteq Resolvable)
      BY <1>1, <2>1, <3>1, EngineFailedSound
    <3> QED
      BY <2>1, <2>3, <3>2, Proceeds
  <2> QED
    BY <2>2, <2>3
<1>14. CASE FailCall(c)
  <2>1. r.stage \in Calls /\ Proceed(c, CallFailed(r))
    BY <1>14 DEF FailCall
  <2>2. CallFailed(r) = StepError([r EXCEPT !.lost = TRUE], "TASK", ~ForVerdict(r))
    BY <1>1, <1>2, <2>1, UndetailedIs DEF CallFailed
  <2> QED
    BY <1>12, <2>1, <2>2
<1> QED
  BY <1>4, <1>6, <1>8, <1>9, <1>10, <1>11, <1>13, <1>14 DEF Engine

\* The calls to the ticket system.
LEMMA TicketSteps ==
    ASSUME ReportInv, SessionInv', NEW c \in Reporters, Ticket(c)
    PROVE  ReportInv'
<1> DEFINE r == run[c]
<1>1. /\ TypeOK /\ Sound(r) /\ r \in Runs
      /\ r.stage \in Routes => r.seen \subseteq Resolvable
      /\ groups \subseteq Groups /\ memo \subseteq groups \cup Seeded /\ IncidentReachesOwner
  BY DEF ReportInv, TypeOK, Sound, SuccessIsReal
<1>2. r.stage \in Routes => r.asked \in Groups /\ r.asked = Due(r)
  BY <1>1 DEF Sound, Routing
<1>3. ASSUME NEW name, memo' = Memoised(name), UNCHANGED groups
      PROVE  /\ memo \subseteq memo' /\ memo' \subseteq groups' \cup Seeded
             /\ Resolvable \subseteq memo' \cup groups'
  BY <1>1, <1>3 DEF Memoised, Resolvable
<1>4. CASE AssignGroup(c)
  <2> DEFINE s == IF r.asked \in Resolvable THEN [r EXCEPT !.stage = "post", !.to = r.asked]
                  ELSE IF r.asked = Default THEN [r EXCEPT !.stage = "post", !.to = None]
                  ELSE [r EXCEPT !.stage = "fallback"]
  <2>1. /\ r.stage = "assign" /\ memo' = Memoised(r.asked) /\ run' = [run EXCEPT ![c] = s]
        /\ UNCHANGED <<groups, incidents>>
    BY <1>4 DEF AssignGroup, Ticketing
  <2>2. /\ s \in Runs /\ s.asked = r.asked /\ s.seen = r.seen /\ s.doc = r.doc /\ s.lost = r.lost
        /\ s.dag = r.dag
        /\ \/ s.stage = "post" /\ s.to = r.asked
           \/ s.stage = "post" /\ s.to = None /\ r.asked = Default /\ r.asked \notin Resolvable
           \/ s.stage = "fallback" /\ r.asked \notin Resolvable
    <3>1. CASE r.asked \in Resolvable
      BY <1>1, <1>2, <2>1, <3>1 DEF Runs, Stages, Routes
    <3>2. CASE r.asked \notin Resolvable /\ r.asked = Default
      BY <1>1, <3>2 DEF Runs, Stages, Routes
    <3>3. CASE r.asked \notin Resolvable /\ r.asked # Default
      BY <1>1, <3>3 DEF Runs, Stages, Routes
    <3> QED
      BY <3>1, <3>2, <3>3
  <2> HIDE DEF s
  <2>3. r.asked \in Groups /\ r.asked = Due(s) /\ r.seen \subseteq Resolvable
    BY <1>1, <1>2, <2>1, <2>2 DEF Due, Routes
  <2>4. Sound(s)
    BY <2>2, <2>3 DEF Sound, Reading, Routing, PassedOver, Calls, Routes
  <2> QED
    BY <1>1, <1>3, <2>1, <2>2, <2>3, <2>4, Replaced DEF IncidentReachesOwner
<1>5. CASE AssignDefault(c)
  <2> DEFINE to == IF Default \in Resolvable THEN Default ELSE None
             s  == [r EXCEPT !.stage = "post", !.to = to]
  <2>1. /\ r.stage = "fallback" /\ memo' = Memoised(Default) /\ run' = [run EXCEPT ![c] = s]
        /\ UNCHANGED <<groups, incidents>>
    BY <1>5 DEF AssignDefault, Ticketing
  <2>2. /\ s \in Runs /\ s.asked = r.asked /\ s.seen = r.seen /\ s.doc = r.doc /\ s.lost = r.lost
        /\ s.dag = r.dag /\ s.stage = "post"
        /\ s.to = IF Default \in Resolvable THEN Default ELSE None
    <3>1. to \in Groups \cup {None}
      BY ReportAssumption
    <3> HIDE DEF to
    <3>2. /\ s \in Runs /\ s.asked = r.asked /\ s.seen = r.seen /\ s.doc = r.doc /\ s.lost = r.lost
          /\ s.dag = r.dag /\ s.stage = "post" /\ s.to = to
      BY <1>1, <3>1 DEF Runs, Stages, Routes
    <3> QED
      BY <3>2 DEF to
  <2> HIDE DEF s
  <2>3. /\ r.asked \in Groups /\ r.asked = Due(s) /\ r.seen \subseteq Resolvable
        /\ r.asked \notin r.seen
    BY <1>1, <1>2, <2>1, <2>2 DEF Due, Routes, Sound, Routing
  <2>4. Sound(s)
    BY <2>2, <2>3, ReportAssumption DEF Sound, Reading, Routing, PassedOver, Calls, Routes
  <2> QED
    BY <1>1, <1>3, <2>1, <2>2, <2>3, <2>4, Replaced DEF IncidentReachesOwner
<1>6. CASE OpenIncident(c)
  <2> DEFINE new == [due |-> Due(r), seen |-> r.seen, to |-> r.to]
             s == IF r.classified /\ ~r.doc /\ r.asked # Default
                  THEN Asking([r EXCEPT !.doc = TRUE], Default)
                  ELSE [r EXCEPT !.stage = "ended"]
  <2>1. /\ r.stage = "post" /\ run' = [run EXCEPT ![c] = s]
        /\ incidents' = incidents \cup {new} /\ UNCHANGED <<groups, memo>>
    BY <1>6 DEF OpenIncident, Ticketing
  <2>2. r.to = r.asked \/ PassedOver(r.asked, r.to, r.seen)
    BY <1>1, <2>1 DEF Sound, Routing
  <2>3. new.to = new.due \/ PassedOver(new.due, new.to, new.seen)
    BY <1>2, <2>1, <2>2 DEF Routes
  <2>4. IncidentReachesOwner'
    BY <1>1, <2>1, <2>3 DEF IncidentReachesOwner
  <2>5. CASE r.classified /\ ~r.doc /\ r.asked # Default
    <3>1. s = [r EXCEPT !.doc = TRUE, !.stage = "assign", !.asked = Default, !.seen = Resolvable]
      BY <1>1, <2>5 DEF Asking, Runs
    <3>2. Resolvable \subseteq Groups
      BY <1>1, ReportAssumption DEF Resolvable
    <3> HIDE DEF s
    <3>3. /\ s \in Runs /\ s.stage = "assign" /\ s.asked = Default /\ s.seen = Resolvable /\ s.doc = TRUE
      BY <1>1, <3>1, <3>2, ReportAssumption DEF Runs, Stages, Routes
    <3>4. Sound(s)
      BY <3>3, ReportAssumption DEF Sound, Reading, Routing, Due, Calls, Routes
    <3> QED
      BY <1>1, <2>1, <2>4, <3>3, <3>4, Replaced DEF Resolvable
  <2>6. CASE ~(r.classified /\ ~r.doc /\ r.asked # Default)
    <3>1. s \in Runs /\ s.stage = "ended"
      BY <1>1, <2>6 DEF Runs, Stages
    <3> HIDE DEF s
    <3>2. Sound(s)
      BY <3>1 DEF Sound, Reading, Routing, Calls, Routes
    <3> QED
      BY <1>1, <2>1, <2>4, <3>1, <3>2, Replaced DEF Routes
  <2> QED
    BY <2>5, <2>6
<1>7. CASE TicketRaises(c)
  <2> DEFINE s == [r EXCEPT !.stage = "ended"]
  <2>1. run' = [run EXCEPT ![c] = s] /\ UNCHANGED <<groups, memo, incidents>>
    BY <1>7 DEF TicketRaises
  <2>2. s \in Runs /\ s.stage = "ended"
    BY <1>1 DEF Runs, Stages
  <2> HIDE DEF s
  <2>3. Sound(s)
    BY <2>2 DEF Sound, Reading, Routing, Calls, Routes
  <2> QED
    BY <1>1, <2>1, <2>2, <2>3, Replaced DEF IncidentReachesOwner, Routes
<1> QED
  BY <1>4, <1>5, <1>6, <1>7 DEF Ticket

\* Every step of the specification.
LEMMA ReportSteps ==
    ASSUME ReportInv, SessionInv', [Next]_vars
    PROVE  ReportInv'
<1>1. ASSUME NEW c \in Reporters, EndDag(c)
      PROVE  ReportInv'
  <2> DEFINE r == run[c]
  <2>1. /\ Sound(r) /\ r \in Runs /\ groups \subseteq Groups /\ memo \subseteq groups \cup Seeded
        /\ IncidentReachesOwner
    BY DEF ReportInv, TypeOK, Sound, SuccessIsReal
  <2>2. PICK d \in Dags : run' = [run EXCEPT ![c] = [r EXCEPT !.dag = d]]
    BY <1>1 DEF EndDag
  <2>3. r.stage \in {"waiting", "status"} /\ UNCHANGED <<groups, memo, incidents>>
    BY <1>1 DEF EndDag
  <2> DEFINE s == [r EXCEPT !.dag = d]
  <2>4. /\ s \in Runs /\ s.stage = r.stage /\ s.failure = r.failure /\ s.lost = r.lost
        /\ s.doc = r.doc /\ s.attempts = r.attempts
    BY <2>1 DEF Runs
  <2>5. run' = [run EXCEPT ![c] = s]
    BY <2>2
  <2> HIDE DEF s
  <2>6. Sound(s) /\ s.stage \notin Routes
    BY <2>1, <2>3, <2>4 DEF Sound, Reading, Routing, Calls, Routes
  <2> QED
    BY <2>1, <2>3, <2>5, <2>6, Replaced DEF IncidentReachesOwner
<1>2. ASSUME UNCHANGED <<run, memo, incidents>>, groups \subseteq groups', groups' \subseteq Groups
      PROVE  ReportInv'
  BY <1>2 DEF ReportInv, TypeOK, SuccessIsReal, IncidentReachesOwner, Resolvable
<1>3. ASSUME NEW g \in Missing, CreateGroup(g)
      PROVE  ReportInv'
  BY <1>2, <1>3, ReportAssumption DEF CreateGroup, ReportInv, TypeOK
<1>4. ASSUME UNCHANGED <<run, groups, memo, incidents>>
      PROVE  ReportInv'
  BY <1>2, <1>4 DEF ReportInv, TypeOK
<1> QED
  BY <1>1, <1>3, <1>4, EngineSteps, TicketSteps DEF Next, OtherCall, vars

\* The inductive invariant holds for every set of callers, groups and DAG
\* outcomes and every number of retries.
THEOREM ReportInvariant == Spec => []ReportInv
<1>1. Init => ReportInv
  <2> SUFFICES ASSUME Init PROVE ReportInv
    OBVIOUS
  <2>1. SessionInv
    BY SessionStarts DEF Init
  <2>2. NewRun \in Runs
    BY ReportAssumption DEF NewRun, Runs, Stages
  <2>3. \A c \in Reporters : run[c] = NewRun
    BY DEF Init
  <2>4. /\ Reading(NewRun) /\ Routing(NewRun) /\ NewRun.stage = "new"
    BY ReportAssumption DEF NewRun, Reading, Routing, Calls, Routes
  <2> QED
    BY <2>1, <2>2, <2>3, <2>4, ReportAssumption
       DEF Init, ReportInv, TypeOK, SuccessIsReal, IncidentReachesOwner, Routes
<1>2. Init => SessionInv /\ RefusedOnlyOnExpiry
  BY SessionStarts DEF Init
<1>3. ReportInv /\ RefusedOnlyOnExpiry /\ [Next]_vars => ReportInv' /\ RefusedOnlyOnExpiry'
  <2> SUFFICES ASSUME ReportInv, RefusedOnlyOnExpiry, [Next]_vars
               PROVE  ReportInv' /\ RefusedOnlyOnExpiry'
    OBVIOUS
  <2>1. SessionInv' /\ RefusedOnlyOnExpiry'
    BY ReportStepIsSessionStep, SessionSteps DEF ReportInv, TypeOK
  <2> QED
    BY <2>1, ReportSteps
<1> QED
  BY <1>1, <1>2, <1>3, PTL DEF Spec

\* A run is taken for a success only if its DAG run ended in success and was
\* not rolled back, however the calls that find out fail (query_run_status).
THEOREM SuccessesAreReal == Spec => []SuccessIsReal
<1>1. ReportInv => SuccessIsReal
  BY DEF ReportInv
<1> QED
  BY <1>1, ReportInvariant, PTL

\* An incident reaches the team that owns the failure whenever that team
\* resolves (get_failure, _escalate_by_policy, _assignment_group).
THEOREM IncidentsReachOwners == Spec => []IncidentReachesOwner
<1>1. ReportInv => IncidentReachesOwner
  BY DEF ReportInv
<1> QED
  BY <1>1, ReportInvariant, PTL
=============================================================================
