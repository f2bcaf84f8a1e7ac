--------------------------- MODULE RunDriverProofs --------------------------
EXTENDS RunDriver, FiniteSetTheorems, TLAPS

-----------------------------------------------------------------------------
(* Plans. *)

\* The plan of a resource request (RUN_PLANS).
LEMMA ResourcePlan ==
    ASSUME request \notin {"AUTOMATION", "LEGACY"}
    PROVE  /\ Len(Plan) = 7
           /\ PlanSteps = Steps \ {"SUBMIT_LEGACY"}
           /\ Plan[1] = "CREATE_TICKET"      /\ Position("CREATE_TICKET") = 1
           /\ Plan[2] = "CONFIGURE_RESOURCE" /\ Position("CONFIGURE_RESOURCE") = 2
           /\ Plan[3] = "AWAIT_APPROVAL"     /\ Position("AWAIT_APPROVAL") = 3
           /\ Plan[4] = "VALIDATE_RESOURCE"  /\ Position("VALIDATE_RESOURCE") = 4
           /\ Plan[5] = "RUN_ENGINE"         /\ Position("RUN_ENGINE") = 5
           /\ Plan[6] = "FINALIZE_RESOURCE"  /\ Position("FINALIZE_RESOURCE") = 6
           /\ Plan[7] = "CLOSE_TICKET"       /\ Position("CLOSE_TICKET") = 7
<1>1. Plan = <<"CREATE_TICKET", "CONFIGURE_RESOURCE", "AWAIT_APPROVAL",
               "VALIDATE_RESOURCE", "RUN_ENGINE", "FINALIZE_RESOURCE", "CLOSE_TICKET">>
  BY DEF Plan
<1>2. /\ DOMAIN Plan = 1 .. 7 /\ Len(Plan) = 7
      /\ Plan[1] = "CREATE_TICKET" /\ Plan[2] = "CONFIGURE_RESOURCE"
      /\ Plan[3] = "AWAIT_APPROVAL" /\ Plan[4] = "VALIDATE_RESOURCE"
      /\ Plan[5] = "RUN_ENGINE" /\ Plan[6] = "FINALIZE_RESOURCE"
      /\ Plan[7] = "CLOSE_TICKET"
  BY <1>1
<1>3. PlanSteps = Steps \ {"SUBMIT_LEGACY"}
  BY <1>2 DEF PlanSteps, Steps
<1>4. \A i \in 1 .. 7 : Position(Plan[i]) = i
  <2>1. \A i, j \in 1 .. 7 : Plan[i] = Plan[j] => i = j
    BY <1>2
  <2> QED BY <1>2, <2>1 DEF Position
<1> QED BY <1>2, <1>3, <1>4

\* The plans of the other requests.
LEMMA AutomationPlan ==
    ASSUME request = "AUTOMATION"
    PROVE  /\ Len(Plan) = 2
           /\ PlanSteps = {"RUN_ENGINE", "CLOSE_TICKET"}
           /\ Plan[1] = "RUN_ENGINE"   /\ Position("RUN_ENGINE") = 1
           /\ Plan[2] = "CLOSE_TICKET" /\ Position("CLOSE_TICKET") = 2
<1>1. Plan = <<"RUN_ENGINE", "CLOSE_TICKET">>
  BY DEF Plan
<1>2. /\ DOMAIN Plan = 1 .. 2 /\ Len(Plan) = 2
      /\ Plan[1] = "RUN_ENGINE" /\ Plan[2] = "CLOSE_TICKET"
  BY <1>1
<1> QED BY <1>2 DEF Position, PlanSteps

\* The plan of a run without a ticket: the handover alone.
LEMMA LegacyPlan ==
    ASSUME request = "LEGACY"
    PROVE  /\ Len(Plan) = 1
           /\ PlanSteps = {"SUBMIT_LEGACY"}
           /\ Plan[1] = "SUBMIT_LEGACY" /\ Position("SUBMIT_LEGACY") = 1
<1>1. Plan = <<"SUBMIT_LEGACY">>
  BY DEF Plan
<1>2. DOMAIN Plan = 1 .. 1 /\ Len(Plan) = 1 /\ Plan[1] = "SUBMIT_LEGACY"
  BY <1>1
<1> QED BY <1>2 DEF Position, PlanSteps

\* A plan has at least one step and at most seven, and begins with a step that
\* needs nothing.
LEMMA PlanShape ==
    /\ PlanSteps \subseteq Steps
    /\ Len(Plan) \in 1 .. 7
    /\ Plan[1] \in PlanSteps /\ Position(Plan[1]) = 1
    /\ Plan[1] \in {"CREATE_TICKET", "RUN_ENGINE", "SUBMIT_LEGACY"}
    /\ HasResource => Plan[1] = "CREATE_TICKET"
    /\ \A s \in PlanSteps : Position(s) \in 1 .. 7
<1>1. CASE request = "AUTOMATION"
  BY <1>1, AutomationPlan DEF Steps, HasResource
<1>2. CASE request = "LEGACY"
  BY <1>2, LegacyPlan DEF Steps, HasResource
<1>3. CASE request \notin {"AUTOMATION", "LEGACY"}
  <2>1. \A s \in PlanSteps : s \in {"CREATE_TICKET", "CONFIGURE_RESOURCE", "AWAIT_APPROVAL",
                                    "VALIDATE_RESOURCE", "RUN_ENGINE", "FINALIZE_RESOURCE",
                                    "CLOSE_TICKET"}
    BY <1>3, ResourcePlan DEF Steps
  <2>2. \A s \in PlanSteps : Position(s) \in 1 .. 7
    BY <1>3, <2>1, ResourcePlan
  <2>3. PlanSteps \subseteq Steps /\ "CREATE_TICKET" \in PlanSteps
    BY <1>3, ResourcePlan DEF Steps
  <2>4. Len(Plan) = 7 /\ Plan[1] = "CREATE_TICKET" /\ Position("CREATE_TICKET") = 1
    BY <1>3, ResourcePlan
  <2> QED BY <2>2, <2>3, <2>4
<1> QED BY <1>1, <1>2, <1>3

\* What comes after a step s of the plan, for each step.
Follows(s, t) ==
    \/ s = "CREATE_TICKET" /\ t = "CONFIGURE_RESOURCE"
    \/ s = "CONFIGURE_RESOURCE" /\ t = "AWAIT_APPROVAL"
    \/ s = "AWAIT_APPROVAL" /\ t = "VALIDATE_RESOURCE"
    \/ s = "VALIDATE_RESOURCE" /\ t = "RUN_ENGINE"
    \/ s = "RUN_ENGINE" /\ t = "FINALIZE_RESOURCE"
    \/ s = "FINALIZE_RESOURCE" /\ t = "CLOSE_TICKET"
    \/ s = "RUN_ENGINE" /\ t = "CLOSE_TICKET" /\ request = "AUTOMATION"

\* A step that is not the last is followed by the one with the next number.
LEMMA PlanNext ==
    ASSUME NEW s \in PlanSteps, Position(s) < Len(Plan)
    PROVE  /\ Plan[Position(s) + 1] \in PlanSteps
           /\ Position(Plan[Position(s) + 1]) = Position(s) + 1
           /\ Follows(s, Plan[Position(s) + 1])
<1> DEFINE t == Plan[Position(s) + 1]
<1>1. CASE request = "AUTOMATION"
  <2>1. /\ s \in {"RUN_ENGINE", "CLOSE_TICKET"} /\ Len(Plan) = 2
        /\ Position("CLOSE_TICKET") = 2 /\ Position("RUN_ENGINE") = 1
    BY <1>1, AutomationPlan
  <2>2. s = "RUN_ENGINE" /\ Position(s) + 1 = 2
    BY <2>1
  <2> QED BY <1>1, <2>2, AutomationPlan DEF Follows
<1>2. CASE request = "LEGACY"
  <2>1. s = "SUBMIT_LEGACY" /\ Len(Plan) = 1 /\ Position("SUBMIT_LEGACY") = 1
    BY <1>2, LegacyPlan
  <2> QED BY <2>1
<1>3. CASE request \notin {"AUTOMATION", "LEGACY"}
  <2>1. s \in {"CREATE_TICKET", "CONFIGURE_RESOURCE", "AWAIT_APPROVAL",
               "VALIDATE_RESOURCE", "RUN_ENGINE", "FINALIZE_RESOURCE", "CLOSE_TICKET"}
    BY <1>3, ResourcePlan DEF Steps
  <2>2. \A i \in 1 .. 7 : Plan[i] \in PlanSteps
    BY <1>3, ResourcePlan DEF Steps
  <2>3. CASE s = "CREATE_TICKET"
    <3>1. Position(s) + 1 = 2 BY <1>3, <2>3, ResourcePlan
    <3> QED BY <1>3, <2>2, <2>3, <3>1, ResourcePlan DEF Follows
  <2>4. CASE s = "CONFIGURE_RESOURCE"
    <3>1. Position(s) + 1 = 3 BY <1>3, <2>4, ResourcePlan
    <3> QED BY <1>3, <2>2, <2>4, <3>1, ResourcePlan DEF Follows
  <2>5. CASE s = "AWAIT_APPROVAL"
    <3>1. Position(s) + 1 = 4 BY <1>3, <2>5, ResourcePlan
    <3> QED BY <1>3, <2>2, <2>5, <3>1, ResourcePlan DEF Follows
  <2>6. CASE s = "VALIDATE_RESOURCE"
    <3>1. Position(s) + 1 = 5 BY <1>3, <2>6, ResourcePlan
    <3> QED BY <1>3, <2>2, <2>6, <3>1, ResourcePlan DEF Follows
  <2>7. CASE s = "RUN_ENGINE"
    <3>1. Position(s) + 1 = 6 BY <1>3, <2>7, ResourcePlan
    <3> QED BY <1>3, <2>2, <2>7, <3>1, ResourcePlan DEF Follows
  <2>8. CASE s = "FINALIZE_RESOURCE"
    <3>1. Position(s) + 1 = 7 BY <1>3, <2>8, ResourcePlan
    <3> QED BY <1>3, <2>2, <2>8, <3>1, ResourcePlan DEF Follows
  <2>9. s # "CLOSE_TICKET"
    <3>1. Len(Plan) = 7 /\ Position("CLOSE_TICKET") = 7 BY <1>3, ResourcePlan
    <3> QED BY <3>1
  <2> QED BY <2>1, <2>3, <2>4, <2>5, <2>6, <2>7, <2>8, <2>9
<1> QED BY <1>1, <1>2, <1>3

\* The last step of a plan.
LEMMA PlanLast ==
    ASSUME NEW s \in PlanSteps, ~(Position(s) < Len(Plan))
    PROVE  s = IF request = "LEGACY" THEN "SUBMIT_LEGACY" ELSE "CLOSE_TICKET"
<1>1. CASE request = "AUTOMATION"
  BY <1>1, AutomationPlan
<1>2. CASE request = "LEGACY"
  BY <1>2, LegacyPlan
<1>3. CASE request \notin {"AUTOMATION", "LEGACY"}
  BY <1>3, ResourcePlan DEF Steps
<1> QED BY <1>1, <1>2, <1>3

-----------------------------------------------------------------------------
(* Rank. *)

\* Ranks are numbers in three digits: the step, the attempts and the clock.
LEMMA RankArithmetic ==
    ASSUME NEW p \in 1 .. 7, NEW a \in 0 .. MaxRetries, NEW c \in 0 .. MaxPolls
    PROVE  /\ ((p - 1) * (MaxRetries + 1) + a) * (MaxPolls + 1) + c \in Nat
           /\ ((p - 1) * (MaxRetries + 1) + a) * (MaxPolls + 1) + c
                < (p * (MaxRetries + 1) + 0) * (MaxPolls + 1) + 0
           /\ ((p - 1) * (MaxRetries + 1) + a) * (MaxPolls + 1) + c
                < ((p - 1) * (MaxRetries + 1) + (a + 1)) * (MaxPolls + 1) + 0
           /\ ((p - 1) * (MaxRetries + 1) + a) * (MaxPolls + 1) + c + 2 <= VersionBound
<1> DEFINE A == MaxRetries + 1
           P == MaxPolls + 1
           n == (p - 1) * A + a
<1>1. A \in Nat /\ P \in Nat /\ c < P /\ a < A /\ P >= 1 /\ c \in Nat
  BY DriverAssumption
<1>2. n \in Nat /\ n + 1 <= p * A /\ p * A \in Nat /\ p * A <= 7 * A /\ 7 * A \in Nat
  BY <1>1
<1>3. (p - 1) * A + (a + 1) = n + 1
  BY <1>1
<1>4. VersionBound = (7 * A) * P + 1
  BY DEF VersionBound
<1> HIDE DEF n, A, P
<1>5. \A x, y \in Nat : x <= y => x * P <= y * P /\ x * P \in Nat /\ y * P \in Nat
  BY <1>1
<1>6. (n + 1) * P = n * P + P
  BY <1>1, <1>2
<1>7. (n + 1) * P <= (p * A) * P /\ (p * A) * P <= (7 * A) * P /\ n * P \in Nat
      /\ (7 * A) * P \in Nat /\ (p * A) * P \in Nat
  BY <1>1, <1>2, <1>5
<1>8. n * P + c \in Nat /\ n * P + c < (p * A) * P /\ n * P + c < (n + 1) * P
      /\ n * P + c + 2 <= (7 * A) * P + 1
  BY <1>1, <1>6, <1>7
<1>9. p * A + 0 = p * A /\ (p * A) * P + 0 = (p * A) * P /\ (n + 1) * P + 0 = (n + 1) * P
  BY <1>1, <1>2, <1>6, <1>7
<1>10. /\ n * P + c \in Nat
       /\ n * P + c < (p * A + 0) * P + 0
       /\ n * P + c < ((p - 1) * A + (a + 1)) * P + 0
       /\ n * P + c + 2 <= VersionBound
  BY <1>3, <1>4, <1>8, <1>9
<1> QED BY <1>10 DEF n, A, P

-----------------------------------------------------------------------------
(* Frames: what the request alone determines, and what grows with the world. *)

\* The plan, and with it the rank of a run, changes only with the request.
LEMMA RequestFrame ==
    ASSUME UNCHANGED request
    PROVE  /\ Plan' = Plan
           /\ PlanSteps' = PlanSteps
           /\ HasResource' = HasResource
           /\ \A s : Position(s)' = Position(s)
           /\ \A run : Rank(run)' = Rank(run)
           /\ \A old, new : Keeps(old, new)' = Keeps(old, new)
<1>1. Plan' = Plan
  BY DEF Plan
<1>2. \A s : Position(s)' = Position(s)
  BY <1>1, Zenon DEF Position
<1>3. PlanSteps' = PlanSteps /\ HasResource' = HasResource
  BY <1>1 DEF PlanSteps, HasResource
<1>4. \A run : Rank(run)' = Rank(run)
  BY <1>2 DEF Rank, StepNumber
<1>5. \A old, new : Keeps(old, new)' = Keeps(old, new)
  BY <1>2 DEF Keeps
<1> QED BY <1>1, <1>2, <1>3, <1>4, <1>5

\* What makes a run sound outlives later approvals and engine runs.
LEMMA RunSoundGrows ==
    ASSUME UNCHANGED request, SomeApproved => SomeApproved', SomeSuccess => SomeSuccess',
           NEW run, RunSound(run)
    PROVE  RunSound(run)'
BY RequestFrame DEF RunSound

-----------------------------------------------------------------------------
(* Types. *)

\* The single assignments of the handlers to the working state keep its type.
LEMMA StateUpdates ==
    ASSUME NEW s \in StateType
    PROVE  /\ \A t \in {0} \cup TicketIds : [s EXCEPT !.ticket = t] \in StateType
           /\ \A b \in BOOLEAN : [s EXCEPT !.configured = b] \in StateType
           /\ \A b \in BOOLEAN : [s EXCEPT !.finalized = b] \in StateType
           /\ \A b \in BOOLEAN : [s EXCEPT !.closed = b] \in StateType
           /\ \A b \in BOOLEAN : [s EXCEPT !.submitted = b] \in StateType
           /\ \A b \in BOOLEAN : [s EXCEPT !.output = b] \in StateType
           /\ \A k \in {0} \cup EngineIds : [s EXCEPT !.engine = k] \in StateType
           /\ \A f \in {"none"} \cup EngineFailures : [s EXCEPT !.failure = f] \in StateType
           /\ \A v \in {"given", "real"} : [s EXCEPT !.vendor = v] \in StateType
           /\ \A a \in 0..(MaxRetries + 1) : [s EXCEPT !.attempts = a] \in StateType
           /\ \A c \in 0..MaxPolls : [s EXCEPT !.clock = c] \in StateType
BY DEF StateType

\* So do those of the executor to the run,
LEMMA RunUpdates ==
    ASSUME NEW r \in RunType
    PROVE  /\ \A x \in {"ABSENT"} \cup Active \cup Terminal : [r EXCEPT !.status = x] \in RunType
           /\ \A x \in {"null", "future", "due"} : [r EXCEPT !.date = x] \in RunType
           /\ \A x \in Nat \ {0} : [r EXCEPT !.version = x] \in RunType
           /\ \A x \in Steps \cup {"none"} : [r EXCEPT !.step = x] \in RunType
           /\ \A x \in StateType : [r EXCEPT !.st = x] \in RunType
BY DEF RunType

\* and those of the handlers made through the run.
LEMMA RunStateUpdates ==
    ASSUME NEW r \in RunType
    PROVE  /\ \A t \in {0} \cup TicketIds : [r EXCEPT !.st.ticket = t] \in RunType
           /\ \A b \in BOOLEAN : [r EXCEPT !.st.configured = b] \in RunType
           /\ \A b \in BOOLEAN : [r EXCEPT !.st.finalized = b] \in RunType
           /\ \A b \in BOOLEAN : [r EXCEPT !.st.closed = b] \in RunType
           /\ \A b \in BOOLEAN : [r EXCEPT !.st.submitted = b] \in RunType
           /\ \A b \in BOOLEAN : [r EXCEPT !.st.output = b] \in RunType
           /\ \A k \in {0} \cup EngineIds : [r EXCEPT !.st.engine = k] \in RunType
           /\ \A f \in {"none"} \cup EngineFailures : [r EXCEPT !.st.failure = f] \in RunType
           /\ \A v \in {"given", "real"} : [r EXCEPT !.st.vendor = v] \in RunType
           /\ \A a \in 0..(MaxRetries + 1) : [r EXCEPT !.st.attempts = a] \in RunType
           /\ \A c \in 0..MaxPolls : [r EXCEPT !.st.clock = c] \in RunType
<1>1. r.st \in StateType
  BY DEF RunType
<1> QED BY <1>1, RunUpdates, StateUpdates

-----------------------------------------------------------------------------
(* Moves. *)

\* Keeping progress is transitive.
LEMMA KeepsTransitive ==
    ASSUME NEW a, NEW b, NEW c, Keeps(a, b), Keeps(b, c),
           b.step # "none",
           a.step \in PlanSteps \cup {"none"}, b.step \in PlanSteps, c.step \in PlanSteps \cup {"none"}
    PROVE  Keeps(a, c)
<1>1. \A s \in PlanSteps : Position(s) \in Nat
  BY PlanShape
<1>2. a.step # "none" /\ c.step # "none" => Position(a.step) <= Position(c.step)
  BY <1>1 DEF Keeps
<1> QED BY <1>2 DEF Keeps

\* A step has its number, and the rank of a run is a number below VersionBound.
LEMMA RankBounds ==
    ASSUME NEW run \in RunType, run.step \in PlanSteps \cup {"none"},
           run.st.attempts <= MaxRetries
    PROVE  /\ StepNumber(run) \in 1 .. 7
           /\ Rank(run) \in Nat
           /\ Rank(run) + 2 <= VersionBound
<1>1. StepNumber(run) \in 1 .. 7
  <2>1. \A s \in PlanSteps : Position(s) \in 1 .. 7
    BY PlanShape
  <2> QED BY <2>1 DEF StepNumber
<1>2. run.st.attempts \in 0 .. MaxRetries /\ run.st.clock \in 0 .. MaxPolls
  BY DriverAssumption DEF RunType, StateType
<1> HIDE DEF Rank
<1>3. /\ ((StepNumber(run) - 1) * (MaxRetries + 1) + run.st.attempts) * (MaxPolls + 1) + run.st.clock \in Nat
      /\ ((StepNumber(run) - 1) * (MaxRetries + 1) + run.st.attempts) * (MaxPolls + 1) + run.st.clock + 2 <= VersionBound
  BY <1>1, <1>2, RankArithmetic
<1> QED BY <1>1, <1>3 DEF Rank

\* The copy of a driving worker, or that copy with more markers set.
Ready(w, run) ==
    /\ run \in RunType
    /\ run.status = "RUNNING"
    /\ run.version = Run(w).version
    /\ run.date = Run(w).date
    /\ run.step = Run(w).step
    /\ run.st.attempts = Run(w).st.attempts
    /\ run.st.clock = Run(w).st.clock
    /\ Keeps(Run(w), run)
    /\ RunSound(run)

\* A move that leaves the worker in a sound state, judged by the world before it:
\* a drive goes on, or settles on what to save, which escalation leaves alone.
SoundMove(w) ==
    \E m \in WorkerType :
       /\ me' = [me EXCEPT ![w] = m]
       /\ WorkerSound(m)
       /\ m.pc \in Busy
       /\ m.quiet = me[w].quiet
       /\ m.run.version = Run(w).version
       /\ m.pc \in Driving => me[w].pc \in Driving /\ m.run.date = Run(w).date
       /\ me[w].pc \in Escalating => m.run.status = Run(w).status

\* A step of a worker that holds the run and leaves the row alone.
SoundStep(w) ==
    /\ me[w].pc \in Busy
    /\ SoundMove(w)
    /\ faults' \in Nat /\ ext' \in ExtType
    /\ (SomeApproved => SomeApproved') /\ (SomeSuccess => SomeSuccess')
    /\ EngineSound'
    /\ UNCHANGED others

\* What the invariant says about a driving worker.
LEMMA DrivingFacts ==
    ASSUME DriverInv, NEW w \in Workers, me[w].pc \in Driving
    PROVE  /\ Ready(w, Run(w))
           /\ me[w] \in WorkerType /\ ~me[w].quiet
           /\ Run(w).step \in PlanSteps
           /\ Run(w).st.attempts <= MaxRetries
           /\ Run(w).version <= Rank(Run(w)) + 1
           /\ Tracks(me[w])
           /\ me[w].pc # "overdue" => Run(w).st.clock < MaxPolls
           /\ row.step \in PlanSteps \cup {"none"}
           /\ row \in RunType
<1>1. me[w] \in WorkerType /\ row \in RunType /\ me[w].run \in RunType
  BY DEF DriverInv, TypeOK, WorkerType
<1>2. WorkerSound(me[w]) /\ RunSound(row)
  BY DEF DriverInv, RowSound
<1>3. PointSound(me[w]) /\ RunSound(me[w].run) /\ Tracks(me[w]) /\ Ranked(me[w])
  BY <1>2 DEF WorkerSound, Busy
<1>4. /\ me[w].run.status = "RUNNING" /\ me[w].run.step # "none" /\ ~me[w].quiet
      /\ me[w].pc # "overdue" => me[w].run.st.clock < MaxPolls
  BY <1>3 DEF PointSound
<1>5. /\ me[w].run.step \in PlanSteps /\ me[w].run.st.attempts <= MaxRetries
      /\ row.step \in PlanSteps \cup {"none"}
  BY <1>2, <1>3, <1>4 DEF RunSound, Active
<1>6. Keeps(me[w].run, me[w].run)
  <2>1. Position(me[w].run.step) \in Nat
    BY <1>5, PlanShape
  <2> QED BY <2>1 DEF Keeps
<1>7. me[w].run.version <= Rank(me[w].run) + 1
  BY <1>3 DEF Ranked
<1>8. Ready(w, me[w].run)
  BY <1>1, <1>3, <1>4, <1>6 DEF Ready, Run
<1> QED BY <1>1, <1>3, <1>4, <1>5, <1>7, <1>8 DEF Run

\* Goto in terms of the whole record of a worker.
LEMMA GotoIs ==
    ASSUME me \in [Workers -> WorkerType], NEW w \in Workers, NEW p, NEW run, Goto(w, p, run)
    PROVE  me' = [me EXCEPT ![w] = [pc |-> p, err |-> me[w].err, order |-> me[w].order,
                                    quiet |-> me[w].quiet, run |-> run]]
<1> DEFINE m == [pc |-> p, err |-> me[w].err, order |-> me[w].order,
                 quiet |-> me[w].quiet, run |-> run]
<1>1. me' = [me EXCEPT ![w] = [[me[w] EXCEPT !.pc = p] EXCEPT !.run = run]]
  BY DEF Goto
<1>2. [me[w] EXCEPT !.pc = p] = [pc |-> p, err |-> me[w].err, order |-> me[w].order,
                                 quiet |-> me[w].quiet, run |-> me[w].run]
  BY DEF WorkerType
<1>3. [[pc |-> p, err |-> me[w].err, order |-> me[w].order, quiet |-> me[w].quiet,
        run |-> me[w].run] EXCEPT !.run = run] = m
  OBVIOUS
<1> QED BY <1>1, <1>2, <1>3

\* A driving worker goes on to m, with all the progress of a copy that was ready.
LEMMA DriveOn ==
    ASSUME DriverInv, NEW w \in Workers, me[w].pc \in Driving, NEW run, Ready(w, run),
           NEW m \in WorkerType, me' = [me EXCEPT ![w] = m], m.pc \in Busy,
           PointSound(m), RunSound(m.run), Ranked(m), m.quiet = me[w].quiet,
           m.run.version = run.version, m.pc \in Driving => m.run.date = run.date,
           Keeps(run, m.run)
    PROVE  SoundMove(w)
<1>1. /\ Run(w).step \in PlanSteps /\ row.step \in PlanSteps \cup {"none"}
      /\ Tracks(me[w]) /\ Run(w).step # "none"
  BY DrivingFacts DEF DriverInv, WorkerSound, PointSound, Run
<1>2. /\ run.version = Run(w).version /\ run.step = Run(w).step /\ Keeps(Run(w), run)
      /\ run.date = Run(w).date
  BY DEF Ready
<1>3. m.run.step \in PlanSteps \cup {"none"}
  BY DEF RunSound
<1>4. Keeps(Run(w), m.run)
  BY <1>1, <1>2, <1>3, KeepsTransitive
<1>5. Keeps(row, Run(w)) => Keeps(row, m.run)
  BY <1>1, <1>3, <1>4, KeepsTransitive
<1>6. Tracks(m)
  BY <1>1, <1>2, <1>5 DEF Tracks, Run
<1> QED BY <1>2, <1>6 DEF SoundMove, WorkerSound, Driving, Escalating

\* The step is done: either the next one is begun or the run is COMPLETED.
LEMMA AdvanceSound ==
    ASSUME DriverInv, NEW w \in Workers, me[w].pc \in Driving \ {"overdue"},
           NEW run, Ready(w, run), Advance(w, run),
           HasResource /\ run.step = "CREATE_TICKET" => run.st.ticket # 0,
           HasResource /\ run.step = "AWAIT_APPROVAL" => SomeApproved,
           run.step = "RUN_ENGINE" => SomeSuccess
    PROVE  SoundMove(w)
<1> DEFINE done == [run EXCEPT !.st.attempts = 0, !.st.clock = 0]
           i    == Position(run.step)
<1>1. /\ me \in [Workers -> WorkerType]
      /\ me[w] \in WorkerType /\ ~me[w].quiet
      /\ Run(w).step \in PlanSteps /\ row.step \in PlanSteps \cup {"none"}
      /\ Tracks(me[w])
      /\ Run(w).version <= Rank(Run(w)) + 1
  BY DrivingFacts DEF DriverInv, TypeOK
<1>2. /\ run \in RunType /\ run.status = "RUNNING" /\ run.version = Run(w).version
      /\ run.step = Run(w).step /\ Keeps(Run(w), run) /\ RunSound(run)
      /\ run.st.attempts = Run(w).st.attempts /\ run.st.clock = Run(w).st.clock
  BY DEF Ready
<1>3. done \in RunType
  <2>1. 0 \in 0 .. MaxPolls /\ 0 \in 0 .. (MaxRetries + 1)
    BY DriverAssumption
  <2>2. [run EXCEPT !.st.attempts = 0] \in RunType
    BY <1>2, <2>1, RunStateUpdates
  <2> QED BY <2>1, <2>2, RunStateUpdates
<1>4. done.step = run.step /\ done.status = run.status /\ done.version = run.version
      /\ done.date = run.date
      /\ done.st.attempts = 0 /\ done.st.clock = 0 /\ done.st.ticket = run.st.ticket
      /\ done.st.configured = run.st.configured /\ done.st.finalized = run.st.finalized
      /\ done.st.submitted = run.st.submitted
  BY <1>2 DEF RunType, StateType
<1>5. /\ i \in 1 .. 7 /\ run.step \in PlanSteps /\ run.step # "none"
      /\ run.st.attempts \in 0 .. MaxRetries /\ run.st.clock \in 0 .. MaxPolls
  <2>1. run.step \in PlanSteps /\ run.step # "none" /\ run.st.attempts <= MaxRetries
    BY <1>2, DrivingFacts DEF DriverInv, WorkerSound, PointSound, Run
  <2> QED BY <1>2, <2>1, PlanShape, DriverAssumption DEF RunType, StateType
<1>6. Rank(run) = ((i - 1) * (MaxRetries + 1) + run.st.attempts) * (MaxPolls + 1) + run.st.clock
  BY <1>5 DEF Rank, StepNumber
<1>7. /\ Rank(run) \in Nat /\ Rank(run) + 2 <= VersionBound
      /\ run.version <= Rank(run) + 1 /\ run.version \in Nat
  <2>1. Rank(Run(w)) = Rank(run)
    BY <1>2 DEF Rank, StepNumber
  <2> QED BY <1>1, <1>2, <1>5, <2>1, RankBounds DEF RunType
<1>8. VersionBound \in Nat
  BY DriverAssumption DEF VersionBound
<1> HIDE DEF done
<1>9. CASE i < Len(Plan)
  <2> DEFINE next == Plan[i + 1]
             new  == [done EXCEPT !.step = next]
             m    == [pc |-> "step", err |-> me[w].err, order |-> me[w].order,
                      quiet |-> me[w].quiet, run |-> new]
  <2>1. next \in PlanSteps /\ Position(next) = i + 1 /\ Follows(run.step, next)
    BY <1>1, <1>2, <1>9, PlanNext
  <2>2. me' = [me EXCEPT ![w] = m]
    BY <1>1, <1>9, GotoIs DEF Advance, done
  <2>3. next \in Steps /\ next # "none"
    BY <2>1, PlanShape DEF Steps
  <2>4. new \in RunType
    BY <1>3, <2>3, RunUpdates
  <2>5. /\ new.step = next /\ new.status = run.status /\ new.version = run.version
        /\ new.st = done.st /\ new.date = run.date
    BY <1>3, <1>4 DEF RunType
  <2> HIDE DEF new, next
  <2>6. m \in WorkerType
    BY <1>1, <2>4 DEF WorkerType
  <2>7. Keeps(run, new)
    BY <1>4, <1>5, <2>1, <2>5 DEF Keeps
  <2>8. RunSound(new)
    BY <1>2, <1>4, <2>1, <2>3, <2>5, DriverAssumption DEF RunSound, Follows
  <2>9. PointSound(m)
    BY <1>1, <1>2, <1>4, <2>3, <2>5, DriverAssumption DEF PointSound, Driving, Escalating
  <2>10. Rank(run) < Rank(new)
    <3>1. StepNumber(new) = i + 1
      BY <2>1, <2>3, <2>5 DEF StepNumber
    <3>2. Rank(new) = (i * (MaxRetries + 1) + 0) * (MaxPolls + 1) + 0
      BY <1>4, <1>5, <2>5, <3>1 DEF Rank
    <3> QED BY <1>5, <1>6, <3>2, RankArithmetic
  <2>11. Rank(new) \in Nat
    BY <1>4, <2>1, <2>4, <2>5, RankBounds, DriverAssumption
  <2>12. Ranked(m)
    BY <1>7, <1>8, <2>5, <2>10, <2>11 DEF Ranked
  <2>13. m.pc \in Busy
    BY DEF Busy, Driving
  <2> QED BY <2>2, <2>5, <2>6, <2>7, <2>8, <2>9, <2>12, <2>13, DriveOn
<1>10. CASE ~(i < Len(Plan))
  <2> DEFINE new == [done EXCEPT !.status = "COMPLETED", !.step = "none", !.date = "null"]
             m   == [pc |-> "save", err |-> me[w].err, order |-> me[w].order,
                     quiet |-> me[w].quiet, run |-> new]
  <2>1. run.step = IF request = "LEGACY" THEN "SUBMIT_LEGACY" ELSE "CLOSE_TICKET"
    BY <1>5, <1>10, PlanLast
  <2>2. me' = [me EXCEPT ![w] = m]
    BY <1>1, <1>10, GotoIs DEF Advance, done
  <2>3. new \in RunType
    BY <1>3 DEF RunType, Terminal
  <2>4. /\ new.step = "none" /\ new.status = "COMPLETED" /\ new.version = run.version
        /\ new.st = done.st /\ new.date = "null"
    BY <1>3, <1>4 DEF RunType
  <2> HIDE DEF new
  <2>5. m \in WorkerType
    BY <1>1, <2>3 DEF WorkerType
  <2>6. Keeps(run, new)
    BY <1>4, <2>4 DEF Keeps
  <2>7. RunSound(new)
    BY <1>2, <1>4, <2>1, <2>4, DriverAssumption DEF RunSound, Active
  <2>8. PointSound(m)
    BY <1>1, <2>4 DEF PointSound, Driving, Escalating, Terminal
  <2>9. Ranked(m)
    BY <1>7, <1>8, <2>4 DEF Ranked, Driving
  <2>10. m.pc \in Busy \ Driving
    BY DEF Busy, Driving
  <2> QED BY <2>2, <2>4, <2>5, <2>6, <2>7, <2>8, <2>9, <2>10, DriveOn
<1> QED BY <1>9, <1>10

\* What is common to the moves below: the copy's type, step and rank.
LEMMA ReadyFacts ==
    ASSUME DriverInv, NEW w \in Workers, me[w].pc \in Driving, NEW run, Ready(w, run)
    PROVE  /\ me \in [Workers -> WorkerType] /\ me[w] \in WorkerType /\ ~me[w].quiet
           /\ run \in RunType /\ run.status = "RUNNING" /\ RunSound(run)
           /\ run.step \in PlanSteps /\ run.step # "none"
           /\ Position(run.step) \in 1 .. 7 /\ StepNumber(run) = Position(run.step)
           /\ run.st.attempts \in 0 .. MaxRetries /\ run.st.clock \in 0 .. MaxPolls
           /\ me[w].pc # "overdue" => run.st.clock < MaxPolls
           /\ Rank(run) \in Nat /\ Rank(run) + 2 <= VersionBound
           /\ run.version <= Rank(run) + 1 /\ run.version \in Nat
           /\ VersionBound \in Nat
<1>1. /\ me \in [Workers -> WorkerType] /\ me[w] \in WorkerType /\ ~me[w].quiet
      /\ Run(w).step \in PlanSteps /\ Run(w).st.attempts <= MaxRetries
      /\ Run(w).version <= Rank(Run(w)) + 1
      /\ me[w].pc # "overdue" => Run(w).st.clock < MaxPolls
  BY DrivingFacts DEF DriverInv, TypeOK
<1>2. Run(w).step # "none"
  BY DEF DriverInv, WorkerSound, PointSound, Run
<1>3. /\ run \in RunType /\ run.status = "RUNNING" /\ run.version = Run(w).version
      /\ run.step = Run(w).step /\ RunSound(run)
      /\ run.st.attempts = Run(w).st.attempts /\ run.st.clock = Run(w).st.clock
  BY DEF Ready
<1>4. /\ Position(run.step) \in 1 .. 7 /\ StepNumber(run) = Position(run.step)
  BY <1>1, <1>2, <1>3, PlanShape DEF StepNumber
<1>5. /\ run.st.attempts \in 0 .. MaxRetries /\ run.st.clock \in 0 .. MaxPolls
      /\ run.version \in Nat
  BY <1>1, <1>3, DriverAssumption DEF RunType, StateType
<1>6. Rank(run) \in Nat /\ Rank(run) + 2 <= VersionBound /\ Rank(run) = Rank(Run(w))
  BY <1>1, <1>3, RankBounds DEF Rank, StepNumber
<1>7. VersionBound \in Nat
  BY DriverAssumption DEF VersionBound
<1> QED BY <1>1, <1>2, <1>3, <1>4, <1>5, <1>6, <1>7

\* The step is polled: the attempt's clock goes on.
LEMMA PollSound ==
    ASSUME DriverInv, NEW w \in Workers, me[w].pc \in Driving \ {"overdue"},
           NEW run, Ready(w, run), Poll(w, run)
    PROVE  SoundMove(w)
<1> DEFINE new == [run EXCEPT !.date = "future", !.st.clock = @ + 1]
           m   == [pc |-> "save", err |-> me[w].err, order |-> me[w].order,
                   quiet |-> me[w].quiet, run |-> new]
<1>1. /\ me \in [Workers -> WorkerType] /\ me[w] \in WorkerType /\ ~me[w].quiet
      /\ run \in RunType /\ run.status = "RUNNING" /\ RunSound(run)
      /\ run.step \in PlanSteps /\ Position(run.step) \in 1 .. 7
      /\ run.st.clock \in 0 .. MaxPolls /\ run.st.clock < MaxPolls
      /\ Rank(run) \in Nat /\ Rank(run) + 2 <= VersionBound
      /\ run.version <= Rank(run) + 1 /\ run.version \in Nat
      /\ VersionBound \in Nat
  BY ReadyFacts
<1>2. me' = [me EXCEPT ![w] = m]
  BY <1>1, GotoIs DEF Poll
<1>3. run.st.clock + 1 \in 0 .. MaxPolls
  BY <1>1, DriverAssumption
<1>4. new \in RunType
  <2>1. [run EXCEPT !.date = "future"] \in RunType /\ [run EXCEPT !.date = "future"].st = run.st
    BY <1>1 DEF RunType
  <2> QED BY <1>3, <2>1, RunStateUpdates
<1>5. /\ new.step = run.step /\ new.status = run.status /\ new.version = run.version
      /\ new.date = "future"
      /\ new.st.attempts = run.st.attempts /\ new.st.clock = run.st.clock + 1
      /\ new.st.ticket = run.st.ticket /\ new.st.configured = run.st.configured
      /\ new.st.finalized = run.st.finalized /\ new.st.submitted = run.st.submitted
  BY <1>1 DEF RunType, StateType
<1> HIDE DEF new
<1>6. m \in WorkerType
  BY <1>1, <1>4 DEF WorkerType
<1>7. Keeps(run, new)
  BY <1>1, <1>5 DEF Keeps
<1>8. RunSound(new)
  BY <1>1, <1>5 DEF RunSound
<1>9. PointSound(m)
  BY <1>1, <1>5 DEF PointSound, Driving, Escalating
<1>10. Rank(new) = Rank(run) + 1
  <2> DEFINE n == ((StepNumber(run) - 1) * (MaxRetries + 1) + run.st.attempts) * (MaxPolls + 1)
  <2>1. Rank(run) = n + run.st.clock /\ Rank(new) = n + (run.st.clock + 1)
    BY <1>5 DEF Rank, StepNumber
  <2>2. n \in Int
    <3>1. StepNumber(run) \in 1 .. 7 /\ run.st.attempts \in 0 .. MaxRetries
      BY ReadyFacts
    <3> QED BY <3>1, DriverAssumption
  <2> HIDE DEF n
  <2> QED BY <1>1, <2>1, <2>2
<1>11. Ranked(m)
  BY <1>1, <1>5, <1>10 DEF Ranked, Driving
<1>12. m.pc \in Busy \ Driving
  BY DEF Busy, Driving
<1> QED BY <1>2, <1>5, <1>6, <1>7, <1>8, <1>9, <1>11, <1>12, DriveOn

\* The step raised: it is tried again later, or the run is FAILED and escalated.
LEMMA StepErrorSound ==
    ASSUME DriverInv, NEW w \in Workers, me[w].pc \in Driving,
           NEW run, Ready(w, run),
           NEW err \in {"unclassified", "VALIDATION", "INFRA_PRECHECK", "TASK"},
           StepError(w, run, err)
    PROVE  SoundMove(w)
<1> DEFINE failed == [run EXCEPT !.st.attempts = @ + 1]
<1>1. /\ me \in [Workers -> WorkerType] /\ me[w] \in WorkerType /\ ~me[w].quiet
      /\ run \in RunType /\ run.status = "RUNNING" /\ RunSound(run)
      /\ run.step \in PlanSteps /\ Position(run.step) \in 1 .. 7
      /\ StepNumber(run) = Position(run.step)
      /\ run.st.attempts \in 0 .. MaxRetries /\ run.st.clock \in 0 .. MaxPolls
      /\ Rank(run) \in Nat /\ Rank(run) + 2 <= VersionBound
      /\ run.version <= Rank(run) + 1 /\ run.version \in Nat
      /\ VersionBound \in Nat
  BY ReadyFacts
<1>2. run.st.attempts + 1 \in 0 .. (MaxRetries + 1)
  BY <1>1, DriverAssumption
<1>3. failed \in RunType
  BY <1>1, <1>2, RunStateUpdates
<1>4. /\ failed.step = run.step /\ failed.status = run.status /\ failed.version = run.version
      /\ failed.st.attempts = run.st.attempts + 1
      /\ failed.st.ticket = run.st.ticket /\ failed.st.configured = run.st.configured
      /\ failed.st.finalized = run.st.finalized /\ failed.st.submitted = run.st.submitted
  BY <1>1 DEF RunType, StateType
<1> HIDE DEF failed
<1>5. CASE Retryable(err) /\ failed.st.attempts <= RetryLimit
  <2> DEFINE reset == ResetForRetry(failed)
             new   == [reset EXCEPT !.st.clock = 0, !.date = "future"]
             m     == [pc |-> "save", err |-> me[w].err, order |-> me[w].order,
                       quiet |-> me[w].quiet, run |-> new]
  <2>1. me' = [me EXCEPT ![w] = m]
    BY <1>1, <1>5, GotoIs DEF StepError, failed
  <2>2. /\ reset \in RunType /\ reset.step = run.step /\ reset.status = run.status
        /\ reset.version = run.version
        /\ reset.st.attempts = run.st.attempts + 1
        /\ reset.st.ticket = run.st.ticket /\ reset.st.configured = run.st.configured
        /\ reset.st.finalized = run.st.finalized /\ reset.st.submitted = run.st.submitted
    <3>1. CASE failed.step = "RUN_ENGINE"
      <4>1. [failed EXCEPT !.st.engine = 0] \in RunType
        BY <1>3, RunStateUpdates
      <4>2. [failed EXCEPT !.st.engine = 0, !.st.failure = "none"] \in RunType
        BY <4>1, RunStateUpdates
      <4>3. [failed EXCEPT !.st.engine = 0, !.st.failure = "none", !.st.output = FALSE] \in RunType
        BY <4>2, RunStateUpdates
      <4>4. reset = [failed EXCEPT !.st.engine = 0, !.st.failure = "none", !.st.output = FALSE]
        BY <3>1 DEF ResetForRetry
      <4> DEFINE x == [failed EXCEPT !.st.engine = 0, !.st.failure = "none", !.st.output = FALSE]
      <4>5. /\ x.step = failed.step /\ x.status = failed.status /\ x.version = failed.version
            /\ x.st.attempts = failed.st.attempts
            /\ x.st.ticket = failed.st.ticket /\ x.st.configured = failed.st.configured
            /\ x.st.finalized = failed.st.finalized /\ x.st.submitted = failed.st.submitted
        BY <1>3 DEF RunType, StateType
      <4> HIDE DEF x
      <4>6. reset = x /\ x \in RunType
        BY <4>3, <4>4 DEF x
      <4> HIDE DEF reset
      <4> QED BY <1>4, <4>5, <4>6
    <3>2. CASE failed.step # "RUN_ENGINE"
      <4>1. reset = failed
        BY <3>2 DEF ResetForRetry
      <4> QED BY <1>3, <1>4, <4>1
    <3> QED BY <3>1, <3>2
  <2> HIDE DEF reset
  <2>3. new \in RunType
    <3>0. 0 \in 0 .. MaxPolls
      BY DriverAssumption
    <3>1. [reset EXCEPT !.st.clock = 0] \in RunType
      BY <2>2, <3>0, RunStateUpdates
    <3> QED BY <3>1, RunUpdates
  <2>4. /\ new.step = run.step /\ new.status = run.status /\ new.version = run.version
        /\ new.date = "future"
        /\ new.st.attempts = run.st.attempts + 1 /\ new.st.clock = 0
        /\ new.st.ticket = run.st.ticket /\ new.st.configured = run.st.configured
        /\ new.st.finalized = run.st.finalized /\ new.st.submitted = run.st.submitted
    BY <2>2 DEF RunType, StateType
  <2> HIDE DEF new
  <2>5. m \in WorkerType
    BY <1>1, <2>3 DEF WorkerType
  <2>6. Keeps(run, new)
    BY <1>1, <2>4 DEF Keeps
  <2>7. new.st.attempts <= MaxRetries
    BY <1>4, <1>5, <2>4 DEF RetryLimit
  <2>8. RunSound(new)
    BY <1>1, <2>4, <2>7 DEF RunSound
  <2>9. PointSound(m)
    BY <1>1, <2>4 DEF PointSound, Driving, Escalating
  <2>10. Rank(run) < Rank(new)
    <3>1. StepNumber(new) = Position(run.step)
      BY <1>1, <2>4 DEF StepNumber
    <3>2. /\ Rank(new) = ((Position(run.step) - 1) * (MaxRetries + 1) + (run.st.attempts + 1))
                           * (MaxPolls + 1) + 0
          /\ Rank(run) = ((Position(run.step) - 1) * (MaxRetries + 1) + run.st.attempts)
                           * (MaxPolls + 1) + run.st.clock
      BY <1>1, <2>4, <3>1 DEF Rank
    <3> QED BY <1>1, <3>2, RankArithmetic
  <2>11. Rank(new) \in Nat
    BY <1>1, <2>3, <2>4, <2>7, RankBounds
  <2>12. Ranked(m)
    BY <1>1, <2>4, <2>10, <2>11 DEF Ranked, Driving
  <2>13. m.pc \in Busy \ Driving
    BY DEF Busy, Driving
  <2> QED BY <2>1, <2>4, <2>5, <2>6, <2>8, <2>9, <2>12, <2>13, DriveOn
<1>6. CASE ~(Retryable(err) /\ failed.st.attempts <= RetryLimit)
  <2> DEFINE new == Failed(failed)
             m   == [pc |-> EscalationPoint(err), err |-> err, order |-> me[w].order,
                     quiet |-> me[w].quiet, run |-> new]
  <2>1. EscalationPoint(err) \in {"incident", "closing"}
    BY DEF EscalationPoint
  <2>2. me' = [me EXCEPT ![w] = m]
    <3>1. me' = [me EXCEPT ![w] = [[[me[w] EXCEPT !.pc = EscalationPoint(err)]
                                      EXCEPT !.err = err] EXCEPT !.run = new]]
      BY <1>6 DEF StepError, failed
    <3> HIDE DEF new
    <3>2. PICK e : e = EscalationPoint(err)
      OBVIOUS
    <3>3. [me[w] EXCEPT !.pc = e]
            = [pc |-> e, err |-> me[w].err, order |-> me[w].order,
               quiet |-> me[w].quiet, run |-> me[w].run]
      BY <1>1 DEF WorkerType
    <3>4. [[pc |-> e, err |-> me[w].err, order |-> me[w].order, quiet |-> me[w].quiet,
            run |-> me[w].run] EXCEPT !.err = err]
            = [pc |-> e, err |-> err, order |-> me[w].order,
               quiet |-> me[w].quiet, run |-> me[w].run]
      OBVIOUS
    <3>5. [[pc |-> e, err |-> err, order |-> me[w].order, quiet |-> me[w].quiet,
            run |-> me[w].run] EXCEPT !.run = new]
            = [pc |-> e, err |-> err, order |-> me[w].order, quiet |-> me[w].quiet, run |-> new]
      OBVIOUS
    <3> QED BY <3>1, <3>2, <3>3, <3>4, <3>5
  <2>3. new \in RunType
    BY <1>3 DEF RunType, Failed, Terminal
  <2>4. /\ new.step = run.step /\ new.status = "FAILED" /\ new.version = run.version
        /\ new.date = "null" /\ new.st = failed.st
    BY <1>3, <1>4 DEF RunType, Failed
  <2> HIDE DEF new
  <2>5. m \in WorkerType
    BY <1>1, <2>1, <2>3 DEF WorkerType
  <2>6. Keeps(run, new)
    BY <1>1, <1>4, <2>4 DEF Keeps
  <2>7. RunSound(new)
    BY <1>1, <1>4, <2>4 DEF RunSound, Active
  <2>8. PointSound(m)
    BY <1>1, <2>1, <2>4 DEF PointSound, Driving, Escalating
  <2>9. Ranked(m)
    BY <1>1, <2>1, <2>4 DEF Ranked, Driving
  <2>10. m.pc \in Busy \ Driving
    BY <2>1 DEF Busy, Driving, Escalating
  <2> QED BY <2>2, <2>4, <2>5, <2>6, <2>7, <2>8, <2>9, <2>10, DriveOn
<1> QED BY <1>5, <1>6

\* An approver said no.
LEMMA RejectSound ==
    ASSUME DriverInv, NEW w \in Workers, me[w].pc \in Driving, RejectRun(w)
    PROVE  SoundMove(w)
<1> DEFINE new == [Run(w) EXCEPT !.status = "REJECTED", !.date = "null"]
           m   == [pc |-> "release", err |-> me[w].err, order |-> me[w].order,
                   quiet |-> me[w].quiet, run |-> new]
<1>1. Ready(w, Run(w))
  BY DrivingFacts
<1>2. /\ me \in [Workers -> WorkerType] /\ me[w] \in WorkerType /\ ~me[w].quiet
      /\ Run(w) \in RunType /\ RunSound(Run(w))
      /\ Run(w).step \in PlanSteps /\ Position(Run(w).step) \in 1 .. 7
      /\ Rank(Run(w)) \in Nat /\ Rank(Run(w)) + 2 <= VersionBound
      /\ Run(w).version <= Rank(Run(w)) + 1 /\ Run(w).version \in Nat
      /\ VersionBound \in Nat
  BY <1>1, ReadyFacts
<1>3. me' = [me EXCEPT ![w] = m]
  BY <1>2, GotoIs DEF RejectRun
<1>4. new \in RunType
  BY <1>2 DEF RunType, Terminal
<1>5. /\ new.step = Run(w).step /\ new.status = "REJECTED" /\ new.version = Run(w).version
      /\ new.date = "null" /\ new.st = Run(w).st
  BY <1>2 DEF RunType
<1> HIDE DEF new
<1>6. m \in WorkerType
  BY <1>2, <1>4 DEF WorkerType
<1>7. Keeps(Run(w), new)
  BY <1>2, <1>5 DEF Keeps
<1>8. RunSound(new)
  BY <1>2, <1>5 DEF RunSound, Active
<1>9. PointSound(m)
  BY <1>2, <1>5 DEF PointSound, Driving, Escalating
<1>10. Ranked(m)
  BY <1>2, <1>5 DEF Ranked, Driving
<1>11. m.pc \in Busy \ Driving
  BY DEF Busy, Driving, Escalating
<1> QED BY <1>1, <1>3, <1>5, <1>6, <1>7, <1>8, <1>9, <1>10, <1>11, DriveOn

\* Within a step: the copy stays as it is.
LEMMA WithinStepSound ==
    ASSUME DriverInv, NEW w \in Workers, me[w].pc \in Driving \ {"overdue"},
           NEW p \in {"order", "tag", "delete"}, NEW t \in {0} \cup TicketIds,
           me' = [me EXCEPT ![w] = [pc |-> p, err |-> me[w].err, order |-> t,
                                    quiet |-> me[w].quiet, run |-> Run(w)]],
           p \in {"order", "tag"} => Run(w).step = "CREATE_TICKET" /\ Run(w).st.ticket = 0,
           p = "tag" => t # 0,
           p = "delete" => Run(w).step = "FINALIZE_RESOURCE"
    PROVE  SoundMove(w)
<1> DEFINE m == [pc |-> p, err |-> me[w].err, order |-> t, quiet |-> me[w].quiet, run |-> Run(w)]
<1>1. Ready(w, Run(w)) /\ Keeps(Run(w), Run(w))
  BY DrivingFacts DEF Ready
<1>2. /\ me[w] \in WorkerType /\ ~me[w].quiet
      /\ Run(w) \in RunType /\ Run(w).status = "RUNNING" /\ RunSound(Run(w))
      /\ Run(w).step # "none" /\ Run(w).st.clock < MaxPolls
      /\ Rank(Run(w)) \in Nat /\ Rank(Run(w)) + 2 <= VersionBound
      /\ Run(w).version <= Rank(Run(w)) + 1 /\ Run(w).version \in Nat
      /\ VersionBound \in Nat
  BY <1>1, ReadyFacts
<1>3. m \in WorkerType
  BY <1>2 DEF WorkerType
<1>4. PointSound(m)
  BY <1>2 DEF PointSound, Driving, Escalating
<1>5. Ranked(m)
  BY <1>2 DEF Ranked, Driving
<1>6. m.pc \in Busy /\ m.run = Run(w) /\ m.quiet = me[w].quiet
  BY DEF Busy, Driving
<1> QED BY <1>1, <1>2, <1>3, <1>4, <1>5, <1>6, DriveOn

\* Escalation goes on: of the copy at most the closed marker changes.
LEMMA EscalateOn ==
    ASSUME DriverInv, NEW w \in Workers, me[w].pc \in Escalating,
           NEW p \in Escalating \cup {"save"},
           NEW run \in {Run(w), [Run(w) EXCEPT !.st.closed = TRUE]},
           me' = [me EXCEPT ![w] = [pc |-> p, err |-> me[w].err, order |-> me[w].order,
                                    quiet |-> me[w].quiet, run |-> run]]
    PROVE  SoundMove(w)
<1> DEFINE m == [pc |-> p, err |-> me[w].err, order |-> me[w].order, quiet |-> me[w].quiet,
                 run |-> run]
<1>1. /\ me[w] \in WorkerType /\ Run(w) \in RunType
      /\ WorkerSound(me[w])
  BY DEF DriverInv, TypeOK, WorkerType, Run
<1>2. /\ Run(w).status \in {"FAILED", "REJECTED"} /\ Run(w).date = "null"
      /\ me[w].quiet => Run(w).status = "FAILED"
      /\ RunSound(Run(w)) /\ Tracks(me[w]) /\ Run(w).version < VersionBound
  BY <1>1 DEF WorkerSound, PointSound, Ranked, Busy, Run
<1>3. /\ run \in RunType
      /\ run.status = Run(w).status /\ run.date = Run(w).date /\ run.version = Run(w).version
      /\ run.step = Run(w).step
      /\ run.st.ticket = Run(w).st.ticket /\ run.st.attempts = Run(w).st.attempts
      /\ run.st.configured = Run(w).st.configured /\ run.st.finalized = Run(w).st.finalized
      /\ run.st.submitted = Run(w).st.submitted
  <2>1. CASE run = Run(w)
    BY <1>1, <2>1
  <2>2. CASE run = [Run(w) EXCEPT !.st.closed = TRUE]
    <3>1. run \in RunType
      BY <1>1, <2>2, RunStateUpdates
    <3> QED BY <1>1, <2>2, <3>1 DEF RunType, StateType
  <2> QED BY <2>1, <2>2
<1>4. m \in WorkerType
  BY <1>1, <1>3 DEF WorkerType, Escalating
<1>5. PointSound(m)
  BY <1>2, <1>3 DEF PointSound, Driving, Escalating, Terminal
<1>6. RunSound(run)
  BY <1>2, <1>3 DEF RunSound, Active
<1>7. Tracks(m)
  BY <1>2, <1>3 DEF Tracks, Keeps, Run
<1>8. Ranked(m)
  BY <1>2, <1>3 DEF Ranked, Driving, Escalating
<1>9. m.pc \in Busy \ Driving
  BY DEF Busy, Driving, Escalating
<1> QED BY <1>3, <1>4, <1>5, <1>6, <1>7, <1>8, <1>9 DEF SoundMove, WorkerSound

\* While a worker holds the run there is one.
LEMMA HeldExists ==
    ASSUME DriverInv, NEW w \in Workers, me[w].pc # "idle"
    PROVE  row.status # "ABSENT" /\ request # "none"
<1>1. me[w] # Idle
  BY DEF Idle
<1> QED BY <1>1 DEF DriverInv, RowSound

-----------------------------------------------------------------------------
(* Steps of a worker that leave the row alone. *)

\* A sound step of one worker keeps the inductive invariant: the row is left alone.
LEMMA SoundMoveKeeps ==
    ASSUME DriverInv, NEW w \in Workers, SoundStep(w)
    PROVE  DriverInv'
<1>0. /\ me[w].pc \in Busy /\ SoundMove(w) /\ faults' \in Nat /\ ext' \in ExtType
      /\ (SomeApproved => SomeApproved') /\ (SomeSuccess => SomeSuccess')
      /\ EngineSound' /\ UNCHANGED others
  BY DEF SoundStep
<1>1. PICK m \in WorkerType : me' = [me EXCEPT ![w] = m] /\ WorkerSound(m)
  BY <1>0 DEF SoundMove
<1>2. /\ UNCHANGED request /\ UNCHANGED row
      /\ UNCHANGED <<overdue, found, wakes, crashes, dbFaults>>
  BY <1>0 DEF others
<1>3. /\ TypeOK /\ RowSound /\ (\A u \in Workers : WorkerSound(me[u]))
      /\ (found => wakes < MaxWakes)
  BY DEF DriverInv
<1>4. TypeOK'
  BY <1>0, <1>1, <1>2, <1>3 DEF TypeOK
<1>5. row.status # "ABSENT"
  <2>1. me[w].pc # "idle"
    BY <1>0 DEF Busy, Driving, Escalating
  <2> QED BY <2>1, HeldExists
<1>6. RowSound'
  <2>1. RunSound(row)'
    BY <1>0, <1>2, <1>3, RunSoundGrows DEF RowSound
  <2>2. Rank(row)' = Rank(row)
    BY <1>2, RequestFrame
  <2> QED BY <1>2, <1>3, <1>5, <2>1, <2>2 DEF RowSound
<1>7. ASSUME NEW n, WorkerSound(n)
      PROVE  WorkerSound(n)'
  <2>1. RunSound(n.run) => RunSound(n.run)'
    BY <1>0, <1>2, RunSoundGrows
  <2>2. Tracks(n) => Tracks(n)'
    BY <1>2, RequestFrame DEF Tracks
  <2>3. Ranked(n) => Ranked(n)'
    BY <1>2, RequestFrame DEF Ranked
  <2>4. PointSound(n) => PointSound(n)'
    BY DEF PointSound
  <2> QED BY <1>7, <2>1, <2>2, <2>3, <2>4 DEF WorkerSound
<1>8. \A u \in Workers : WorkerSound(me[u])'
  <2> TAKE u \in Workers
  <2>1. me'[u] = m \/ me'[u] = me[u]
    BY <1>1, <1>3 DEF TypeOK
  <2> QED BY <1>1, <1>3, <1>7, <2>1
<1> QED BY <1>0, <1>2, <1>3, <1>4, <1>6, <1>8 DEF DriverInv

\* A state of the world with the approvals and engine runs of this one.
Calm(e) == e \in ExtType /\ e.approval = ext.approval /\ e.engine = ext.engine

\* The effects of the provider calls other than an engine trigger are calm.
LEMMA CalmEffects ==
    ASSUME ext \in ExtType
    PROVE  /\ Calm(ext)
           /\ \A t \in {0} \cup TicketIds, x \in {"none", "open", "closed", "unsuccessful"} :
                 Calm([ext EXCEPT !.ticket[t] = x])
           /\ \A t \in TicketIds : Calm([ext EXCEPT !.tagged = @ \cup {t}])
           /\ \A v \in {"given", "real"}, x \in {"absent", "READY", "DELETED"} \cup InFlightStates :
                 Calm([ext EXCEPT !.record[v] = x])
           /\ Calm([ext EXCEPT !.record = [given |-> "absent", real |-> "READY"]])
           /\ Calm(IncidentOpened) /\ Calm(HandedOver)
           /\ Calm([ext EXCEPT !.docs = @ + 1]) /\ Calm([ext EXCEPT !.resolved = @ + 1])
<1>1. /\ ext.ticket \in [TicketIds -> {"none", "open", "closed", "unsuccessful"}]
      /\ ext.record \in [{"given", "real"} -> {"absent", "READY", "DELETED"} \cup InFlightStates]
      /\ ext.tagged \in SUBSET TicketIds
      /\ ext.incidents \in Nat /\ ext.docs \in Nat /\ ext.resolved \in Nat /\ ext.handovers \in Nat
  BY DEF ExtType
<1>2. \A f \in [TicketIds -> {"none", "open", "closed", "unsuccessful"}] :
         Calm([ext EXCEPT !.ticket = f])
  BY DEF Calm, ExtType
<1>3. \A t \in {0} \cup TicketIds, x \in {"none", "open", "closed", "unsuccessful"} :
         Calm([ext EXCEPT !.ticket[t] = x])
  <2>1. ASSUME NEW t \in {0} \cup TicketIds, NEW x \in {"none", "open", "closed", "unsuccessful"}
        PROVE  [ext.ticket EXCEPT ![t] = x]
                 \in [TicketIds -> {"none", "open", "closed", "unsuccessful"}]
    BY <1>1
  <2> QED BY <1>2, <2>1
<1>4. \A S \in SUBSET TicketIds : Calm([ext EXCEPT !.tagged = S])
  BY DEF Calm, ExtType
<1>5. \A t \in TicketIds : Calm([ext EXCEPT !.tagged = @ \cup {t}])
  BY <1>1, <1>4
<1>6. \A f \in [{"given", "real"} -> {"absent", "READY", "DELETED"} \cup InFlightStates] :
         Calm([ext EXCEPT !.record = f])
  BY DEF Calm, ExtType
<1>7. \A v \in {"given", "real"}, x \in {"absent", "READY", "DELETED"} \cup InFlightStates :
         Calm([ext EXCEPT !.record[v] = x])
  BY <1>1, <1>6
<1>8. Calm([ext EXCEPT !.record = [given |-> "absent", real |-> "READY"]])
  <2>1. [given |-> "absent", real |-> "READY"]
          \in [{"given", "real"} -> {"absent", "READY", "DELETED"} \cup InFlightStates]
    OBVIOUS
  <2> QED BY <1>6, <2>1
<1>9. \A n \in Nat : /\ Calm([ext EXCEPT !.incidents = n]) /\ Calm([ext EXCEPT !.handovers = n])
                     /\ Calm([ext EXCEPT !.docs = n]) /\ Calm([ext EXCEPT !.resolved = n])
  BY DEF Calm, ExtType
<1>10. /\ Calm([ext EXCEPT !.incidents = @ + 1]) /\ Calm([ext EXCEPT !.handovers = @ + 1])
       /\ Calm([ext EXCEPT !.docs = @ + 1]) /\ Calm([ext EXCEPT !.resolved = @ + 1])
  <2>1. /\ ext.incidents + 1 \in Nat /\ ext.handovers + 1 \in Nat
        /\ ext.docs + 1 \in Nat /\ ext.resolved + 1 \in Nat
    BY <1>1
  <2> QED BY <1>9, <2>1
<1>11. Calm(ext)
  BY DEF Calm
<1> QED BY <1>3, <1>5, <1>7, <1>8, <1>10, <1>11 DEF IncidentOpened, HandedOver

\* What a calm step leaves alone.
LEMMA CalmWorld ==
    ASSUME DriverInv, UNCHANGED request, Calm(ext')
    PROVE  /\ ext' \in ExtType /\ EngineSound'
           /\ (SomeApproved => SomeApproved') /\ (SomeSuccess => SomeSuccess')
<1>1. ext' \in ExtType /\ ext'.approval = ext.approval /\ ext'.engine = ext.engine
  BY DEF Calm
<1>2. SomeApproved' = SomeApproved /\ SomeSuccess' = SomeSuccess /\ Launched' = Launched
  BY <1>1 DEF SomeApproved, SomeSuccess, Launched
<1>3. EngineSound
  BY DEF DriverInv
<1>4. EngineSound'
  BY <1>1, <1>2, <1>3, RequestFrame DEF EngineSound, ApprovedBeforeEngine
<1> QED BY <1>1, <1>2, <1>4

\* A step that starts no engine run is sound if the worker it leaves is.
LEMMA CalmStep ==
    ASSUME DriverInv, NEW w \in Workers, me[w].pc \in Busy, SoundMove(w), Calm(ext'),
           faults' \in Nat, UNCHANGED others
    PROVE  SoundStep(w)
<1>1. UNCHANGED request
  BY DEF others
<1> QED BY <1>1, CalmWorld DEF SoundStep

\* A call that raises counts.
LEMMA RaisesCounts ==
    ASSUME DriverInv, NEW provider, Raises(provider)
    PROVE  faults' \in Nat
BY DEF DriverInv, TypeOK, Raises

\* A side-effecting call of a step.
LEMMA CallSound ==
    ASSUME DriverInv, NEW w \in Workers, me[w].pc \in Driving \ {"overdue"},
           NEW provider, NEW effect, NEW run, Calm(effect), Ready(w, run),
           Call(w, provider, effect, run), UNCHANGED others,
           HasResource /\ run.step = "CREATE_TICKET" => run.st.ticket # 0,
           run.step \notin {"AWAIT_APPROVAL", "RUN_ENGINE"}
    PROVE  SoundStep(w)
<1>1. Calm(ext) /\ faults \in Nat
  BY CalmEffects DEF DriverInv, TypeOK
<1>2. me[w].pc \in Busy /\ Ready(w, Run(w))
  BY DrivingFacts DEF Driving, Busy
<1>3. CASE ext' = effect /\ Advance(w, run) /\ UNCHANGED faults
  BY <1>1, <1>2, <1>3, AdvanceSound, CalmStep
<1>4. CASE Raises(provider) /\ ext' \in {ext, effect} /\ StepError(w, Run(w), "unclassified")
  <2>1. SoundMove(w)
    BY <1>2, <1>4, StepErrorSound
  <2>2. Calm(ext')
    BY <1>1, <1>4
  <2> QED BY <1>2, <1>4, <2>1, <2>2, RaisesCounts, CalmStep
<1> QED BY <1>3, <1>4 DEF Call

\* A lookup that raises: the step error is retried or ends the run.
LEMMA ReadRaisesSound ==
    ASSUME DriverInv, NEW w \in Workers, me[w].pc \in Driving, NEW provider,
           ReadRaises(w, provider), UNCHANGED others
    PROVE  SoundStep(w)
<1>1. Calm(ext')
  BY CalmEffects DEF DriverInv, TypeOK, ReadRaises
<1>2. me[w].pc \in Busy /\ Ready(w, Run(w))
  BY DrivingFacts DEF Driving, Busy
<1>3. SoundMove(w)
  BY <1>2, StepErrorSound DEF ReadRaises
<1> QED BY <1>1, <1>2, <1>3, RaisesCounts, CalmStep DEF ReadRaises

\* A step whose work is marked as done moves on; what it stands for must be there.
LEMMA SkipSound ==
    ASSUME DriverInv, NEW w \in Workers, me[w].pc \in Driving \ {"overdue"}, Skip(w),
           UNCHANGED others,
           HasResource /\ Run(w).step = "CREATE_TICKET" => Run(w).st.ticket # 0,
           HasResource /\ Run(w).step = "AWAIT_APPROVAL" => SomeApproved,
           Run(w).step = "RUN_ENGINE" => SomeSuccess
    PROVE  SoundStep(w)
<1>1. Calm(ext') /\ faults' \in Nat
  BY CalmEffects DEF DriverInv, TypeOK, Skip
<1>2. me[w].pc \in Busy /\ Ready(w, Run(w))
  BY DrivingFacts DEF Driving, Busy
<1>3. SoundMove(w)
  BY <1>2, AdvanceSound DEF Skip
<1> QED BY <1>1, <1>2, <1>3, CalmStep

-----------------------------------------------------------------------------
(* The steps of the plan. *)

\* A driving worker's copy with a marker set is ready too.
LEMMA MarkedReady ==
    ASSUME DriverInv, NEW w \in Workers, me[w].pc \in Driving
    PROVE  /\ Run(w).st.ticket = 0 =>
                 \A t \in TicketIds : /\ Ready(w, [Run(w) EXCEPT !.st.ticket = t])
                                      /\ [Run(w) EXCEPT !.st.ticket = t].st.ticket = t
           /\ Ready(w, [Run(w) EXCEPT !.st.configured = TRUE])
           /\ Ready(w, [Run(w) EXCEPT !.st.finalized = TRUE])
           /\ \A v \in {"given", "real"} :
                 Ready(w, [Run(w) EXCEPT !.st.finalized = TRUE, !.st.vendor = v])
           /\ Ready(w, [Run(w) EXCEPT !.st.closed = TRUE])
           /\ Ready(w, [Run(w) EXCEPT !.st.submitted = TRUE])
           /\ \A b \in BOOLEAN : Ready(w, [Run(w) EXCEPT !.st.output = b])
           /\ \A k \in EngineIds : Ready(w, [Run(w) EXCEPT !.st.engine = k])
           /\ \A f \in EngineFailures : Ready(w, [Run(w) EXCEPT !.st.failure = f])
<1>1. Ready(w, Run(w)) /\ Run(w).step \in PlanSteps
  BY DrivingFacts
<1>2. /\ Run(w) \in RunType /\ Run(w).status = "RUNNING" /\ RunSound(Run(w))
      /\ Position(Run(w).step) \in Nat
  BY <1>1, PlanShape DEF Ready
<1>3. ASSUME NEW run \in RunType, run.status = Run(w).status, run.version = Run(w).version,
             run.step = Run(w).step, run.date = Run(w).date, run.st.attempts = Run(w).st.attempts,
             run.st.clock = Run(w).st.clock,
             Run(w).st.ticket # 0 => run.st.ticket = Run(w).st.ticket,
             Run(w).st.configured => run.st.configured,
             Run(w).st.finalized => run.st.finalized,
             Run(w).st.submitted => run.st.submitted
      PROVE  Ready(w, run)
  <2>1. Keeps(Run(w), run)
    BY <1>2, <1>3 DEF Keeps
  <2>2. RunSound(run)
    BY <1>2, <1>3 DEF RunSound
  <2> QED BY <1>2, <1>3, <2>1, <2>2 DEF Ready
<1>4. ASSUME NEW t \in TicketIds, Run(w).st.ticket = 0
      PROVE  /\ Ready(w, [Run(w) EXCEPT !.st.ticket = t])
             /\ [Run(w) EXCEPT !.st.ticket = t].st.ticket = t
  <2> DEFINE run == [Run(w) EXCEPT !.st.ticket = t]
  <2>1. run \in RunType
    BY <1>2, RunStateUpdates
  <2>2. /\ run.status = Run(w).status /\ run.version = Run(w).version /\ run.step = Run(w).step
        /\ run.date = Run(w).date /\ run.st.attempts = Run(w).st.attempts /\ run.st.clock = Run(w).st.clock
        /\ run.st.configured = Run(w).st.configured /\ run.st.finalized = Run(w).st.finalized
        /\ run.st.submitted = Run(w).st.submitted /\ run.st.ticket = t
    BY <1>2 DEF RunType, StateType
  <2> HIDE DEF run
  <2>3. Ready(w, run)
    BY <1>3, <1>4, <2>1, <2>2
  <2> QED BY <2>2, <2>3 DEF run
<1>5. Ready(w, [Run(w) EXCEPT !.st.configured = TRUE])
  <2> DEFINE run == [Run(w) EXCEPT !.st.configured = TRUE]
  <2>1. run \in RunType
    BY <1>2, RunStateUpdates
  <2>2. /\ run.status = Run(w).status /\ run.version = Run(w).version /\ run.step = Run(w).step
        /\ run.date = Run(w).date /\ run.st.attempts = Run(w).st.attempts /\ run.st.clock = Run(w).st.clock
        /\ run.st.configured /\ run.st.finalized = Run(w).st.finalized
        /\ run.st.submitted = Run(w).st.submitted /\ run.st.ticket = Run(w).st.ticket
    BY <1>2 DEF RunType, StateType
  <2> HIDE DEF run
  <2>3. Ready(w, run)
    BY <1>3, <2>1, <2>2
  <2> QED BY <2>3 DEF run
<1>6. Ready(w, [Run(w) EXCEPT !.st.finalized = TRUE])
  <2> DEFINE run == [Run(w) EXCEPT !.st.finalized = TRUE]
  <2>1. run \in RunType
    BY <1>2, RunStateUpdates
  <2>2. /\ run.status = Run(w).status /\ run.version = Run(w).version /\ run.step = Run(w).step
        /\ run.date = Run(w).date /\ run.st.attempts = Run(w).st.attempts /\ run.st.clock = Run(w).st.clock
        /\ run.st.configured = Run(w).st.configured /\ run.st.finalized
        /\ run.st.submitted = Run(w).st.submitted /\ run.st.ticket = Run(w).st.ticket
    BY <1>2 DEF RunType, StateType
  <2> HIDE DEF run
  <2>3. Ready(w, run)
    BY <1>3, <2>1, <2>2
  <2> QED BY <2>3 DEF run
<1>7. ASSUME NEW v \in {"given", "real"}
      PROVE  Ready(w, [Run(w) EXCEPT !.st.finalized = TRUE, !.st.vendor = v])
  <2> DEFINE run == [Run(w) EXCEPT !.st.finalized = TRUE, !.st.vendor = v]
  <2>1. run \in RunType
    <3>1. [Run(w) EXCEPT !.st.finalized = TRUE] \in RunType
      BY <1>2, RunStateUpdates
    <3> QED BY <3>1, RunStateUpdates
  <2>2. /\ run.status = Run(w).status /\ run.version = Run(w).version /\ run.step = Run(w).step
        /\ run.date = Run(w).date /\ run.st.attempts = Run(w).st.attempts /\ run.st.clock = Run(w).st.clock
        /\ run.st.configured = Run(w).st.configured /\ run.st.finalized
        /\ run.st.submitted = Run(w).st.submitted /\ run.st.ticket = Run(w).st.ticket
    BY <1>2 DEF RunType, StateType
  <2> HIDE DEF run
  <2>3. Ready(w, run)
    BY <1>3, <2>1, <2>2
  <2> QED BY <2>3 DEF run
<1>8. Ready(w, [Run(w) EXCEPT !.st.closed = TRUE])
  <2> DEFINE run == [Run(w) EXCEPT !.st.closed = TRUE]
  <2>1. run \in RunType
    BY <1>2, RunStateUpdates
  <2>2. /\ run.status = Run(w).status /\ run.version = Run(w).version /\ run.step = Run(w).step
        /\ run.date = Run(w).date /\ run.st.attempts = Run(w).st.attempts /\ run.st.clock = Run(w).st.clock
        /\ run.st.configured = Run(w).st.configured /\ run.st.finalized = Run(w).st.finalized
        /\ run.st.submitted = Run(w).st.submitted /\ run.st.ticket = Run(w).st.ticket
    BY <1>2 DEF RunType, StateType
  <2> HIDE DEF run
  <2>3. Ready(w, run)
    BY <1>3, <2>1, <2>2
  <2> QED BY <2>3 DEF run
<1>9. Ready(w, [Run(w) EXCEPT !.st.submitted = TRUE])
  <2> DEFINE run == [Run(w) EXCEPT !.st.submitted = TRUE]
  <2>1. run \in RunType
    BY <1>2, RunStateUpdates
  <2>2. /\ run.status = Run(w).status /\ run.version = Run(w).version /\ run.step = Run(w).step
        /\ run.date = Run(w).date /\ run.st.attempts = Run(w).st.attempts /\ run.st.clock = Run(w).st.clock
        /\ run.st.configured = Run(w).st.configured /\ run.st.finalized = Run(w).st.finalized
        /\ run.st.submitted /\ run.st.ticket = Run(w).st.ticket
    BY <1>2 DEF RunType, StateType
  <2> HIDE DEF run
  <2>3. Ready(w, run)
    BY <1>3, <2>1, <2>2
  <2> QED BY <2>3 DEF run
<1>10. ASSUME NEW b \in BOOLEAN
       PROVE  Ready(w, [Run(w) EXCEPT !.st.output = b])
  <2> DEFINE run == [Run(w) EXCEPT !.st.output = b]
  <2>1. run \in RunType
    BY <1>2, RunStateUpdates
  <2>2. /\ run.status = Run(w).status /\ run.version = Run(w).version /\ run.step = Run(w).step
        /\ run.date = Run(w).date /\ run.st.attempts = Run(w).st.attempts /\ run.st.clock = Run(w).st.clock
        /\ run.st.configured = Run(w).st.configured /\ run.st.finalized = Run(w).st.finalized
        /\ run.st.submitted = Run(w).st.submitted /\ run.st.ticket = Run(w).st.ticket
    BY <1>2 DEF RunType, StateType
  <2> HIDE DEF run
  <2>3. Ready(w, run)
    BY <1>3, <2>1, <2>2
  <2> QED BY <2>3 DEF run
<1>11. ASSUME NEW k \in EngineIds
       PROVE  Ready(w, [Run(w) EXCEPT !.st.engine = k])
  <2> DEFINE run == [Run(w) EXCEPT !.st.engine = k]
  <2>1. run \in RunType
    BY <1>2, RunStateUpdates
  <2>2. /\ run.status = Run(w).status /\ run.version = Run(w).version /\ run.step = Run(w).step
        /\ run.date = Run(w).date /\ run.st.attempts = Run(w).st.attempts /\ run.st.clock = Run(w).st.clock
        /\ run.st.configured = Run(w).st.configured /\ run.st.finalized = Run(w).st.finalized
        /\ run.st.submitted = Run(w).st.submitted /\ run.st.ticket = Run(w).st.ticket
    BY <1>2 DEF RunType, StateType
  <2> HIDE DEF run
  <2>3. Ready(w, run)
    BY <1>3, <2>1, <2>2
  <2> QED BY <2>3 DEF run
<1>12. ASSUME NEW f \in EngineFailures
       PROVE  Ready(w, [Run(w) EXCEPT !.st.failure = f])
  <2> DEFINE run == [Run(w) EXCEPT !.st.failure = f]
  <2>1. run \in RunType
    BY <1>2, RunStateUpdates
  <2>2. /\ run.status = Run(w).status /\ run.version = Run(w).version /\ run.step = Run(w).step
        /\ run.date = Run(w).date /\ run.st.attempts = Run(w).st.attempts /\ run.st.clock = Run(w).st.clock
        /\ run.st.configured = Run(w).st.configured /\ run.st.finalized = Run(w).st.finalized
        /\ run.st.submitted = Run(w).st.submitted /\ run.st.ticket = Run(w).st.ticket
    BY <1>2 DEF RunType, StateType
  <2> HIDE DEF run
  <2>3. Ready(w, run)
    BY <1>3, <2>1, <2>2
  <2> QED BY <2>3 DEF run
<1> QED BY <1>4, <1>5, <1>6, <1>7, <1>8, <1>9, <1>10, <1>11, <1>12

\* _drive finds the attempt's deadline passed.
LEMMA DeadlineExceededSound ==
    ASSUME DriverInv, NEW w \in Workers, DeadlineExceeded(w)
    PROVE  SoundStep(w)
<1>1. me[w].pc \in Driving /\ me[w].pc \in Busy /\ UNCHANGED others
  BY DEF DeadlineExceeded, Driving, Busy
<1>2. Calm(ext') /\ faults' \in Nat
  BY CalmEffects DEF DriverInv, TypeOK, DeadlineExceeded
<1>3. SoundMove(w)
  BY <1>1, DrivingFacts, StepErrorSound DEF DeadlineExceeded
<1> QED BY <1>1, <1>2, <1>3, CalmStep

\* open_ticket, the lookup by key.
LEMMA CreateTicketSound ==
    ASSUME DriverInv, NEW w \in Workers, CreateTicket(w)
    PROVE  SoundStep(w)
<1>1. /\ me[w].pc \in Driving \ {"overdue"} /\ me[w].pc \in Busy /\ UNCHANGED others
      /\ Run(w).step = "CREATE_TICKET"
  BY DEF CreateTicket, At, Driving, Busy
<1>2. Calm(ext) /\ faults \in Nat /\ ext.tagged \subseteq TicketIds
      /\ me \in [Workers -> WorkerType] /\ me[w] \in WorkerType
  BY CalmEffects DEF DriverInv, TypeOK, ExtType
<1>3. CASE Run(w).st.ticket # 0 /\ Skip(w)
  BY <1>1, <1>3, SkipSound
<1>4. CASE /\ Run(w).st.ticket = 0
           /\ \E t \in AlreadyOrdered : Advance(w, [Run(w) EXCEPT !.st.ticket = t])
           /\ UNCHANGED <<ext, faults>>
  <2>1. PICK t \in AlreadyOrdered : Advance(w, [Run(w) EXCEPT !.st.ticket = t])
    BY <1>4
  <2>2. t \in TicketIds /\ t # 0
    BY <1>2 DEF AlreadyOrdered, TicketIds
  <2> DEFINE run == [Run(w) EXCEPT !.st.ticket = t]
  <2>3. Ready(w, run) /\ run.st.ticket = t
    BY <1>1, <1>4, <2>2, MarkedReady
  <2>4. run.step = "CREATE_TICKET"
    BY <1>1, <2>3 DEF Ready
  <2> HIDE DEF run
  <2>5. Advance(w, run)
    BY <2>1 DEF run
  <2>6. SoundMove(w)
    BY <1>1, <2>2, <2>3, <2>4, <2>5, AdvanceSound
  <2> QED BY <1>1, <1>2, <1>4, <2>6, CalmStep
<1>5. CASE /\ Run(w).st.ticket = 0
           /\ Goto(w, "order", Run(w))
           /\ UNCHANGED <<ext, faults>>
  <2>1. me' = [me EXCEPT ![w] = [pc |-> "order", err |-> me[w].err, order |-> me[w].order,
                                 quiet |-> me[w].quiet, run |-> Run(w)]]
    BY <1>2, <1>5, GotoIs
  <2>2. me[w].order \in {0} \cup TicketIds
    BY <1>2 DEF WorkerType
  <2>3. SoundMove(w)
    BY <1>1, <1>5, <2>1, <2>2, WithinStepSound
  <2> QED BY <1>1, <1>2, <1>5, <2>3, CalmStep
<1>6. CASE ReadRaises(w, "ticket")
  BY <1>1, <1>6, ReadRaisesSound
<1> QED BY <1>3, <1>4, <1>5, <1>6 DEF CreateTicket

\* open_ticket, the order.
LEMMA OrderTicketSound ==
    ASSUME DriverInv, NEW w \in Workers, OrderTicket(w)
    PROVE  SoundStep(w)
<1>1. /\ me[w].pc \in Driving \ {"overdue"} /\ me[w].pc \in Busy /\ UNCHANGED others
      /\ me[w].pc = "order"
  BY DEF OrderTicket, Driving, Busy
<1>2. Calm(ext) /\ faults \in Nat /\ me \in [Workers -> WorkerType] /\ me[w] \in WorkerType
      /\ ext \in ExtType
  BY CalmEffects DEF DriverInv, TypeOK
<1>3. Run(w).step = "CREATE_TICKET" /\ Run(w).st.ticket = 0
  BY <1>1 DEF DriverInv, WorkerSound, PointSound, Run
<1>4. PICK t \in TicketIds :
         LET ordered == [ext EXCEPT !.ticket[t] = "open"]
         IN  \/ /\ ext' = ordered
                /\ me' = [me EXCEPT ![w].pc = "tag", ![w].order = t]
                /\ UNCHANGED faults
             \/ /\ Raises("ticket")
                /\ ext' \in {ext, ordered}
                /\ StepError(w, Run(w), "unclassified")
  BY DEF OrderTicket
<1> DEFINE ordered == [ext EXCEPT !.ticket[t] = "open"]
<1>5. Calm(ordered) /\ t # 0
  <2>1. Calm(ordered)
    BY <1>2, CalmEffects
  <2>2. t # 0
    BY DEF TicketIds
  <2> QED BY <2>1, <2>2
<1>6. CASE /\ ext' = ordered
           /\ me' = [me EXCEPT ![w].pc = "tag", ![w].order = t]
           /\ UNCHANGED faults
  <2>1. me' = [me EXCEPT ![w] = [[me[w] EXCEPT !.pc = "tag"] EXCEPT !.order = t]]
    BY <1>6
  <2>2. [me[w] EXCEPT !.pc = "tag"] = [pc |-> "tag", err |-> me[w].err, order |-> me[w].order,
                                       quiet |-> me[w].quiet, run |-> me[w].run]
    BY <1>2 DEF WorkerType
  <2>3. [[pc |-> "tag", err |-> me[w].err, order |-> me[w].order, quiet |-> me[w].quiet,
          run |-> me[w].run] EXCEPT !.order = t]
          = [pc |-> "tag", err |-> me[w].err, order |-> t, quiet |-> me[w].quiet, run |-> Run(w)]
    BY DEF Run
  <2>4. me' = [me EXCEPT ![w] = [pc |-> "tag", err |-> me[w].err, order |-> t,
                                 quiet |-> me[w].quiet, run |-> Run(w)]]
    BY <2>1, <2>2, <2>3
  <2>5. SoundMove(w)
    BY <1>1, <1>3, <1>5, <2>4, WithinStepSound
  <2> QED BY <1>1, <1>2, <1>5, <1>6, <2>5, CalmStep
<1>7. CASE /\ Raises("ticket")
           /\ ext' \in {ext, ordered}
           /\ StepError(w, Run(w), "unclassified")
  <2>1. SoundMove(w)
    BY <1>1, <1>7, DrivingFacts, StepErrorSound
  <2>2. Calm(ext')
    BY <1>2, <1>5, <1>7
  <2> QED BY <1>1, <1>7, <2>1, <2>2, RaisesCounts, CalmStep
<1> QED BY <1>4, <1>6, <1>7

\* open_ticket, the tag: the ticket enters the working state.
LEMMA TagTicketSound ==
    ASSUME DriverInv, NEW w \in Workers, TagTicket(w)
    PROVE  SoundStep(w)
<1> DEFINE t   == me[w].order
           run == [Run(w) EXCEPT !.st.ticket = t]
<1>1. /\ me[w].pc \in Driving \ {"overdue"} /\ me[w].pc \in Busy /\ UNCHANGED others
      /\ me[w].pc = "tag"
  BY DEF TagTicket, Driving, Busy
<1>2. Calm(ext) /\ faults \in Nat /\ me[w] \in WorkerType /\ ext \in ExtType
  BY CalmEffects DEF DriverInv, TypeOK
<1>3. Run(w).step = "CREATE_TICKET" /\ Run(w).st.ticket = 0 /\ t # 0
  BY <1>1 DEF DriverInv, WorkerSound, PointSound, Run
<1>4. t \in TicketIds
  BY <1>2, <1>3 DEF WorkerType
<1>5. Ready(w, run) /\ run.st.ticket = t
  BY <1>1, <1>3, <1>4, MarkedReady
<1>6. run.step = "CREATE_TICKET"
  BY <1>3, <1>5 DEF Ready
<1>7. Calm([ext EXCEPT !.tagged = @ \cup {t}])
  BY <1>2, <1>4, CalmEffects
<1>8. CASE Call(w, "ticket", [ext EXCEPT !.tagged = @ \cup {t}], run)
  <2> HIDE DEF t, run
  <2> QED BY <1>1, <1>3, <1>5, <1>6, <1>7, <1>8, CallSound
<1>9. CASE Raises("ticket") /\ Advance(w, run) /\ UNCHANGED ext
  <2> HIDE DEF t, run
  <2>1. SoundMove(w)
    BY <1>1, <1>3, <1>5, <1>6, <1>9, AdvanceSound
  <2> QED BY <1>1, <1>2, <1>9, <2>1, RaisesCounts, CalmStep
<1> QED BY <1>8, <1>9 DEF TagTicket

\* The effects on a record are calm.
LEMMA CalmRecords ==
    ASSUME ext \in ExtType, NEW run \in RunType
    PROVE  /\ \A x \in {"absent", "READY", "DELETED"} \cup InFlightStates : Calm(SetRecord(run, x))
           /\ Calm(RecordDeleted(run)) /\ Calm(Created) /\ Calm(Finalized(run))
           /\ Calm(Released(run)) /\ Calm(SetRecord(run, OperationState))
<1>1. run.st.vendor \in {"given", "real"}
  BY DEF RunType, StateType
<1>2. \A x \in {"absent", "READY", "DELETED"} \cup InFlightStates : Calm(SetRecord(run, x))
  BY <1>1, CalmEffects DEF SetRecord
<1>3. Calm(Created)
  <2>1. Calm([ext EXCEPT !.record["given"] = "PROVISIONING"])
    BY CalmEffects DEF InFlightStates
  <2> QED BY <2>1, CalmEffects DEF Created
<1>4. Calm(Finalized(run))
  BY <1>2, CalmEffects DEF Finalized
<1>5. OperationState \in InFlightStates
  BY DEF OperationState, InFlightStates
<1>6. Calm(Released(run))
  BY <1>2, CalmEffects DEF Released, RecordDeleted
<1> QED BY <1>2, <1>3, <1>4, <1>5, <1>6 DEF RecordDeleted

\* A 404 of the resource manager.
LEMMA NotFoundSound ==
    ASSUME DriverInv, NEW w \in Workers, me[w].pc \in Driving, NotFound(w), UNCHANGED others
    PROVE  SoundStep(w)
<1>1. me[w].pc \in Busy
  BY DEF Busy
<1>2. Calm(ext') /\ faults' \in Nat
  BY CalmEffects DEF DriverInv, TypeOK, NotFound
<1>3. SoundMove(w)
  BY DrivingFacts, StepErrorSound DEF NotFound
<1> QED BY <1>1, <1>2, <1>3, CalmStep

\* ConfigureResourceStep.
LEMMA ConfigureResourceSound ==
    ASSUME DriverInv, NEW w \in Workers, ConfigureResource(w)
    PROVE  SoundStep(w)
<1> DEFINE configured == [Run(w) EXCEPT !.st.configured = TRUE]
<1>1. /\ me[w].pc \in Driving \ {"overdue"} /\ me[w].pc \in Busy /\ UNCHANGED others
      /\ Run(w).step = "CONFIGURE_RESOURCE"
  BY DEF ConfigureResource, At, Driving, Busy
<1>2. ext \in ExtType /\ Run(w) \in RunType
  BY DEF DriverInv, TypeOK, WorkerType, Run
<1>3. Ready(w, configured)
  BY <1>1, MarkedReady
<1>4. configured.step = "CONFIGURE_RESOURCE"
  BY <1>1, <1>3 DEF Ready
<1>5. Calm(Created) /\ Calm(SetRecord(Run(w), OperationState))
  BY <1>2, CalmRecords
<1> HIDE DEF configured
<1>6. CASE Skip(w)
  BY <1>1, <1>6, SkipSound
<1>7. CASE Call(w, "resource", Created, configured)
  BY <1>1, <1>3, <1>4, <1>5, <1>7, CallSound
<1>8. CASE NotFound(w)
  BY <1>1, <1>8, NotFoundSound
<1>9. CASE Call(w, "resource", SetRecord(Run(w), OperationState), configured)
  BY <1>1, <1>3, <1>4, <1>5, <1>9, CallSound
<1> QED BY <1>6, <1>7, <1>8, <1>9 DEF ConfigureResource, configured

\* AwaitApprovalStep: the run moves on only with an approval, or ends REJECTED.
LEMMA AwaitApprovalSound ==
    ASSUME DriverInv, NEW w \in Workers, AwaitApproval(w)
    PROVE  SoundStep(w)
<1>1. /\ me[w].pc \in Driving \ {"overdue"} /\ me[w].pc \in Busy /\ UNCHANGED others
      /\ Run(w).step = "AWAIT_APPROVAL"
  BY DEF AwaitApproval, At, Driving, Busy
<1>2. Calm(ext) /\ faults \in Nat /\ me[w] \in WorkerType /\ Run(w) \in RunType
  BY CalmEffects DEF DriverInv, TypeOK, WorkerType, Run
<1>3. Ready(w, Run(w)) /\ RunSound(Run(w))
  BY <1>1, DrivingFacts DEF Ready
<1>4. CASE Approved(Run(w).st.ticket) /\ Skip(w)
  <2>1. HasResource => SomeApproved
    <3>1. HasResource => Run(w).st.ticket \in TicketIds
      <4>1. HasResource => Run(w).st.ticket # 0
        BY <1>1, <1>3 DEF RunSound
      <4> QED BY <1>2, <4>1 DEF RunType, StateType
    <3> QED BY <1>4, <3>1 DEF Approved, SomeApproved
  <2> QED BY <1>1, <1>4, <2>1, SkipSound
<1>5. CASE RejectRun(w) /\ UNCHANGED <<ext, faults>>
  BY <1>1, <1>2, <1>5, RejectSound, CalmStep
<1>6. CASE Poll(w, Run(w)) /\ UNCHANGED <<ext, faults>>
  BY <1>1, <1>2, <1>3, <1>6, PollSound, CalmStep
<1>7. CASE ReadRaises(w, "ticket")
  BY <1>1, <1>7, ReadRaisesSound
<1> QED BY <1>4, <1>5, <1>6, <1>7 DEF AwaitApproval

\* ValidateResourceStep.
LEMMA ValidateResourceSound ==
    ASSUME DriverInv, NEW w \in Workers, ValidateResource(w)
    PROVE  SoundStep(w)
<1>1. /\ me[w].pc \in Driving \ {"overdue"} /\ me[w].pc \in Busy /\ UNCHANGED others
      /\ Run(w).step = "VALIDATE_RESOURCE"
  BY DEF ValidateResource, At, Driving, Busy
<1>2. Calm(ext) /\ faults \in Nat
  BY CalmEffects DEF DriverInv, TypeOK
<1>3. Ready(w, Run(w))
  BY <1>1, DrivingFacts
<1>4. CASE Skip(w)
  BY <1>1, <1>4, SkipSound
<1>5. CASE StepError(w, Run(w), "INFRA_PRECHECK") /\ UNCHANGED <<ext, faults>>
  <2>1. SoundMove(w)
    BY <1>1, <1>3, <1>5, StepErrorSound
  <2> QED BY <1>1, <1>2, <1>5, <2>1, CalmStep
<1>6. CASE ReadRaises(w, "resource")
  BY <1>1, <1>6, ReadRaisesSound
<1> QED BY <1>4, <1>5, <1>6 DEF ValidateResource

\* FinalizeResourceStep for creates and updates.
LEMMA FinalizeResourceSound ==
    ASSUME DriverInv, NEW w \in Workers, FinalizeResource(w)
    PROVE  SoundStep(w)
<1> DEFINE v   == IF Run(w).st.output THEN "real" ELSE Run(w).st.vendor
           run == [Run(w) EXCEPT !.st.finalized = TRUE, !.st.vendor = v]
<1>1. /\ me[w].pc \in Driving \ {"overdue"} /\ me[w].pc \in Busy /\ UNCHANGED others
      /\ Run(w).step = "FINALIZE_RESOURCE"
  BY DEF FinalizeResource, At, Driving, Busy
<1>2. ext \in ExtType /\ Run(w) \in RunType
  BY DEF DriverInv, TypeOK, WorkerType, Run
<1>3. v \in {"given", "real"}
  BY <1>2 DEF RunType, StateType
<1>4. [Run(w) EXCEPT !.st.finalized = TRUE,
                     !.st.vendor = IF Run(w).st.output THEN "real" ELSE @] = run
  BY <1>2 DEF RunType, StateType
<1> HIDE DEF v
<1>5. Ready(w, run)
  BY <1>1, <1>3, MarkedReady
<1> HIDE DEF run
<1>6. run.step = "FINALIZE_RESOURCE"
  BY <1>1, <1>5 DEF Ready
<1>7. Calm(Finalized(Run(w)))
  BY <1>2, CalmRecords
<1>8. CASE Skip(w)
  BY <1>1, <1>8, SkipSound
<1>9. CASE NotFound(w)
  BY <1>1, <1>9, NotFoundSound
<1>10. CASE Call(w, "resource", Finalized(Run(w)), run)
  BY <1>1, <1>5, <1>6, <1>7, <1>10, CallSound
<1> QED BY <1>4, <1>8, <1>9, <1>10 DEF FinalizeResource

\* FinalizeResourceStep for a delete, the mark,
LEMMA MarkDeletedSound ==
    ASSUME DriverInv, NEW w \in Workers, MarkDeleted(w)
    PROVE  SoundStep(w)
<1> DEFINE marked == IF RecordOf(Run(w)) = "absent" THEN ext ELSE SetRecord(Run(w), "DELETED")
<1>1. /\ me[w].pc \in Driving \ {"overdue"} /\ me[w].pc \in Busy /\ UNCHANGED others
      /\ Run(w).step = "FINALIZE_RESOURCE"
  BY DEF MarkDeleted, At, Driving, Busy
<1>2. /\ ext \in ExtType /\ Run(w) \in RunType /\ Calm(ext) /\ faults \in Nat
      /\ me \in [Workers -> WorkerType] /\ me[w] \in WorkerType
  BY CalmEffects DEF DriverInv, TypeOK, WorkerType, Run
<1>3. Calm(marked)
  BY <1>2, CalmRecords
<1> HIDE DEF marked
<1>4. CASE ext' = marked /\ Goto(w, "delete", Run(w)) /\ UNCHANGED faults
  <2>1. me' = [me EXCEPT ![w] = [pc |-> "delete", err |-> me[w].err, order |-> me[w].order,
                                 quiet |-> me[w].quiet, run |-> Run(w)]]
    BY <1>2, <1>4, GotoIs
  <2>2. me[w].order \in {0} \cup TicketIds
    BY <1>2 DEF WorkerType
  <2>3. SoundMove(w)
    BY <1>1, <2>1, <2>2, WithinStepSound
  <2> QED BY <1>1, <1>2, <1>3, <1>4, <2>3, CalmStep
<1>5. CASE Raises("resource") /\ ext' \in {ext, marked} /\ StepError(w, Run(w), "unclassified")
  <2>1. SoundMove(w)
    BY <1>1, <1>5, DrivingFacts, StepErrorSound
  <2>2. Calm(ext')
    BY <1>2, <1>3, <1>5
  <2> QED BY <1>1, <1>5, <2>1, <2>2, RaisesCounts, CalmStep
<1> QED BY <1>4, <1>5 DEF MarkDeleted, marked

\* and the deletion.
LEMMA DeleteRecordSound ==
    ASSUME DriverInv, NEW w \in Workers, DeleteRecord(w)
    PROVE  SoundStep(w)
<1> DEFINE run == [Run(w) EXCEPT !.st.finalized = TRUE]
<1>1. /\ me[w].pc \in Driving \ {"overdue"} /\ UNCHANGED others /\ me[w].pc = "delete"
  BY DEF DeleteRecord, Driving
<1>2. ext \in ExtType /\ Run(w) \in RunType
  BY DEF DriverInv, TypeOK, WorkerType, Run
<1>3. Run(w).step = "FINALIZE_RESOURCE"
  BY <1>1 DEF DriverInv, WorkerSound, PointSound, Run
<1>4. Ready(w, run)
  BY <1>1, MarkedReady
<1> HIDE DEF run
<1>5. run.step = "FINALIZE_RESOURCE"
  BY <1>3, <1>4 DEF Ready
<1>6. Calm(RecordDeleted(Run(w)))
  BY <1>2, CalmRecords
<1>7. Call(w, "resource", RecordDeleted(Run(w)), run)
  BY DEF DeleteRecord, run
<1> QED BY <1>1, <1>4, <1>5, <1>6, <1>7, CallSound

\* CloseTicketStep.
LEMMA CloseTicketSound ==
    ASSUME DriverInv, NEW w \in Workers, CloseTicket(w)
    PROVE  SoundStep(w)
<1> DEFINE run == [Run(w) EXCEPT !.st.closed = TRUE]
<1>1. /\ me[w].pc \in Driving \ {"overdue"} /\ UNCHANGED others
      /\ Run(w).step = "CLOSE_TICKET"
  BY DEF CloseTicket, At, Driving, Busy
<1>2. ext \in ExtType /\ Run(w) \in RunType
  BY DEF DriverInv, TypeOK, WorkerType, Run
<1>3. Ready(w, run)
  BY <1>1, MarkedReady
<1> HIDE DEF run
<1>4. run.step = "CLOSE_TICKET"
  BY <1>1, <1>3 DEF Ready
<1>5. Calm(TicketClosed(Run(w).st.ticket, "closed"))
  <2>1. Run(w).st.ticket \in {0} \cup TicketIds
    BY <1>2 DEF RunType, StateType
  <2> QED BY <1>2, <2>1, CalmEffects DEF TicketClosed
<1>6. CASE Skip(w)
  BY <1>1, <1>6, SkipSound
<1>7. CASE Call(w, "ticket", TicketClosed(Run(w).st.ticket, "closed"), run)
  BY <1>1, <1>3, <1>4, <1>5, <1>7, CallSound
<1> QED BY <1>6, <1>7 DEF CloseTicket, run

\* SubmitLegacyStep.
LEMMA SubmitLegacySound ==
    ASSUME DriverInv, NEW w \in Workers, SubmitLegacy(w)
    PROVE  SoundStep(w)
<1> DEFINE run == [Run(w) EXCEPT !.st.submitted = TRUE]
<1>1. /\ me[w].pc \in Driving \ {"overdue"} /\ UNCHANGED others
      /\ Run(w).step = "SUBMIT_LEGACY"
  BY DEF SubmitLegacy, At, Driving, Busy
<1>2. Ready(w, run)
  BY <1>1, MarkedReady
<1> HIDE DEF run
<1>3. run.step = "SUBMIT_LEGACY"
  BY <1>1, <1>2 DEF Ready
<1>4. Calm(HandedOver)
  BY CalmEffects DEF DriverInv, TypeOK
<1>5. CASE Skip(w)
  BY <1>1, <1>5, SkipSound
<1>6. CASE Call(w, "legacy", HandedOver, run)
  BY <1>1, <1>2, <1>3, <1>4, <1>6, CallSound
<1> QED BY <1>5, <1>6 DEF SubmitLegacy, run

\* The engine run a trigger starts or attaches to is that of the attempt, and a
\* resource request has been approved by then.
LEMMA TriggeredWorld ==
    ASSUME DriverInv, UNCHANGED request, NEW k \in 1 .. (MaxRetries + 1), ext' = Triggered(k),
           HasResource => SomeApproved, request # "none"
    PROVE  /\ ext' \in ExtType /\ EngineSound'
           /\ (SomeApproved => SomeApproved') /\ (SomeSuccess => SomeSuccess')
<1>1. ext \in ExtType /\ EngineSound
  BY DEF DriverInv, TypeOK
<1>2. CASE ext.engine[k] # "none"
  <2> DEFINE f == [ext.engine EXCEPT ![k] = ext.engine[k]]
  <2>1. ext' = [ext EXCEPT !.engine = f]
    BY <1>2 DEF Triggered
  <2>2. f = ext.engine
    BY <1>1 DEF ExtType
  <2>3. Calm([ext EXCEPT !.engine = ext.engine])
    BY <1>1 DEF Calm, ExtType
  <2> QED BY <2>1, <2>2, <2>3, CalmWorld
<1>3. CASE ext.engine[k] = "none" /\ ext' = [ext EXCEPT !.engine[k] = "running"]
  <2>1. k \in EngineIds /\ ext.engine \in [EngineIds -> {"none", "running"} \cup EngineSuccesses \cup EngineFailures]
    BY <1>1, DriverAssumption DEF EngineIds, ExtType
  <2>2. /\ ext' \in ExtType /\ ext'.approval = ext.approval
        /\ ext'.engine = [ext.engine EXCEPT ![k] = "running"]
    BY <1>1, <1>3, <2>1 DEF ExtType
  <2>3. SomeApproved' = SomeApproved
    BY <2>2 DEF SomeApproved
  <2>4. SomeSuccess => SomeSuccess'
    BY <1>3, <2>1, <2>2 DEF SomeSuccess, EngineSuccesses
  <2>5. \A j \in Launched' : j \in Launched \/ j = k
    BY <2>1, <2>2 DEF Launched
  <2>6. \A j \in Launched' : j <= MaxRetries + 1
    BY <1>1, <2>5 DEF EngineSound
  <2>7. ApprovedBeforeEngine'
    BY <2>3, RequestFrame DEF ApprovedBeforeEngine, SomeApproved
  <2> QED BY <2>2, <2>3, <2>4, <2>6, <2>7 DEF EngineSound
<1> QED BY <1>2, <1>3 DEF Triggered

\* RunEngineStep, the launch: its key is the attempt, within the retry budget.
LEMMA TriggerEngineSound ==
    ASSUME DriverInv, NEW w \in Workers, TriggerEngine(w)
    PROVE  SoundStep(w)
<1> DEFINE key == EngineRunKey(Run(w))
<1>1. /\ me[w].pc \in Driving \ {"overdue"} /\ me[w].pc \in Busy /\ UNCHANGED others
      /\ UNCHANGED request /\ Run(w).step = "RUN_ENGINE"
  BY DEF TriggerEngine, At, Driving, Busy, others
<1>2. Calm(ext) /\ faults \in Nat
  BY CalmEffects DEF DriverInv, TypeOK
<1>3. Ready(w, Run(w)) /\ RunSound(Run(w))
  BY <1>1, DrivingFacts DEF Ready
<1>4. key \in 1 .. (MaxRetries + 1) /\ key \in EngineIds
  <2>1. Run(w).st.attempts \in 0 .. MaxRetries
    BY <1>1, <1>3, ReadyFacts
  <2> QED BY <2>1, DriverAssumption DEF EngineRunKey, EngineIds
<1>5. HasResource => SomeApproved
  BY <1>1, <1>3 DEF RunSound
<1>6. ext' \in {ext, Triggered(key)}
  BY DEF TriggerEngine
<1> HIDE DEF key
<1>10. request # "none"
  BY <1>1, HeldExists DEF Busy, Driving, Escalating
<1>7. /\ ext' \in ExtType /\ EngineSound'
      /\ (SomeApproved => SomeApproved') /\ (SomeSuccess => SomeSuccess')
  BY <1>1, <1>2, <1>4, <1>5, <1>6, <1>10, TriggeredWorld, CalmWorld
<1>8. CASE Poll(w, [Run(w) EXCEPT !.st.engine = key]) /\ UNCHANGED faults
  <2>1. Ready(w, [Run(w) EXCEPT !.st.engine = key])
    BY <1>1, <1>4, MarkedReady
  <2>2. SoundMove(w)
    BY <1>1, <1>8, <2>1, PollSound
  <2> QED BY <1>1, <1>2, <1>7, <1>8, <2>2 DEF SoundStep
<1>9. CASE Raises("engine") /\ StepError(w, Run(w), "unclassified")
  <2>1. SoundMove(w)
    BY <1>1, <1>3, <1>9, StepErrorSound
  <2> QED BY <1>1, <1>7, <1>9, <2>1, RaisesCounts DEF SoundStep
<1> QED BY <1>8, <1>9 DEF TriggerEngine, key

\* RunEngineStep, the poll: the run moves on only with a success.
LEMMA PollEngineSound ==
    ASSUME DriverInv, NEW w \in Workers, PollEngine(w)
    PROVE  SoundStep(w)
<1> DEFINE status == ext.engine[Run(w).st.engine]
<1>1. /\ me[w].pc \in Driving \ {"overdue"} /\ me[w].pc \in Busy /\ UNCHANGED others
      /\ UNCHANGED ext /\ Run(w).step = "RUN_ENGINE" /\ Run(w).st.engine # 0
  BY DEF PollEngine, At, Driving, Busy
<1>2. Calm(ext') /\ faults \in Nat /\ Run(w) \in RunType
  BY <1>1, CalmEffects DEF DriverInv, TypeOK, WorkerType, Run
<1>3. Ready(w, Run(w)) /\ Run(w).st.engine \in EngineIds
  BY <1>1, <1>2, DrivingFacts DEF RunType, StateType
<1>4. CASE Poll(w, Run(w)) /\ UNCHANGED faults
  BY <1>1, <1>2, <1>3, <1>4, PollSound, CalmStep
<1>5. ASSUME Succeeded(status) PROVE SomeSuccess
  BY <1>3, <1>5 DEF Succeeded, SomeSuccess
<1>6. CASE /\ Succeeded(status)
           /\ Advance(w, [Run(w) EXCEPT !.st.output = HasResource /\ status = "published"])
           /\ UNCHANGED faults
  <2>1. PICK b \in BOOLEAN : b = (HasResource /\ status = "published")
    OBVIOUS
  <2> DEFINE run == [Run(w) EXCEPT !.st.output = b]
  <2>2. Ready(w, run)
    BY <1>1, MarkedReady
  <2>3. Advance(w, run)
    BY <1>6, <2>1
  <2> HIDE DEF run
  <2>4. run.step = "RUN_ENGINE"
    BY <1>1, <2>2 DEF Ready
  <2>5. SoundMove(w)
    BY <1>1, <1>5, <1>6, <2>2, <2>3, <2>4, AdvanceSound
  <2> QED BY <1>1, <1>2, <1>6, <2>5, CalmStep
<1>7. CASE Succeeded(status) /\ Raises("engine") /\ Advance(w, Run(w))
  <2>1. SoundMove(w)
    BY <1>1, <1>3, <1>5, <1>7, AdvanceSound
  <2> QED BY <1>1, <1>2, <1>7, <2>1, RaisesCounts, CalmStep
<1>8. CASE /\ status \in EngineFailures
           /\ StepError(w, [Run(w) EXCEPT !.st.failure = status], FailureKind(status))
           /\ UNCHANGED faults
  <2>1. PICK f \in EngineFailures : f = status
    BY <1>8
  <2>2. Ready(w, [Run(w) EXCEPT !.st.failure = f])
    BY <1>1, MarkedReady
  <2>3. FailureKind(f) \in {"unclassified", "VALIDATION", "INFRA_PRECHECK", "TASK"}
    BY DEF FailureKind
  <2>4. SoundMove(w)
    BY <1>1, <1>8, <2>1, <2>2, <2>3, StepErrorSound
  <2> QED BY <1>1, <1>2, <1>8, <2>4, CalmStep
<1>9. CASE Raises("engine") /\ \E err \in {"TASK", "unclassified"} : StepError(w, Run(w), err)
  <2>1. SoundMove(w)
    BY <1>1, <1>3, <1>9, StepErrorSound
  <2> QED BY <1>1, <1>2, <1>9, <2>1, RaisesCounts, CalmStep
<1> QED BY <1>4, <1>6, <1>7, <1>8, <1>9 DEF PollEngine

-----------------------------------------------------------------------------
(* Escalation. *)

\* A guarded call of the escalator leads on whether it raises or not.
LEMMA GuardedSound ==
    ASSUME DriverInv, NEW w \in Workers, me[w].pc \in Escalating, NEW provider, NEW effect,
           Calm(effect), NEW next \in Escalating \cup {"save"},
           NEW rescue \in Escalating \cup {"save"},
           Guarded(w, provider, effect, next, rescue), UNCHANGED others
    PROVE  SoundStep(w)
<1>1. /\ Calm(ext) /\ faults \in Nat /\ me \in [Workers -> WorkerType]
      /\ me[w] \in WorkerType
  BY CalmEffects DEF DriverInv, TypeOK
<1>2. me[w].pc \in Busy
  BY DEF Busy
<1>3. Calm(ext') /\ faults' \in Nat
  BY <1>1, RaisesCounts DEF Guarded
<1>4. PICK p \in Escalating \cup {"save"} : me' = [me EXCEPT ![w].pc = p]
  BY DEF Guarded
<1>5. me' = [me EXCEPT ![w] = [me[w] EXCEPT !.pc = p]]
  BY <1>4
<1>6. [me[w] EXCEPT !.pc = p] = [pc |-> p, err |-> me[w].err, order |-> me[w].order,
                                 quiet |-> me[w].quiet, run |-> Run(w)]
  BY <1>1 DEF WorkerType, Run
<1>7. me' = [me EXCEPT ![w] = [pc |-> p, err |-> me[w].err, order |-> me[w].order,
                               quiet |-> me[w].quiet, run |-> Run(w)]]
  BY <1>5, <1>6
<1>8. SoundMove(w)
  BY <1>7, EscalateOn
<1> QED BY <1>2, <1>3, <1>8, CalmStep

\* The escalator, call by call.
LEMMA EscalateSound ==
    ASSUME DriverInv, NEW w \in Workers, Escalate(w)
    PROVE  SoundStep(w)
<1>1. /\ ext \in ExtType /\ Calm(ext) /\ faults \in Nat /\ me \in [Workers -> WorkerType]
      /\ me[w] \in WorkerType /\ Run(w) \in RunType
  BY CalmEffects DEF DriverInv, TypeOK, WorkerType, Run
<1>2. CASE OpenIncident(w)
  <2>1. me[w].pc \in Escalating /\ UNCHANGED others
        /\ Guarded(w, "ticket", IncidentOpened, AfterIncident(w), "release")
    BY <1>2 DEF OpenIncident, Escalating
  <2>2. AfterIncident(w) \in Escalating /\ "release" \in Escalating
    BY DEF AfterIncident, Escalating
  <2>3. Calm(IncidentOpened)
    BY <1>1, CalmEffects
  <2> QED BY <2>1, <2>2, <2>3, GuardedSound
<1>3. CASE LogDocumentationIncident(w)
  <2>1. me[w].pc \in Escalating /\ UNCHANGED others
        /\ Guarded(w, "ticket", [ext EXCEPT !.docs = @ + 1], "resolve", "closing")
    BY <1>3 DEF LogDocumentationIncident, Escalating
  <2>2. "resolve" \in Escalating /\ "closing" \in Escalating
    BY DEF Escalating
  <2>3. Calm([ext EXCEPT !.docs = @ + 1])
    BY <1>1, CalmEffects
  <2> QED BY <2>1, <2>2, <2>3, GuardedSound
<1>4. CASE ResolveDocumentationIncident(w)
  <2>1. me[w].pc \in Escalating /\ UNCHANGED others
        /\ Guarded(w, "ticket", [ext EXCEPT !.resolved = @ + 1], "closing", "closing")
    BY <1>4 DEF ResolveDocumentationIncident, Escalating
  <2>2. "closing" \in Escalating
    BY DEF Escalating
  <2>3. Calm([ext EXCEPT !.resolved = @ + 1])
    BY <1>1, CalmEffects
  <2> QED BY <2>1, <2>2, <2>3, GuardedSound
<1>5. CASE CloseUnsuccessful(w)
  <2> DEFINE closed == TicketClosed(Run(w).st.ticket, "unsuccessful")
  <2>1. me[w].pc \in Escalating /\ me[w].pc \in Busy /\ UNCHANGED others /\ "release" \in Escalating
    BY <1>5 DEF CloseUnsuccessful, Escalating, Busy
  <2>2. Calm(closed)
    <3>1. Run(w).st.ticket \in {0} \cup TicketIds
      BY <1>1 DEF RunType, StateType
    <3> QED BY <1>1, <3>1, CalmEffects DEF TicketClosed
  <2> HIDE DEF closed
  <2>3. ext' \in {ext, closed} /\ faults' \in Nat
    BY <1>1, <1>5, RaisesCounts DEF CloseUnsuccessful, closed
  <2>4. PICK run \in {Run(w), [Run(w) EXCEPT !.st.closed = TRUE]} : Goto(w, "release", run)
    BY <1>5 DEF CloseUnsuccessful
  <2>5. SoundMove(w)
    BY <1>1, <2>1, <2>4, GotoIs, EscalateOn
  <2> QED BY <1>1, <2>1, <2>2, <2>3, <2>5, CalmStep
<1>6. CASE ReleaseResource(w)
  <2>1. me[w].pc \in Escalating /\ me[w].pc \in Busy /\ UNCHANGED others
    BY <1>6 DEF ReleaseResource, Escalating, Busy
  <2>2. CASE Goto(w, "save", Run(w)) /\ UNCHANGED <<ext, faults>>
    <3>1. SoundMove(w)
      BY <1>1, <2>1, <2>2, GotoIs, EscalateOn
    <3> QED BY <1>1, <2>1, <2>2, <3>1, CalmStep
  <2>3. CASE Guarded(w, "resource", Released(Run(w)), "save", "save")
    <3>1. Calm(Released(Run(w)))
      BY <1>1, CalmRecords
    <3> QED BY <2>1, <2>3, <3>1, GuardedSound
  <2> QED BY <1>6, <2>2, <2>3 DEF ReleaseResource
<1> QED BY <1>2, <1>3, <1>4, <1>5, <1>6 DEF Escalate

\* Every step of a plan.
LEMMA ExecuteStepSound ==
    ASSUME DriverInv, NEW w \in Workers, ExecuteStep(w)
    PROVE  SoundStep(w)
BY DeadlineExceededSound, CreateTicketSound, OrderTicketSound, TagTicketSound,
   ConfigureResourceSound, AwaitApprovalSound, ValidateResourceSound, TriggerEngineSound,
   PollEngineSound, FinalizeResourceSound, MarkDeletedSound, DeleteRecordSound,
   CloseTicketSound, SubmitLegacySound DEF ExecuteStep

-----------------------------------------------------------------------------
(* Claiming, loading and saving. *)

\* The values a run and a worker begin with have their types,
LEMMA BlankType == /\ \A kind : NewState(kind) \in StateType
                   /\ Blank \in RunType /\ Idle \in WorkerType
<1>1. 0 \in 0 .. (MaxRetries + 1) /\ 0 \in 0 .. MaxPolls /\ 1 \in TicketIds
  BY DriverAssumption DEF TicketIds
<1>2. \A kind : NewState(kind) \in StateType
  BY <1>1 DEF NewState, StateType
<1>3. Blank \in RunType
  BY <1>2 DEF Blank, RunType
<1> QED BY <1>2, <1>3 DEF Idle, WorkerType

\* and are sound.
LEMMA IdleSound == WorkerSound(Idle) /\ WorkerSound([Idle EXCEPT !.pc = "claimed"])
BY DEF WorkerSound, PointSound, Idle, Busy, Driving, Escalating

\* Only the date of the row changes.
LEMMA DateOnly ==
    ASSUME DriverInv, UNCHANGED <<request, ext>>, NEW d \in {"null", "future", "due"},
           row' = [row EXCEPT !.date = d], row.status # "ABSENT"
    PROVE  /\ row' \in RunType /\ RowSound' /\ EngineSound'
           /\ \A n : WorkerSound(n) => WorkerSound(n)'
<1>1. row \in RunType /\ RowSound /\ ext \in ExtType
  BY DEF DriverInv, TypeOK
<1>2. row' \in RunType
  BY <1>1, RunUpdates
<1>3. /\ row'.status = row.status /\ row'.version = row.version /\ row'.step = row.step
      /\ row'.st = row.st
  BY <1>1 DEF RunType
<1>4. Calm(ext') /\ UNCHANGED request
  BY <1>1, CalmEffects
<1>5. /\ EngineSound' /\ (SomeApproved => SomeApproved') /\ (SomeSuccess => SomeSuccess')
  BY <1>4, CalmWorld
<1>6. RowSound'
  <2>1. RunSound(row)
    BY <1>1 DEF RowSound
  <2>2. RunSound(row')
    BY <1>3, <2>1 DEF RunSound
  <2>3. RunSound(row)'
    BY <1>4, <1>5, <2>2, RunSoundGrows
  <2>4. Rank(row') = Rank(row)
    BY <1>3 DEF Rank, StepNumber
  <2>5. Rank(row)' = Rank(row)
    BY <1>4, <2>4, RequestFrame
  <2> QED BY <1>1, <1>3, <1>4, <2>3, <2>5 DEF RowSound
<1>7. ASSUME NEW n, WorkerSound(n) PROVE WorkerSound(n)'
  <2>1. RunSound(n.run) => RunSound(n.run)'
    BY <1>4, <1>5, RunSoundGrows
  <2>2. Keeps(row, n.run) => Keeps(row', n.run)
    BY <1>3 DEF Keeps
  <2>3. Keeps(row, n.run) => Keeps(row, n.run)'
    BY <1>4, <2>2, RequestFrame
  <2>4. Tracks(n) => Tracks(n)'
    BY <1>3, <2>3 DEF Tracks
  <2>5. Ranked(n) => Ranked(n)'
    BY <1>4, RequestFrame DEF Ranked
  <2>6. PointSound(n) => PointSound(n)'
    BY DEF PointSound
  <2> QED BY <1>7, <2>1, <2>4, <2>5, <2>6 DEF WorkerSound
<1> QED BY <1>2, <1>5, <1>6, <1>7

\* claim_due.
LEMMA ClaimSound ==
    ASSUME DriverInv, NEW w \in Workers, Claim(w)
    PROVE  DriverInv'
<1>1. /\ UNCHANGED <<request, ext>> /\ row' = [row EXCEPT !.date = "future"]
      /\ UNCHANGED <<found, faults, overdue, wakes, crashes, dbFaults>>
      /\ me[w].pc = "idle" /\ row.date = "due" /\ me' = [me EXCEPT ![w].pc = "claimed"]
  BY DEF Claim, world
<1>2. row.status # "ABSENT"
  BY <1>1 DEF DriverInv, RowSound, Blank
<1>3. /\ row' \in RunType /\ RowSound' /\ EngineSound'
      /\ \A n : WorkerSound(n) => WorkerSound(n)'
  BY <1>1, <1>2, DateOnly
<1>4. me[w] = Idle /\ me \in [Workers -> WorkerType]
  BY <1>1 DEF DriverInv, TypeOK, WorkerSound, PointSound
<1>5. me' = [me EXCEPT ![w] = [Idle EXCEPT !.pc = "claimed"]]
  BY <1>1, <1>4
<1>6. [Idle EXCEPT !.pc = "claimed"] \in WorkerType
  BY BlankType DEF WorkerType
<1>7. TypeOK'
  BY <1>1, <1>3, <1>4, <1>5, <1>6 DEF DriverInv, TypeOK
<1>8. \A u \in Workers : WorkerSound(me[u])'
  <2> TAKE u \in Workers
  <2>1. me'[u] = me[u] \/ me'[u] = [Idle EXCEPT !.pc = "claimed"]
    BY <1>4, <1>5
  <2>2. WorkerSound(me[u])
    BY DEF DriverInv
  <2> QED BY <1>3, <2>1, <2>2, IdleSound
<1> QED BY <1>1, <1>3, <1>7, <1>8 DEF DriverInv

\* A worker is set to m and nothing but the worker and counters changes.
LEMMA WorkerOnly ==
    ASSUME DriverInv, NEW w \in Workers, me[w].pc # "idle", NEW m \in WorkerType,
           me' = [me EXCEPT ![w] = m], WorkerSound(m),
           UNCHANGED <<request, row, ext, found, faults, overdue, wakes>>,
           {crashes', dbFaults'} \subseteq Nat
    PROVE  DriverInv'
<1>1. /\ ext \in ExtType /\ me \in [Workers -> WorkerType] /\ RowSound
      /\ \A u \in Workers : WorkerSound(me[u])
  BY DEF DriverInv, TypeOK
<1>2. Calm(ext') /\ UNCHANGED request
  BY <1>1, CalmEffects
<1>3. /\ EngineSound' /\ (SomeApproved => SomeApproved') /\ (SomeSuccess => SomeSuccess')
  BY <1>2, CalmWorld
<1>4. row.status # "ABSENT"
  BY HeldExists
<1>5. TypeOK'
  BY <1>1 DEF DriverInv, TypeOK
<1>6. RowSound'
  <2>1. RunSound(row)'
    BY <1>1, <1>2, <1>3, RunSoundGrows DEF RowSound
  <2>2. Rank(row)' = Rank(row)
    BY <1>2, RequestFrame
  <2> QED BY <1>1, <1>2, <1>4, <2>1, <2>2 DEF RowSound
<1>7. ASSUME NEW n, WorkerSound(n)
      PROVE  WorkerSound(n)'
  <2>1. RunSound(n.run) => RunSound(n.run)'
    BY <1>2, <1>3, RunSoundGrows
  <2>2. Tracks(n) => Tracks(n)'
    BY <1>2, RequestFrame DEF Tracks
  <2>3. Ranked(n) => Ranked(n)'
    BY <1>2, RequestFrame DEF Ranked
  <2>4. PointSound(n) => PointSound(n)'
    BY DEF PointSound
  <2> QED BY <1>7, <2>1, <2>2, <2>3, <2>4 DEF WorkerSound
<1>8. \A u \in Workers : WorkerSound(me[u])'
  <2> TAKE u \in Workers
  <2>1. me'[u] = m \/ me'[u] = me[u]
    BY <1>1
  <2> QED BY <1>1, <1>7, <2>1
<1> QED BY <1>3, <1>5, <1>6, <1>8 DEF DriverInv

\* handle, up to the first step.
LEMMA LoadSound ==
    ASSUME DriverInv, NEW w \in Workers, Load(w)
    PROVE  DriverInv'
<1>1. /\ UNCHANGED <<request, row, ext, found, faults, overdue, wakes>>
      /\ UNCHANGED <<crashes, dbFaults>> /\ me[w].pc = "claimed" /\ me[w].pc # "idle"
  BY DEF Load, world
<1>2. /\ me \in [Workers -> WorkerType] /\ me[w] \in WorkerType
      /\ row \in RunType /\ RowSound /\ WorkerSound(me[w]) /\ {crashes', dbFaults'} \subseteq Nat
  BY <1>1 DEF DriverInv, TypeOK
<1>3. me[w] = [Idle EXCEPT !.pc = "claimed"]
  BY <1>1, <1>2 DEF WorkerSound, PointSound
<1>4. me[w].quiet = FALSE /\ me[w].order = 0 /\ me[w].err = "none"
  BY <1>3 DEF Idle
<1>5. CASE ~Unfinished /\ me' = [me EXCEPT ![w] = Idle]
  BY <1>1, <1>2, <1>5, IdleSound, BlankType, WorkerOnly
<1>6. CASE Unfinished /\ Goto(w, IF Late THEN "overdue" ELSE "step",
                  [row EXCEPT !.status = "RUNNING", !.step = IF @ = "none" THEN Plan[1] ELSE @])
  <2> DEFINE p   == IF Late THEN "overdue" ELSE "step"
             s   == IF row.step = "none" THEN Plan[1] ELSE row.step
             run == [row EXCEPT !.status = "RUNNING", !.step = s]
             m   == [pc |-> p, err |-> me[w].err, order |-> me[w].order, quiet |-> me[w].quiet,
                     run |-> run]
  <2>1. [row EXCEPT !.status = "RUNNING", !.step = IF @ = "none" THEN Plan[1] ELSE @] = run
    BY <1>2 DEF RunType
  <2>2. Goto(w, p, run)
    BY <1>6, <2>1
  <2>3. me' = [me EXCEPT ![w] = m]
    BY <1>2, <2>2, GotoIs
  <2>4. row.status \in Active /\ row.step \in PlanSteps \cup {"none"} /\ RunSound(row)
        /\ row.version <= Rank(row) + 1 /\ row.st.attempts <= MaxRetries
    BY <1>2, <1>6 DEF Unfinished, RowSound, RunSound
  <2>5. /\ s \in PlanSteps /\ s \in Steps /\ s # "none"
        /\ row.step # "none" => s = row.step
        /\ row.step = "none" => s \in {"CREATE_TICKET", "RUN_ENGINE", "SUBMIT_LEGACY"}
                                /\ (HasResource => s = "CREATE_TICKET") /\ Position(s) = 1
    BY <2>4, PlanShape DEF Steps
  <2> HIDE DEF s
  <2>6. run \in RunType
    BY <1>2, <2>5 DEF RunType, Active
  <2>7. /\ run.status = "RUNNING" /\ run.version = row.version /\ run.step = s
        /\ run.st = row.st
    BY <1>2 DEF RunType
  <2> HIDE DEF run
  <2>8. p \in {"overdue", "step"} /\ (p = "step" => row.st.clock < MaxPolls)
    <3>1. row.st.clock \in 0 .. MaxPolls /\ MaxPolls \in Nat
      BY <1>2, DriverAssumption DEF RunType, StateType
    <3> QED BY <3>1 DEF Late
  <2> HIDE DEF p
  <2>9. m \in WorkerType
    BY <1>2, <2>6, <2>8 DEF WorkerType
  <2>10. PointSound(m)
    BY <1>4, <2>5, <2>7, <2>8 DEF PointSound, Driving, Escalating
  <2>11. RunSound(run)
    BY <2>4, <2>5, <2>7 DEF RunSound, Active
  <2>12. Position(s) \in Nat
    BY <2>5, PlanShape
  <2>13. Tracks(m)
    <3>1. Keeps(row, run)
      BY <2>5, <2>7, <2>12 DEF Keeps
    <3> QED BY <1>2, <2>4, <2>7, <3>1 DEF Tracks, RunType
  <2>14. Rank(run) = Rank(row)
    BY <2>5, <2>7 DEF Rank, StepNumber
  <2>15. Ranked(m)
    <3>1. Rank(row) \in Nat /\ Rank(row) + 2 <= VersionBound
      BY <1>2, <2>4, RankBounds
    <3>2. row.version \in Nat /\ VersionBound \in Nat
      BY <1>2, DriverAssumption DEF RunType, VersionBound
    <3> QED BY <2>4, <2>7, <2>8, <2>14, <3>1, <3>2 DEF Ranked, Driving
  <2>16. WorkerSound(m)
    BY <2>10, <2>11, <2>13, <2>15 DEF WorkerSound
  <2> QED BY <1>1, <1>2, <2>3, <2>9, <2>16, WorkerOnly
<1> QED BY <1>5, <1>6 DEF Load

\* A worker that dies forgets its copy.
LEMMA CrashSound ==
    ASSUME DriverInv, NEW w \in Workers, Crash(w)
    PROVE  DriverInv'
<1>1. /\ UNCHANGED <<request, row, ext, found, faults, overdue, wakes>>
      /\ UNCHANGED dbFaults /\ crashes' = crashes + 1 /\ me[w].pc # "idle"
      /\ me' = [me EXCEPT ![w] = Idle]
  BY DEF Crash, world
<1>2. {crashes', dbFaults'} \subseteq Nat
  BY <1>1 DEF DriverInv, TypeOK
<1> QED BY <1>1, <1>2, IdleSound, BlankType, WorkerOnly

\* A save that takes effect: every other copy is older now.
LEMMA WriteSound ==
    ASSUME DriverInv, NEW w \in Workers, me[w].pc = "save", Write(w), UNCHANGED <<request, ext>>
    PROVE  /\ row' \in RunType /\ RowSound' /\ EngineSound' /\ overdue' \in BOOLEAN
           /\ \A n \in WorkerType : WorkerSound(n) => WorkerSound(n)'
<1>1. /\ row.version = Run(w).version /\ row' = [Run(w) EXCEPT !.version = @ + 1]
      /\ overdue' \in BOOLEAN
  BY DEF Write, VersionMatches
<1>2. Run(w) \in RunType /\ WorkerSound(me[w]) /\ ext \in ExtType /\ row \in RunType
  BY DEF DriverInv, TypeOK, WorkerType, Run
<1>3. /\ Run(w).status = "RUNNING" \/ Run(w).status \in Terminal
      /\ RunSound(Run(w)) /\ Run(w).version < VersionBound
      /\ Run(w).status = "RUNNING" => Run(w).version <= Rank(Run(w))
  BY <1>2 DEF WorkerSound, PointSound, Ranked, Busy, Run
<1>4. Run(w).version \in Nat \ {0} /\ Run(w).version + 1 \in Nat \ {0} /\ VersionBound \in Nat
  BY <1>2, DriverAssumption DEF RunType, VersionBound
<1>5. row' \in RunType
  BY <1>1, <1>2, <1>4, RunUpdates
<1>6. /\ row'.version = Run(w).version + 1 /\ row'.status = Run(w).status
      /\ row'.step = Run(w).step /\ row'.st = Run(w).st
  BY <1>1, <1>2 DEF RunType
<1>7. Calm(ext') /\ UNCHANGED request
  BY <1>2, CalmEffects
<1>8. /\ EngineSound' /\ (SomeApproved => SomeApproved') /\ (SomeSuccess => SomeSuccess')
  BY <1>7, CalmWorld
<1>9. RowSound'
  <2>1. RunSound(row')
    BY <1>3, <1>6 DEF RunSound
  <2>2. RunSound(row)'
    BY <1>7, <1>8, <2>1, RunSoundGrows
  <2>3. Rank(row') = Rank(Run(w))
    BY <1>6 DEF Rank, StepNumber
  <2>4. Rank(row)' = Rank(Run(w))
    BY <1>7, <2>3, RequestFrame
  <2>5. row'.version <= VersionBound
    BY <1>3, <1>4, <1>6
  <2>6. row'.status \in Active => row'.version <= Rank(row)' + 1
    <3>1. row'.status \in Active => Run(w).status = "RUNNING"
      BY <1>3, <1>6 DEF Active, Terminal
    <3>2. Rank(Run(w)) \in Nat \/ row'.status \notin Active
      <4>1. row'.status \in Active => Run(w).st.attempts <= MaxRetries
        BY <1>3, <1>6 DEF RunSound
      <4>2. Run(w).step \in PlanSteps \cup {"none"}
        BY <1>3 DEF RunSound
      <4> QED BY <1>2, <4>1, <4>2, RankBounds
    <3> QED BY <1>3, <1>4, <1>6, <2>4, <3>1, <3>2
  <2>7. row'.status # "ABSENT" /\ request' # "none"
    BY <1>3, <1>6, <1>7, HeldExists DEF Terminal
  <2> QED BY <2>2, <2>5, <2>6, <2>7 DEF RowSound
<1>10. ASSUME NEW n \in WorkerType, WorkerSound(n) PROVE WorkerSound(n)'
  <2>1. RunSound(n.run) => RunSound(n.run)'
    BY <1>7, <1>8, RunSoundGrows
  <2>2. Tracks(n) => Tracks(n)'
    <3>1. n.run.version \in Nat
      BY DEF WorkerType, RunType
    <3> QED BY <1>1, <1>4, <1>6, <3>1 DEF Tracks
  <2>3. Ranked(n) => Ranked(n)'
    BY <1>7, RequestFrame DEF Ranked
  <2>4. PointSound(n) => PointSound(n)'
    BY DEF PointSound
  <2> QED BY <1>10, <2>1, <2>2, <2>3, <2>4 DEF WorkerSound
<1> QED BY <1>1, <1>5, <1>8, <1>9, <1>10

\* The worker after a save it made, or one that raised.
LEMMA SavedSound ==
    ASSUME DriverInv, NEW w \in Workers, me[w].pc = "save",
           Write(w) \/ UNCHANGED <<row, overdue>>,
           NEW m \in WorkerType, me' = [me EXCEPT ![w] = m], WorkerSound(m),
           UNCHANGED <<world, wakes, crashes>>, dbFaults' \in Nat
    PROVE  DriverInv'
<1>1. UNCHANGED <<request, ext, found, faults, wakes, crashes>> /\ me[w].pc # "idle"
  BY DEF world
<1>2. CASE UNCHANGED <<row, overdue>>
  <2>1. {crashes', dbFaults'} \subseteq Nat
    BY <1>1 DEF DriverInv, TypeOK
  <2> QED BY <1>1, <1>2, <2>1, WorkerOnly
<1>3. CASE Write(w)
  <2>1. /\ row' \in RunType /\ RowSound' /\ EngineSound' /\ overdue' \in BOOLEAN
        /\ \A n \in WorkerType : WorkerSound(n) => WorkerSound(n)'
    BY <1>1, <1>3, WriteSound
  <2>2. me \in [Workers -> WorkerType] /\ \A u \in Workers : WorkerSound(me[u])
    BY DEF DriverInv, TypeOK
  <2>3. TypeOK'
    BY <1>1, <2>1, <2>2 DEF DriverInv, TypeOK
  <2>4. \A u \in Workers : WorkerSound(me[u])'
    <3> TAKE u \in Workers
    <3>1. me'[u] = m \/ me'[u] = me[u]
      BY <2>2
    <3> QED BY <2>1, <2>2, <3>1
  <2> QED BY <1>1, <2>1, <2>3, <2>4 DEF DriverInv
<1> QED BY <1>2, <1>3

\* save: the version it writes is paid for by the rank of the copy.
LEMMA SaveSound ==
    ASSUME DriverInv, NEW w \in Workers, Save(w)
    PROVE  DriverInv'
<1>1. /\ me[w].pc = "save" /\ (Write(w) \/ UNCHANGED <<row, overdue>>)
      /\ me' = [me EXCEPT ![w] = Idle] /\ UNCHANGED <<world, wakes, crashes>>
      /\ UNCHANGED dbFaults
  BY DEF Save
<1>2. dbFaults' \in Nat
  BY <1>1 DEF DriverInv, TypeOK
<1> QED BY <1>1, <1>2, IdleSound, BlankType, SavedSound

\* _crash leaves a worker that saves quietly what it has escalated.
LEMMA SaveRaisedSound ==
    ASSUME DriverInv, NEW w \in Workers, me[w].pc = "save", SaveRaised(w)
    PROVE  \E m \in WorkerType : me' = [me EXCEPT ![w] = m] /\ WorkerSound(m)
<1>0. PICK q \in BOOLEAN : q
  OBVIOUS
<1>1. /\ me \in [Workers -> WorkerType] /\ me[w] \in WorkerType
      /\ Run(w) \in RunType /\ WorkerSound(me[w])
  BY DEF DriverInv, TypeOK, WorkerType, Run
<1>2. /\ Run(w).status = "RUNNING" \/ (Run(w).status \in Terminal /\ Run(w).date = "null")
      /\ RunSound(Run(w)) /\ Tracks(me[w]) /\ Run(w).version < VersionBound
  BY <1>1 DEF WorkerSound, PointSound, Ranked, Busy, Run
<1>3. CASE Run(w).status = "FAILED"
  <2> DEFINE m == [pc |-> "save", err |-> me[w].err, order |-> me[w].order, quiet |-> q,
                   run |-> Run(w)]
  <2>1. me' = [me EXCEPT ![w] = [me[w] EXCEPT !.quiet = q]]
    BY <1>0, <1>3 DEF SaveRaised
  <2>2. [me[w] EXCEPT !.quiet = q] = m
    BY <1>1 DEF WorkerType, Run
  <2>3. m \in WorkerType
    BY <1>1 DEF WorkerType
  <2>4. PointSound(m)
    BY <1>2, <1>3 DEF PointSound, Driving, Escalating, Terminal
  <2>5. Tracks(m) /\ Ranked(m)
    BY <1>2, <1>3 DEF Tracks, Ranked, Driving, Run
  <2>6. WorkerSound(m)
    BY <1>2, <2>4, <2>5 DEF WorkerSound
  <2> QED BY <2>1, <2>2, <2>3, <2>6
<1>4. CASE Run(w).status # "FAILED"
  <2> DEFINE run == Failed(Run(w))
             m   == [pc |-> "incident", err |-> "unclassified", order |-> me[w].order,
                     quiet |-> q, run |-> run]
  <2>6. me' = [me EXCEPT ![w] = m]
    <3> HIDE DEF run
    <3>2. me' = [me EXCEPT ![w] = [[[[me[w] EXCEPT !.quiet = q] EXCEPT !.pc = "incident"]
                                      EXCEPT !.err = "unclassified"] EXCEPT !.run = run]]
      BY <1>0, <1>4 DEF SaveRaised, run
    <3>3. [me[w] EXCEPT !.quiet = q]
            = [pc |-> me[w].pc, err |-> me[w].err, order |-> me[w].order, quiet |-> q,
               run |-> me[w].run]
      BY <1>1 DEF WorkerType
    <3>4. [[pc |-> me[w].pc, err |-> me[w].err, order |-> me[w].order, quiet |-> q,
            run |-> me[w].run] EXCEPT !.pc = "incident"]
            = [pc |-> "incident", err |-> me[w].err, order |-> me[w].order, quiet |-> q,
               run |-> me[w].run]
      OBVIOUS
    <3>5. [[pc |-> "incident", err |-> me[w].err, order |-> me[w].order, quiet |-> q,
            run |-> me[w].run] EXCEPT !.err = "unclassified"]
            = [pc |-> "incident", err |-> "unclassified", order |-> me[w].order, quiet |-> q,
               run |-> me[w].run]
      OBVIOUS
    <3>6. [[pc |-> "incident", err |-> "unclassified", order |-> me[w].order, quiet |-> q,
            run |-> me[w].run] EXCEPT !.run = run] = m
      OBVIOUS
    <3> QED BY <3>2, <3>3, <3>4, <3>5, <3>6
  <2>7. run \in RunType
    BY <1>1 DEF RunType, Failed, Terminal
  <2>8. /\ run.step = Run(w).step /\ run.status = "FAILED" /\ run.version = Run(w).version
        /\ run.date = "null" /\ run.st = Run(w).st
    BY <1>1 DEF RunType, Failed
  <2> HIDE DEF run
  <2>9. m \in WorkerType
    BY <1>1, <2>7 DEF WorkerType
  <2>10. PointSound(m)
    BY <2>8 DEF PointSound, Driving, Escalating
  <2>11. Tracks(m)
    BY <1>2, <2>8 DEF Tracks, Keeps, Run
  <2>12. Ranked(m)
    BY <1>2, <2>8 DEF Ranked, Driving
  <2>13. RunSound(run)
    BY <1>2, <2>8 DEF RunSound, Active
  <2>14. WorkerSound(m)
    BY <2>10, <2>11, <2>12, <2>13 DEF WorkerSound
  <2> QED BY <2>6, <2>9, <2>14
<1> QED BY <1>3, <1>4

\* save() raising, before or after its commit.
LEMMA SaveRaisesSound ==
    ASSUME DriverInv, NEW w \in Workers, SaveRaises(w)
    PROVE  DriverInv'
<1>1. /\ me[w].pc = "save" /\ (Write(w) \/ UNCHANGED <<row, overdue>>)
      /\ UNCHANGED <<world, wakes, crashes>> /\ dbFaults' = dbFaults + 1
  BY DEF SaveRaises
<1>2. dbFaults' \in Nat
  BY <1>1 DEF DriverInv, TypeOK
<1>3. PICK m \in WorkerType : me' = [me EXCEPT ![w] = m] /\ WorkerSound(m)
  BY <1>1, SaveRaisedSound, IdleSound, BlankType DEF SaveRaises
<1> QED BY <1>1, <1>2, <1>3, SavedSound

-----------------------------------------------------------------------------
(* The trigger and the environment. *)

\* The run is triggered.
LEMMA TriggerSound ==
    ASSUME DriverInv, NEW kind \in Requests, Trigger(kind)
    PROVE  DriverInv'
<1>1. /\ request = "none" /\ request' = kind
      /\ row' = [Blank EXCEPT !.status = "PENDING", !.date = "due", !.st = NewState(kind)]
      /\ ext' = [ext EXCEPT
                   !.ticket[1] = IF kind = "AUTOMATION" THEN "open" ELSE "none",
                   !.record.given = IF kind \in {"UPDATE", "DELETE"} THEN "READY" ELSE "absent"]
      /\ UNCHANGED <<me, overdue, found, wakes, crashes, faults, dbFaults>>
  BY DEF Trigger
<1>2. ext \in ExtType /\ EngineSound /\ \A w \in Workers : me[w] = Idle
  BY <1>1 DEF DriverInv, TypeOK, RowSound
<1>3. kind \in Kinds /\ kind # "none"
  BY DriverAssumption DEF Kinds
<1>4. /\ row'.status = "PENDING" /\ row'.version = 1 /\ row'.step = "none"
      /\ row'.st = NewState(kind) /\ row' \in RunType
  BY <1>1, BlankType DEF Blank, RunType, Active
<1>5. NewState(kind).attempts = 0 /\ NewState(kind).clock = 0
  BY DEF NewState
<1>6. /\ ext' \in ExtType /\ ext'.approval = ext.approval /\ ext'.engine = ext.engine
  <2> DEFINE x == IF kind = "AUTOMATION" THEN "open" ELSE "none"
             y == IF kind \in {"UPDATE", "DELETE"} THEN "READY" ELSE "absent"
             f == [ext.ticket EXCEPT ![1] = x]
             g == [ext.record EXCEPT !["given"] = y]
  <2>1. f \in [TicketIds -> {"none", "open", "closed", "unsuccessful"}]
    BY <1>2 DEF ExtType
  <2>2. g \in [{"given", "real"} -> {"absent", "READY", "DELETED"} \cup InFlightStates]
    BY <1>2 DEF ExtType
  <2>3. ext' = [[ext EXCEPT !.ticket = f] EXCEPT !.record = g]
    <3>1. [ext EXCEPT !.ticket = f].record = ext.record
      BY <1>2 DEF ExtType
    <3> QED BY <1>1, <3>1
  <2> HIDE DEF f, g
  <2>4. /\ [ext EXCEPT !.ticket = f] \in ExtType
        /\ [ext EXCEPT !.ticket = f].approval = ext.approval
        /\ [ext EXCEPT !.ticket = f].engine = ext.engine
    BY <1>2, <2>1 DEF ExtType
  <2>5. ASSUME NEW e \in ExtType
        PROVE  /\ [e EXCEPT !.record = g] \in ExtType
               /\ [e EXCEPT !.record = g].approval = e.approval
               /\ [e EXCEPT !.record = g].engine = e.engine
    BY <2>2 DEF ExtType
  <2> QED BY <2>3, <2>4, <2>5
<1>7. TypeOK'
  BY <1>1, <1>3, <1>4, <1>6 DEF DriverInv, TypeOK
<1>8. RowSound'
  <2>1. RunSound(row)'
    BY <1>4, <1>5, DriverAssumption DEF RunSound
  <2>2. StepNumber(row)' = 1
    BY <1>4 DEF StepNumber
  <2>3. Rank(row)' = ((1 - 1) * (MaxRetries + 1) + 0) * (MaxPolls + 1) + 0
    BY <1>4, <1>5, <2>2 DEF Rank
  <2>4. Rank(row)' \in Nat /\ Rank(row)' + 2 <= VersionBound /\ VersionBound \in Nat
    <3>1. 1 \in 1 .. 7 /\ 0 \in 0 .. MaxRetries /\ 0 \in 0 .. MaxPolls
      BY DriverAssumption
    <3>2. VersionBound \in Nat
      BY DriverAssumption DEF VersionBound
    <3> QED BY <2>3, <3>1, <3>2, RankArithmetic
  <2> QED BY <1>1, <1>3, <1>4, <2>1, <2>4 DEF RowSound
<1>9. \A w \in Workers : WorkerSound(me[w])'
  <2>1. WorkerSound(Idle)'
    BY DEF WorkerSound, PointSound, Idle, Busy, Driving, Escalating
  <2> QED BY <1>1, <1>2, <2>1
<1>10. EngineSound'
  <2>1. Launched' = Launched
    BY <1>6 DEF Launched
  <2>2. Launched = {}
    BY <1>1, <1>2 DEF EngineSound
  <2> QED BY <1>2, <2>1, <2>2 DEF EngineSound, ApprovedBeforeEngine
<1> QED BY <1>1, <1>7, <1>8, <1>9, <1>10 DEF DriverInv

\* The world grows and all else stays.
LEMMA WorldGrows ==
    ASSUME DriverInv, UNCHANGED <<request, row, me, overdue, found, wakes, crashes, faults, dbFaults>>,
           ext' \in ExtType, EngineSound',
           SomeApproved => SomeApproved', SomeSuccess => SomeSuccess'
    PROVE  DriverInv'
<1>1. RowSound /\ \A u \in Workers : WorkerSound(me[u])
  BY DEF DriverInv
<1>2. TypeOK'
  BY DEF DriverInv, TypeOK
<1>3. RowSound'
  <2>1. RunSound(row)'
    BY <1>1, RunSoundGrows DEF RowSound
  <2>2. Rank(row)' = Rank(row)
    BY RequestFrame
  <2> QED BY <1>1, <2>1, <2>2 DEF RowSound
<1>4. ASSUME NEW n, WorkerSound(n)
      PROVE  WorkerSound(n)'
  <2>1. RunSound(n.run) => RunSound(n.run)'
    BY RunSoundGrows
  <2>2. Tracks(n) => Tracks(n)'
    BY RequestFrame DEF Tracks
  <2>3. Ranked(n) => Ranked(n)'
    BY RequestFrame DEF Ranked
  <2>4. PointSound(n) => PointSound(n)'
    BY DEF PointSound
  <2> QED BY <1>4, <2>1, <2>2, <2>3, <2>4 DEF WorkerSound
<1>5. \A u \in Workers : WorkerSound(me[u])'
  BY <1>1, <1>4
<1> QED BY <1>2, <1>3, <1>5 DEF DriverInv

\* Only the clock, the callback and the counters change.
LEMMA CountersOnly ==
    ASSUME DriverInv, UNCHANGED <<request, row, me, ext>>, {overdue', found'} \subseteq BOOLEAN,
           {wakes', crashes', faults', dbFaults'} \subseteq Nat, found' => wakes' < MaxWakes
    PROVE  DriverInv'
<1>1. TypeOK'
  BY DEF DriverInv, TypeOK
<1>2. RowSound /\ (\A u \in Workers : WorkerSound(me[u])) /\ ext \in ExtType
  BY DEF DriverInv, TypeOK
<1>3. Calm(ext')
  BY <1>2, CalmEffects
<1>4. /\ EngineSound' /\ (SomeApproved => SomeApproved') /\ (SomeSuccess => SomeSuccess')
  BY <1>3, CalmWorld
<1>5. RowSound'
  <2>1. RunSound(row)'
    BY <1>2, <1>4, RunSoundGrows DEF RowSound
  <2>2. Rank(row)' = Rank(row)
    BY RequestFrame
  <2> QED BY <1>2, <2>1, <2>2 DEF RowSound
<1>6. ASSUME NEW n, WorkerSound(n)
      PROVE  WorkerSound(n)'
  <2>1. RunSound(n.run) => RunSound(n.run)'
    BY <1>4, RunSoundGrows
  <2>2. Tracks(n) => Tracks(n)'
    BY RequestFrame DEF Tracks
  <2>3. Ranked(n) => Ranked(n)'
    BY RequestFrame DEF Ranked
  <2>4. PointSound(n) => PointSound(n)'
    BY DEF PointSound
  <2> QED BY <1>6, <2>1, <2>2, <2>3, <2>4 DEF WorkerSound
<1>7. \A u \in Workers : WorkerSound(me[u])'
  BY <1>2, <1>6
<1> QED BY <1>1, <1>4, <1>5, <1>7 DEF DriverInv

\* Time passes: a date or a lease becomes due.
LEMMA ElapseSound == ASSUME DriverInv, Elapse PROVE DriverInv'
<1>1. /\ UNCHANGED <<request, ext>> /\ row' = [row EXCEPT !.date = "due"]
      /\ UNCHANGED <<me, found, faults, overdue, wakes, crashes, dbFaults>>
      /\ row.date = "future"
  BY DEF Elapse, world
<1>2. row.status # "ABSENT"
  BY <1>1 DEF DriverInv, RowSound, Blank
<1>3. /\ row' \in RunType /\ RowSound' /\ EngineSound'
      /\ \A n : WorkerSound(n) => WorkerSound(n)'
  BY <1>1, <1>2, DateOnly
<1>4. TypeOK'
  BY <1>1, <1>3 DEF DriverInv, TypeOK
<1>5. \A u \in Workers : WorkerSound(me[u])'
  BY <1>1, <1>3 DEF DriverInv
<1> QED BY <1>1, <1>3, <1>4, <1>5 DEF DriverInv

\* The wake of a callback.
LEMMA WakeRunSound == ASSUME DriverInv, WakeRun PROVE DriverInv'
<1>1. /\ UNCHANGED <<request, ext>> /\ found /\ found' = FALSE
      /\ UNCHANGED <<me, faults, overdue, crashes, dbFaults>>
  BY DEF WakeRun
<1>2. CASE row.status \in Active /\ row' = [row EXCEPT !.date = "due"] /\ wakes' = wakes + 1
  <2>1. row.status # "ABSENT"
    BY <1>2 DEF Active
  <2>2. /\ row' \in RunType /\ RowSound' /\ EngineSound'
        /\ \A n : WorkerSound(n) => WorkerSound(n)'
    BY <1>1, <1>2, <2>1, DateOnly
  <2>3. TypeOK'
    <3>1. TypeOK
      BY DEF DriverInv
    <3>2. wakes' \in Nat
      BY <1>2, <3>1 DEF TypeOK
    <3>3. overdue' \in BOOLEAN /\ found' \in BOOLEAN
      BY <1>1, <3>1 DEF TypeOK
    <3> QED BY <1>1, <2>2, <3>1, <3>2, <3>3 DEF TypeOK
  <2>4. \A u \in Workers : WorkerSound(me[u])'
    BY <1>1, <2>2 DEF DriverInv
  <2> QED BY <1>1, <2>2, <2>3, <2>4 DEF DriverInv
<1>3. CASE row.status \notin Active /\ UNCHANGED <<row, wakes>>
  <2>1. UNCHANGED <<request, row, me, ext>> /\ {overdue', found'} \subseteq BOOLEAN
        /\ {wakes', crashes', faults', dbFaults'} \subseteq Nat /\ (found' => wakes' < MaxWakes)
    BY <1>1, <1>3 DEF DriverInv, TypeOK
  <2> QED BY <2>1, CountersOnly
<1> QED BY <1>2, <1>3 DEF WakeRun

\* An attempt's budget runs out.
LEMMA OverrunSound == ASSUME DriverInv, Overrun PROVE DriverInv'
<1>1. UNCHANGED <<request, row, me, ext>> /\ {overdue', found'} \subseteq BOOLEAN
      /\ {wakes', crashes', faults', dbFaults'} \subseteq Nat /\ (found' => wakes' < MaxWakes)
  BY DEF DriverInv, TypeOK, Overrun, world
<1> QED BY <1>1, CountersOnly

\* The lookup of a callback.
LEMMA FindRunSound == ASSUME DriverInv, FindRun PROVE DriverInv'
<1>1. UNCHANGED <<request, row, me, ext>> /\ {overdue', found'} \subseteq BOOLEAN
      /\ {wakes', crashes', faults', dbFaults'} \subseteq Nat /\ (found' => wakes' < MaxWakes)
  BY DEF DriverInv, TypeOK, FindRun
<1> QED BY <1>1, CountersOnly

\* The environment answers: approvals and successes are never taken back.
LEMMA DecideApprovalSound ==
    ASSUME DriverInv, NEW t \in TicketIds, NEW answer \in {"approved", "rejected"},
           DecideApproval(t, answer)
    PROVE  DriverInv'
<1>1. /\ ext.approval[t] = "pending" /\ ext' = [ext EXCEPT !.approval[t] = answer]
      /\ UNCHANGED <<row, me, request, overdue, found, wakes, crashes, faults, dbFaults>>
  BY DEF DecideApproval
<1>2. ext \in ExtType /\ EngineSound
  BY DEF DriverInv, TypeOK
<1>3. /\ ext' \in ExtType /\ ext'.engine = ext.engine
      /\ ext'.approval = [ext.approval EXCEPT ![t] = answer]
  BY <1>1, <1>2 DEF ExtType
<1>4. ext.approval \in [TicketIds -> {"pending", "approved", "rejected"}]
  BY <1>2 DEF ExtType
<1>5. SomeApproved => SomeApproved'
  BY <1>1, <1>3, <1>4 DEF SomeApproved
<1>6. SomeSuccess' = SomeSuccess /\ Launched' = Launched
  BY <1>3 DEF SomeSuccess, Launched
<1>7. EngineSound'
  BY <1>1, <1>2, <1>5, <1>6, RequestFrame DEF EngineSound, ApprovedBeforeEngine, SomeApproved
<1> QED BY <1>1, <1>3, <1>5, <1>6, <1>7, WorldGrows

\* The engine ends a run it was given.
LEMMA FinishEngineSound ==
    ASSUME DriverInv, NEW k \in EngineIds, FinishEngine(k)
    PROVE  DriverInv'
<1>1. /\ ext.engine[k] = "running"
      /\ UNCHANGED <<row, me, request, overdue, found, wakes, crashes, faults, dbFaults>>
  BY DEF FinishEngine
<1>2. PICK end \in EngineSuccesses \cup EngineFailures : ext' = [ext EXCEPT !.engine[k] = end]
  BY DEF FinishEngine
<1>3. ext \in ExtType /\ EngineSound
  BY DEF DriverInv, TypeOK
<1>4. /\ ext' \in ExtType /\ ext'.approval = ext.approval
      /\ ext'.engine = [ext.engine EXCEPT ![k] = end]
  BY <1>2, <1>3 DEF ExtType
<1>5. ext.engine \in [EngineIds -> {"none", "running"} \cup EngineSuccesses \cup EngineFailures]
  BY <1>3 DEF ExtType
<1>6. SomeApproved' = SomeApproved
  BY <1>4 DEF SomeApproved
<1>7. SomeSuccess => SomeSuccess'
  BY <1>1, <1>4, <1>5 DEF SomeSuccess, EngineSuccesses
<1>8. end # "none"
  BY DEF EngineSuccesses, EngineFailures
<1>9. Launched' = Launched
  BY <1>1, <1>4, <1>5, <1>8 DEF Launched
<1>10. EngineSound'
  BY <1>1, <1>3, <1>6, <1>9, RequestFrame DEF EngineSound, ApprovedBeforeEngine, SomeApproved
<1> QED BY <1>1, <1>4, <1>6, <1>7, <1>10, WorldGrows

-----------------------------------------------------------------------------
(* The inductive invariant. *)

\* The inductive invariant holds before the run exists,
LEMMA InitSound == ASSUME Init PROVE DriverInv
<1>1. /\ request = "none" /\ row = Blank /\ overdue = FALSE /\ found = FALSE
      /\ me = [w \in Workers |-> Idle]
      /\ wakes = 0 /\ crashes = 0 /\ faults = 0 /\ dbFaults = 0
      /\ ext = [ticket |-> [t \in TicketIds |-> "none"],
              approval |-> [t \in TicketIds |-> "pending"], tagged |-> {},
              record |-> [given |-> "absent", real |-> "absent"],
              engine |-> [k \in EngineIds |-> "none"],
              incidents |-> 0, docs |-> 0, resolved |-> 0, handovers |-> 0]
  BY DEF Init
<1>2. [given |-> "absent", real |-> "absent"]
        \in [{"given", "real"} -> {"absent", "READY", "DELETED"} \cup InFlightStates]
  OBVIOUS
<1>3. ext \in ExtType
  BY <1>1, <1>2 DEF ExtType
<1>4. TypeOK
  <2>1. overdue \in BOOLEAN /\ found \in BOOLEAN
    BY <1>1
  <2>2. me \in [Workers -> WorkerType] /\ row \in RunType
    BY <1>1, BlankType
  <2>3. wakes \in Nat /\ crashes \in Nat /\ faults \in Nat /\ dbFaults \in Nat
    BY <1>1
  <2>4. request \in Kinds \cup {"none"}
    BY <1>1
  <2> QED BY <1>3, <2>1, <2>2, <2>3, <2>4 DEF TypeOK
<1>5. RowSound
  <2>1. RunSound(Blank)
    BY DriverAssumption DEF RunSound, Blank, NewState
  <2>2. 1 <= VersionBound
    <3>1. 1 \in 1 .. 7 /\ 0 \in 0 .. MaxRetries /\ 0 \in 0 .. MaxPolls
      BY DriverAssumption
    <3>2. VersionBound \in Nat
      BY DriverAssumption DEF VersionBound
    <3> DEFINE n == ((1 - 1) * (MaxRetries + 1) + 0) * (MaxPolls + 1) + 0
    <3>3. n \in Nat /\ n + 2 <= VersionBound
      BY <3>1, RankArithmetic
    <3> HIDE DEF n
    <3> QED BY <3>2, <3>3
  <2>3. Blank.status = "ABSENT" /\ Blank.version = 1
    BY DEF Blank
  <2> QED BY <1>1, <2>1, <2>2, <2>3 DEF RowSound, Active
<1>6. \A w \in Workers : WorkerSound(me[w])
  BY <1>1, IdleSound
<1>7. EngineSound
  <2>1. Launched = {}
    BY <1>1 DEF Launched
  <2> QED BY <2>1 DEF EngineSound, ApprovedBeforeEngine
<1> QED BY <1>1, <1>4, <1>5, <1>6, <1>7 DEF DriverInv

\* and every step keeps it.
LEMMA NextSound == ASSUME DriverInv, [Next]_vars PROVE DriverInv'
<1>1. CASE UNCHANGED vars
  <2>1. UNCHANGED <<request, row, me, ext>> /\ {overdue', found'} \subseteq BOOLEAN
        /\ {wakes', crashes', faults', dbFaults'} \subseteq Nat /\ (found' => wakes' < MaxWakes)
    BY <1>1 DEF vars, DriverInv, TypeOK
  <2> QED BY <2>1, CountersOnly
<1>2. CASE \E kind \in Requests : Trigger(kind)
  BY <1>2, TriggerSound
<1>3. ASSUME NEW w \in Workers, Work(w) \/ SaveRaises(w) \/ Crash(w) PROVE DriverInv'
  BY <1>3, ClaimSound, LoadSound, ExecuteStepSound, EscalateSound, SoundMoveKeeps, SaveSound,
     SaveRaisesSound, CrashSound DEF Work
<1>4. CASE \E t \in TicketIds, answer \in {"approved", "rejected"} : DecideApproval(t, answer)
  BY <1>4, DecideApprovalSound
<1>5. CASE \E k \in EngineIds : FinishEngine(k)
  BY <1>5, FinishEngineSound
<1>6. CASE Elapse \/ Overrun \/ FindRun \/ WakeRun
  BY <1>6, ElapseSound, OverrunSound, FindRunSound, WakeRunSound
<1> QED BY <1>1, <1>2, <1>3, <1>4, <1>5, <1>6 DEF Next

\* However drives overlap, crash and are repeated, the row, every copy of it and
\* the world stay in step: what a worker holds is never newer than the row, has
\* all its progress while it is as new, and stands at a step whose preconditions
\* the world meets.
THEOREM DriverInvariant == Spec => []DriverInv
<1>1. Init => DriverInv
  BY InitSound
<1>2. DriverInv /\ [Next]_vars => DriverInv'
  BY NextSound
<1> QED BY <1>1, <1>2, PTL DEF Spec

\* Every variable keeps its type.
THEOREM DriverTypes == Spec => []TypeOK
<1>1. DriverInv => TypeOK
  BY DEF DriverInv
<1> QED BY <1>1, DriverInvariant, PTL

\* No engine run of a resource request without an approved ticket
\* (AwaitApprovalStep before RunEngineStep).
THEOREM ApprovalComesFirst == Spec => []ApprovedBeforeEngine
<1>1. DriverInv => ApprovedBeforeEngine
  BY DEF DriverInv, EngineSound
<1> QED BY <1>1, DriverInvariant, PTL

\* A COMPLETED run that used the engine had an engine run that succeeded.
THEOREM CompletionIsProvisioned == Spec => []CompletedMeansProvisioned
<1>1. ASSUME DriverInv PROVE CompletedMeansProvisioned
  <2>1. RunSound(row)
    BY <1>1 DEF DriverInv, RowSound
  <2>2. SomeSuccess => \E k \in Launched : ext.engine[k] \in EngineSuccesses
    BY DEF SomeSuccess, Launched, EngineSuccesses
  <2> QED BY <2>1, <2>2 DEF CompletedMeansProvisioned, RunSound
<1> QED BY <1>1, DriverInvariant, PTL

\* At most max_retries + 1 engine runs for a request: engine_run_key is scoped
\* to the attempt.
THEOREM LaunchesAreBounded == Spec => []LaunchesBounded
<1>1. ASSUME DriverInv PROVE LaunchesBounded
  <2>1. Launched \subseteq 1 .. (MaxRetries + 1)
    BY <1>1, DriverAssumption DEF DriverInv, EngineSound, Launched, EngineIds
  <2>2. IsFiniteSet(1 .. (MaxRetries + 1)) /\ Cardinality(1 .. (MaxRetries + 1)) = MaxRetries + 1
    <3>1. 1 \in Int /\ MaxRetries + 1 \in Int /\ ~(1 > MaxRetries + 1)
          /\ (MaxRetries + 1) - 1 + 1 = MaxRetries + 1
      BY DriverAssumption
    <3> QED BY <3>1, FS_Interval
  <2>3. Cardinality(Launched) <= Cardinality(1 .. (MaxRetries + 1))
    BY <2>1, <2>2, FS_Subset
  <2> QED BY <2>2, <2>3 DEF LaunchesBounded
<1> QED BY <1>1, DriverInvariant, PTL

\* A run is saved boundedly often: every save but the last one makes its rank
\* grow.
THEOREM SavesAreBounded == Spec => []SavesBounded
<1>1. DriverInv => SavesBounded
  BY DEF DriverInv, RowSound, SavesBounded
<1> QED BY <1>1, DriverInvariant, PTL
=============================================================================
