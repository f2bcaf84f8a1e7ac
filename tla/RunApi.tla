------------------------------- MODULE RunApi -------------------------------
(***************************************************************************)
(* The HTTP API in front of the stores (api.py, services.py, and the       *)
(* workflow and run repositories of adapters/database.py): operators       *)
(* register and update workflows while callers trigger runs of them.       *)
(*                                                                         *)
(* A request is served by a coroutine that gives way at every database     *)
(* call. An update reads the row and writes it in a second statement,      *)
(* with the columns it found changed; a trigger reads the registration,    *)
(* builds the run from it and inserts it later. What RunStore and          *)
(* RunDriver trigger are the runs created here.                            *)
(*                                                                         *)
(* Runs are numbered in the order they are built, which is the order of    *)
(* their created_at: WorkflowRun dates itself when it is built, before the *)
(* insert.                                                                 *)
(***************************************************************************)
EXTENDS Naturals

CONSTANTS
    Clients,        \* the requests the API serves at a time
    Identifiers,    \* workflow identifiers
    Names,          \* automation ids and ticket template ids
    Flows,          \* the flow types of legacy requests
    Offered,        \* the registrations operators ask for
    Records,        \* the resource manager's ids of its records
    None,           \* what is not there
    MaxRuns         \* bound: runs built

RunTypes    == {"AUTOMATION", "RESOURCE", "LEGACY"}
EngineTypes == {"AIRFLOW", "LEGACY"}
Operations  == {"CREATE", "UPDATE", "DELETE"}

\* The editable columns of a Workflow row.
Registration == [run_type : RunTypes, engine_type : EngineTypes,
                 automation_id : Names, ticket_template_id : Names]

RunIds == 1..MaxRuns

\* ResourceSpec: is it keyed by a vendor id, and which record does it name?
Resource == [vendor : BOOLEAN, resource_id : Records \cup {None}]

\* A run as trigger builds it. resolved is the registration it snapshots.
Run == [run_type : RunTypes, workflow : Identifiers \cup {None}, resolved : Registration,
        operation : Operations, resource : Resource \cup {None}, ticket : BOOLEAN,
        legacy : BOOLEAN]

ASSUME ApiAssumption ==
    /\ Offered \subseteq Registration
    /\ Flows \subseteq Names
    /\ MaxRuns \in Nat
    /\ None \notin Registration
    /\ None \notin Identifiers
    /\ None \notin Records
    /\ None \notin Resource
    /\ None \notin Run
    /\ None \notin RunIds

\* WorkflowRunTriggerRequest.
Request == [workflow : Identifiers, operation : Operations, ticket : BOOLEAN,
            resource : Resource \cup {None}]

VARIABLES
    workflows,  \* workflows[i]: the registration under i, or None
    asked,      \* history: every registration an operator asked for under i
    overlapped, \* history: the workflows of which two updates were under way at once
    call,       \* call[c]: the request c is serving
    runs,       \* runs[r]: the committed run r, or None
    built       \* how many runs have been built

vars == <<workflows, asked, overlapped, call, runs, built>>

\* "updating": between the SELECT and the UPDATE of a PUT;
\* "creating": the run is built and not yet inserted.
Idle == [pc |-> "idle", workflow |-> None, wants |-> None, loaded |-> None,
         id |-> 0, run |-> None]

Calls == [pc : {"idle", "updating", "creating"}, workflow : Identifiers \cup {None},
          wants : Registration \cup {None}, loaded : Registration \cup {None},
          id : Nat, run : Run \cup {None}]

TypeOK ==
    /\ workflows \in [Identifiers -> Registration \cup {None}]
    /\ asked \in [Identifiers -> SUBSET Registration]
    /\ overlapped \subseteq Identifiers
    /\ call \in [Clients -> Calls]
    /\ runs \in [RunIds -> Run \cup {None}]
    /\ built \in 0..MaxRuns

Init ==
    /\ workflows = [i \in Identifiers |-> None]
    /\ asked = [i \in Identifiers |-> {}]
    /\ overlapped = {}
    /\ call = [c \in Clients |-> Idle]
    /\ runs = [r \in RunIds |-> None]
    /\ built = 0

-----------------------------------------------------------------------------
(* The registry. A request that is refused (409, 404, 422) changes nothing. *)

\* register: the unique identifier makes the insert one step; a second
\* registration is a 409.
Register(i, reg) ==
    /\ workflows[i] = None
    /\ workflows' = [workflows EXCEPT ![i] = reg]
    /\ asked' = [asked EXCEPT ![i] = @ \cup {reg}]
    /\ UNCHANGED <<overlapped, call, runs, built>>

Updating(i) == {c \in Clients : call[c].pc = "updating" /\ call[c].workflow = i}

\* update, up to the row it loads; an unknown identifier is a 404. Nothing is
\* locked: others may load the row, and write it, before this update does.
BeginUpdate(c, i, reg) ==
    /\ call[c].pc = "idle"
    /\ workflows[i] # None
    /\ call' = [call EXCEPT ![c] = [Idle EXCEPT !.pc = "updating", !.workflow = i,
                                                !.wants = reg, !.loaded = workflows[i]]]
    /\ asked' = [asked EXCEPT ![i] = @ \cup {reg}]
    /\ overlapped' = overlapped \cup {j \in {i} : Updating(j) # {}}
    /\ UNCHANGED <<workflows, runs, built>>

\* Mutant: the update forgets the template.
ExceptTemplate(now, loaded, wants) ==
    [wants EXCEPT !.ticket_template_id = now.ticket_template_id]
\* The UPDATE sets the columns whose value differs from the one loaded.
Changed(now, loaded, wants) ==
    [col \in DOMAIN wants |-> IF wants[col] # loaded[col] THEN wants[col] ELSE now[col]]

FinishUpdate(c) ==
    LET i == call[c].workflow
    IN  /\ call[c].pc = "updating"
        /\ workflows' = [workflows EXCEPT ![i] = Changed(@, call[c].loaded, call[c].wants)]
        /\ call' = [call EXCEPT ![c] = Idle]
        /\ UNCHANGED <<asked, overlapped, runs, built>>

-----------------------------------------------------------------------------
(* Triggers. *)

\* Mutant: the checks of a resource are those of a CREATE.
ValidAsCreate(reg, q) ==
    /\ reg.run_type = "RESOURCE" => q.resource # None
    /\ reg.run_type = "AUTOMATION" => q.ticket

\* What trigger refuses with a 422: a resource run without its resource, an
\* update or delete that names no record, an automation run without a ticket.
Valid(reg, q) ==
    /\ reg.run_type = "RESOURCE" =>
          /\ q.resource # None
          /\ q.operation # "CREATE" => q.resource.vendor /\ q.resource.resource_id # None
    /\ reg.run_type = "AUTOMATION" => q.ticket

\* The run keeps what belongs to its type and drops the rest.
Built(i, reg, q) ==
    [run_type |-> reg.run_type, workflow |-> i, resolved |-> reg, operation |-> q.operation,
     resource |-> IF reg.run_type = "RESOURCE" THEN q.resource ELSE None,
     ticket |-> q.ticket /\ reg.run_type = "AUTOMATION", legacy |-> FALSE]

\* trigger_legacy looks nothing up: the flow is its own registration.
LegacyRun(flow) ==
    [run_type |-> "LEGACY", workflow |-> None,
     resolved |-> [run_type |-> "LEGACY", engine_type |-> "LEGACY",
                   automation_id |-> flow, ticket_template_id |-> flow],
     operation |-> "CREATE", resource |-> None, ticket |-> FALSE, legacy |-> TRUE]

\* c goes on to insert run, which dates itself now.
Build(c, run) ==
    /\ call[c].pc = "idle"
    /\ built < MaxRuns
    /\ built' = built + 1
    /\ call' = [call EXCEPT ![c] = [Idle EXCEPT !.pc = "creating", !.id = built + 1,
                                                !.run = run]]
    /\ UNCHANGED <<workflows, asked, overlapped, runs>>

\* trigger, up to the insert: one read of the registry decides everything.
Trigger(c, q) ==
    /\ workflows[q.workflow] # None
    /\ Valid(workflows[q.workflow], q)
    /\ Build(c, Built(q.workflow, workflows[q.workflow], q))

TriggerLegacy(c) == \E flow \in Flows : Build(c, LegacyRun(flow))

\* Mutant: the run type is read again when the run is inserted.
RunTypeReread(c) ==
    LET reg == workflows[call[c].run.workflow]
    IN  IF call[c].run.workflow = None \/ reg = None THEN call[c].run
        ELSE [call[c].run EXCEPT !.run_type = reg.run_type, !.resolved.run_type = reg.run_type]
Inserted(c) == call[c].run

\* runs.create commits.
Create(c) ==
    /\ call[c].pc = "creating"
    /\ runs' = [runs EXCEPT ![call[c].id] = Inserted(c)]
    /\ call' = [call EXCEPT ![c] = Idle]
    /\ UNCHANGED <<workflows, asked, overlapped, built>>

\* The statement raises or the API process dies: the request changed nothing.
Abort(c) ==
    /\ call[c].pc # "idle"
    /\ call' = [call EXCEPT ![c] = Idle]
    /\ UNCHANGED <<workflows, asked, overlapped, runs, built>>

-----------------------------------------------------------------------------
(* The daemon. *)

Committed == {r \in RunIds : runs[r] # None}

AwaitsRecord(r) ==
    /\ runs[r] # None
    /\ runs[r].resource # None
    /\ runs[r].operation = "CREATE"
    /\ runs[r].resource.resource_id = None

\* The record that create_resource made for r, saved by the drive of r. Other
\* callers may have seen the record, and triggered runs on it, before.
SaveRecord(r, rec) ==
    /\ AwaitsRecord(r)
    /\ \A s \in Committed : runs[s].resource # None /\ runs[s].operation = "CREATE"
                                => runs[s].resource.resource_id # rec
    /\ runs' = [runs EXCEPT ![r].resource = [vendor |-> TRUE, resource_id |-> rec]]
    /\ UNCHANGED <<workflows, asked, overlapped, call, built>>

-----------------------------------------------------------------------------
\* What callers send: a ticket or nothing, a resource to update or delete, named
\* well or not, or the resource of a CREATE, whose ids are left to the run.
Requests == {q \in Request :
                \/ q.resource = None /\ q.operation = "CREATE"
                \/ q.resource # None /\ ~q.ticket /\ q.operation # "CREATE"
                \/ q.resource = [vendor |-> FALSE, resource_id |-> None] /\ q.operation = "CREATE"}

Serve(c) ==
    \/ \E i \in Identifiers, reg \in Offered : BeginUpdate(c, i, reg)
    \/ FinishUpdate(c)
    \/ \E q \in Requests : Trigger(c, q)
    \/ TriggerLegacy(c)
    \/ Create(c)
    \/ Abort(c)

Next ==
    \/ \E i \in Identifiers, reg \in Offered : Register(i, reg)
    \/ \E c \in Clients : Serve(c)
    \/ \E r \in RunIds, rec \in Records : SaveRecord(r, rec)

Spec == Init /\ [][Next]_vars

-----------------------------------------------------------------------------
(* Properties. *)

\* What the row of i may hold: columns that operators asked for, and, unless two
\* updates of it were under way at once, all of them in one request.
FromOperators(i, reg) ==
    /\ \A col \in DOMAIN reg : \E a \in asked[i] : a[col] = reg[col]
    /\ i \notin overlapped => reg \in asked[i]

\* A run as its workflow's row makes it.
AsRegistered(run) ==
    run.workflow # None =>
        FromOperators(run.workflow, run.resolved) /\ run.run_type = run.resolved.run_type

\* A run is built from one registration that an operator asked for as a whole,
\* although the registry is read and the run inserted in different
\* transactions and updates write column by column without a lock. Only updates
\* that overlap can mix what they write, and then each column is still one that
\* some operator asked for.
RunsAsRegistered ==
    \A r \in Committed : AsRegistered(runs[r])

\* What the handlers of a run's plan look up and assert to be there: the engine
\* client (RunEngineStep), the resource and its key (ConfigureResourceStep,
\* ValidateResourceStep), the ticket (CloseTicketStep) and the legacy request
\* (SubmitLegacyStep).
Engines == {"AIRFLOW"}

Drivable(run) ==
    /\ run.run_type = "RESOURCE" =>
          run.resource # None /\ (run.operation # "CREATE" => run.resource.vendor)
    /\ run.run_type = "AUTOMATION" => run.ticket
    /\ run.run_type = "LEGACY" => run.legacy
    /\ run.run_type # "LEGACY" => run.resolved.engine_type \in Engines

\* Every run that is created can be driven: none is accepted that its own steps
\* then trip over, also when the workflow changes type while it is triggered.
EveryRunCanBeDriven == \A r \in Committed : Drivable(runs[r])

\* A registration that the triggers' validation covers: one of the two run types
\* the registry is documented to hold, on an engine there is a client for.
Runnable(reg) == reg.run_type # "LEGACY" /\ reg.engine_type \in Engines

\* What an update under way holds: registrations of its workflow, and unless
\* another one overlaps with it the row it has loaded is still what stands.
UpdateHolds(c) ==
    LET i == call[c].workflow
    IN  /\ i \in Identifiers
        /\ call[c].wants \in asked[i]
        /\ call[c].loaded \in Registration
        /\ workflows[i] # None
        /\ i \notin overlapped => call[c].loaded = workflows[i] /\ Updating(i) = {c}

\* The inductive invariant behind RunsAsRegistered.
ApiInv ==
    /\ TypeOK
    /\ \A i \in Identifiers :
          asked[i] \subseteq Offered /\ (workflows[i] # None => FromOperators(i, workflows[i]))
    /\ \A c \in Clients :
          /\ call[c].pc = "updating" => UpdateHolds(c)
          /\ call[c].pc = "creating" =>
                call[c].id \in RunIds /\ call[c].run # None /\ AsRegistered(call[c].run)
    /\ RunsAsRegistered
=============================================================================
