---------------------------- MODULE RunApiProofs ----------------------------
(***************************************************************************)
(* What holds of every run the API creates, and of what a portal is told   *)
(* about them, for any number of requests served at a time, workflows,     *)
(* registrations, runs and records, and for lists of any length.           *)
(***************************************************************************)
EXTENDS RunLookups, TLAPS, FiniteSetTheorems, WellFoundedInduction

\* Nothing is registered, asked for or built at first.
LEMMA InitApiInv == Init => ApiInv
<1> SUFFICES ASSUME Init PROVE ApiInv
  OBVIOUS
<1>1. Idle \in Calls
  BY DEF Idle, Calls
<1>2. TypeOK
  BY <1>1, ApiAssumption DEF Init, TypeOK
<1>3. \A c \in Clients : call[c].pc = "idle"
  BY DEF Init, Idle
<1>4. Committed = {}
  BY DEF Init, Committed
<1>5. QED
  BY <1>2, <1>3, <1>4 DEF Init, ApiInv, RunsAsRegistered

-----------------------------------------------------------------------------
(* What an update makes of a row. *)

Columns == {"run_type", "engine_type", "automation_id", "ticket_template_id"}

\* A registration has these columns.
LEMMA ColumnsOf ==
    ASSUME NEW reg \in Registration
    PROVE  DOMAIN reg = Columns
BY DEF Registration, Columns

\* Columns of two registrations make a registration, each from one of the two.
LEMMA ChangedIsRegistration ==
    ASSUME NEW now \in Registration, NEW loaded \in Registration, NEW wants \in Registration
    PROVE  /\ Changed(now, loaded, wants) \in Registration
           /\ \A col \in Columns : Changed(now, loaded, wants)[col] \in {wants[col], now[col]}
<1>1. Changed(now, loaded, wants) \in Registration
  BY DEF Changed, Registration
<1>2. DOMAIN wants = Columns
  BY ColumnsOf
<1>3. QED
  BY <1>1, <1>2 DEF Changed

\* An update whose row nobody changed meanwhile writes what was asked for.
LEMMA ChangedIsWanted ==
    ASSUME NEW now \in Registration, NEW wants \in Registration
    PROVE  Changed(now, now, wants) = wants
BY DEF Changed, Registration

\* What operators asked for stays asked for, and updates that overlapped did.
LEMMA FromOperatorsGrows ==
    ASSUME NEW i, NEW reg, FromOperators(i, reg),
           asked[i] \subseteq asked'[i], overlapped \subseteq overlapped'
    PROVE  FromOperators(i, reg)'
BY DEF FromOperators

\* So a run that is as registered stays so.
LEMMA AsRegisteredGrows ==
    ASSUME NEW run \in Run, AsRegistered(run), overlapped \subseteq overlapped',
           \A i \in Identifiers : asked[i] \subseteq asked'[i]
    PROVE  AsRegistered(run)'
<1>1. CASE run.workflow = None
  BY <1>1 DEF AsRegistered
<1>2. CASE run.workflow # None
  <2>1. run.workflow \in Identifiers
    BY <1>2 DEF Run
  <2>2. FromOperators(run.workflow, run.resolved)'
    BY <1>2, <2>1, FromOperatorsGrows DEF AsRegistered
  <2>3. QED BY <1>2, <2>2 DEF AsRegistered
<1>3. QED BY <1>1, <1>2

-----------------------------------------------------------------------------
(* The parts of the invariant. *)

Registered ==
    \A i \in Identifiers :
        asked[i] \subseteq Offered /\ (workflows[i] # None => FromOperators(i, workflows[i]))

\* What a request that is about to insert a run holds.
Creates(c) ==
    call[c].pc = "creating" =>
        call[c].id \in RunIds /\ call[c].run # None /\ AsRegistered(call[c].run)

Updates(c) == call[c].pc = "updating" => UpdateHolds(c)

\* The invariant is kept by a step after which no run is there that was not
\* there or about to be inserted, if it keeps the registry's part.
LEMMA KeepsApiInv ==
    ASSUME ApiInv, TypeOK', Registered', \A c \in Clients : Updates(c)',
           \A i \in Identifiers : asked[i] \subseteq asked'[i],
           overlapped \subseteq overlapped',
           \A c \in Clients : call'[c] = call[c] \/ Creates(c)',
           \A r \in RunIds : runs'[r] # None => runs'[r] = runs[r] \/ AsRegistered(runs'[r])
    PROVE  ApiInv'
<1>1. /\ TypeOK
      /\ \A c \in Clients : Creates(c)
      /\ \A r \in RunIds : runs[r] # None => AsRegistered(runs[r])
  BY DEF ApiInv, Creates, Committed, RunsAsRegistered
<1>2. ASSUME NEW c \in Clients
      PROVE  Creates(c)'
  <2>1. CASE call'[c] = call[c] /\ call[c].pc = "creating"
    <3>1. call[c].run \in Run /\ AsRegistered(call[c].run)
      BY <1>1, <2>1 DEF TypeOK, Calls, Creates
    <3>2. PICK run \in Run : run = call[c].run
      BY <3>1
    <3>3. AsRegistered(run)'
      BY <3>1, <3>2, AsRegisteredGrows
    <3>4. call[c].id \in RunIds /\ run # None /\ call'[c].run = run
      BY <1>1, <2>1, <3>2 DEF Creates
    <3>5. QED BY <2>1, <3>3, <3>4 DEF Creates, AsRegistered, FromOperators
  <2>2. CASE call'[c] = call[c] /\ call[c].pc # "creating"
    BY <2>2 DEF Creates
  <2>3. QED BY <2>1, <2>2
<1>3. ASSUME NEW r \in RunIds, runs'[r] # None
      PROVE  AsRegistered(runs[r])'
  <2>1. runs'[r] \in Run
    BY <1>3 DEF TypeOK
  <2>2. PICK run \in Run : run = runs'[r]
    BY <2>1
  <2>3. AsRegistered(run)
    BY <1>1, <1>3, <2>2
  <2>4. AsRegistered(run)'
    BY <2>3, AsRegisteredGrows
  <2>5. QED BY <2>2, <2>4 DEF AsRegistered, FromOperators
<1>4. QED
  BY <1>2, <1>3 DEF ApiInv, Registered, Creates, Updates, Committed, RunsAsRegistered

\* What an update under way holds is kept by a step of others that leaves its
\* row there, and leaves the row and the update alone with each other unless
\* updates of the row overlap.
LEMMA UpdateKept ==
    ASSUME NEW d \in Clients, Updates(d), call'[d] = call[d],
           \A i \in Identifiers : asked[i] \subseteq asked'[i],
           call[d].pc = "updating" =>
              /\ workflows'[call[d].workflow] # None
              /\ call[d].workflow \notin overlapped' =>
                    /\ call[d].workflow \notin overlapped
                    /\ workflows'[call[d].workflow] = workflows[call[d].workflow]
                    /\ Updating(call[d].workflow) = {d} => Updating(call[d].workflow)' = {d}
    PROVE  Updates(d)'
<1> SUFFICES ASSUME call[d].pc = "updating" PROVE UpdateHolds(d)'
  BY DEF Updates
<1>1. PICK i : i = call[d].workflow
  OBVIOUS
<1>2. /\ i \in Identifiers /\ call[d].wants \in asked[i] /\ call[d].loaded \in Registration
      /\ i \notin overlapped => call[d].loaded = workflows[i] /\ Updating(i) = {d}
  BY <1>1 DEF Updates, UpdateHolds
<1>3. i \notin overlapped' =>
         call[d].loaded = workflows'[i] /\ Updating(i)' = {d}
  BY <1>1, <1>2 DEF Updating
<1>4. QED
  BY <1>1, <1>2, <1>3 DEF UpdateHolds, Updating

\* Every step keeps the invariant, whatever operators ask for and however their
\* updates overlap.
LEMMA NextApiInv ==
    ASSUME ApiInv, [Next]_vars
    PROVE  ApiInv'
<1>0. /\ TypeOK /\ Registered
      /\ \A c \in Clients : Creates(c) /\ Updates(c)
      /\ Offered \subseteq Registration
      /\ None \notin Registration /\ None \notin Identifiers
  BY ApiAssumption DEF ApiInv, Registered, Creates, Updates
<1>1. Idle \in Calls /\ Idle.pc = "idle"
  BY DEF Idle, Calls
<1>2. ASSUME NEW i \in Identifiers, NEW reg \in Offered, Register(i, reg)
      PROVE  ApiInv'
  <2>1. TypeOK'
    BY <1>0, <1>2 DEF TypeOK, Register
  <2>2. \A j \in Identifiers : asked[j] \subseteq asked'[j]
    BY <1>0, <1>2 DEF TypeOK, Register
  <2>3. Registered'
    <3>1. ASSUME NEW j \in Identifiers
          PROVE  (asked[j] \subseteq Offered /\ (workflows[j] # None => FromOperators(j, workflows[j])))'
      <4>1. CASE j = i
        <5>1. workflows'[i] = reg /\ asked'[i] = asked[i] \cup {reg}
          BY <1>0, <1>2 DEF TypeOK, Register
        <5>2. QED BY <1>0, <4>1, <5>1 DEF Registered, FromOperators
      <4>2. CASE j # i
        <5>1. workflows'[j] = workflows[j] /\ asked'[j] = asked[j] /\ overlapped' = overlapped
          BY <1>0, <1>2, <4>2 DEF TypeOK, Register
        <5>2. QED BY <1>0, <5>1 DEF Registered, FromOperators
      <4>3. QED BY <4>1, <4>2
    <3>2. QED BY <3>1 DEF Registered
  <2>4. ASSUME NEW d \in Clients
        PROVE  Updates(d)'
    <3>1. call[d].pc = "updating" => call[d].workflow # i /\ workflows[call[d].workflow] # None
      BY <1>0, <1>2 DEF Register, Updates, UpdateHolds
    <3>2. call[d].pc = "updating" => workflows'[call[d].workflow] = workflows[call[d].workflow]
      BY <1>0, <1>2, <3>1 DEF TypeOK, Register, Updates, UpdateHolds
    <3>3. call' = call /\ overlapped' = overlapped
      BY <1>2 DEF Register
    <3>4. \A j : Updating(j)' = Updating(j)
      BY <3>3 DEF Updating
    <3>5. QED BY <1>0, <2>2, <3>1, <3>2, <3>3, <3>4, UpdateKept
  <2>5. QED BY <1>2, <2>1, <2>2, <2>3, <2>4, KeepsApiInv DEF Register
<1>3. ASSUME NEW c \in Clients, NEW i \in Identifiers, NEW reg \in Offered, BeginUpdate(c, i, reg)
      PROVE  ApiInv'
  <2>1. PICK started : started = [Idle EXCEPT !.pc = "updating", !.workflow = i,
                                              !.wants = reg, !.loaded = workflows[i]]
    OBVIOUS
  <2>2. workflows[i] \in Registration /\ workflows[i] # None
    BY <1>0, <1>3 DEF TypeOK, BeginUpdate
  <2>3. /\ started \in Calls /\ started.pc = "updating" /\ started.workflow = i
        /\ started.wants = reg /\ started.loaded = workflows[i]
    BY <1>0, <2>1, <2>2 DEF Idle, Calls
  <2>4. /\ call' = [call EXCEPT ![c] = started] /\ UNCHANGED <<workflows, runs, built>>
        /\ asked' = [asked EXCEPT ![i] = @ \cup {reg}]
        /\ overlapped' = overlapped \cup {j \in {i} : Updating(j) # {}}
        /\ call[c].pc = "idle"
    BY <1>3, <2>1 DEF BeginUpdate
  <2>5. call'[c] = started /\ \A d \in Clients \ {c} : call'[d] = call[d]
    BY <1>0, <2>4 DEF TypeOK
  <2>6. TypeOK'
    BY <1>0, <2>3, <2>4 DEF TypeOK
  <2>7. /\ \A j \in Identifiers : asked[j] \subseteq asked'[j] /\ asked'[j] \subseteq asked[j] \cup {reg}
        /\ reg \in asked'[i]
    BY <1>0, <2>4 DEF TypeOK
  <2>8. overlapped \subseteq overlapped' /\ (Updating(i) # {} => i \in overlapped')
    BY <2>4
  <2>9. Registered'
    <3>1. ASSUME NEW j \in Identifiers
          PROVE  (asked[j] \subseteq Offered /\ (workflows[j] # None => FromOperators(j, workflows[j])))'
      <4>1. PICK row : row = workflows[j]
        OBVIOUS
      <4>2. row # None => FromOperators(j, row)
        BY <1>0, <4>1 DEF Registered
      <4>3. row # None => FromOperators(j, row)'
        BY <4>2, <2>7, <2>8, FromOperatorsGrows
      <4>4. asked'[j] \subseteq Offered /\ workflows'[j] = row
        BY <1>0, <2>4, <2>7, <4>1 DEF Registered
      <4>5. QED BY <4>3, <4>4 DEF FromOperators
    <3>2. QED BY <3>1 DEF Registered
  <2>10. ASSUME NEW d \in Clients
         PROVE  Updates(d)'
    <3>1. CASE d = c
      <4>1. i \notin overlapped' => Updating(i)' = {c}
        BY <2>3, <2>5, <2>8 DEF Updating
      <4>2. UpdateHolds(c)'
        BY <2>2, <2>3, <2>4, <2>5, <2>7, <4>1 DEF UpdateHolds, Updating
      <4>3. QED BY <3>1, <4>2 DEF Updates
    <3>2. CASE d # c
      <4>1. call'[d] = call[d] /\ Updates(d)
        BY <1>0, <2>5, <3>2
      <4>2. call[d].pc = "updating" /\ call[d].workflow = i => i \in overlapped'
        BY <2>8 DEF Updating
      <4>3. \A j : j # i => Updating(j)' = Updating(j)
        BY <2>3, <2>4, <2>5 DEF Updating
      <4>4. call[d].pc = "updating" => workflows'[call[d].workflow] # None
        BY <4>1, <2>4 DEF Updates, UpdateHolds
      <4>5. QED BY <4>1, <4>2, <4>3, <4>4, <2>4, <2>7, <2>8, UpdateKept
    <3>3. QED BY <3>1, <3>2
  <2>11. Creates(c)'
    BY <2>3, <2>5 DEF Creates
  <2>12. QED BY <2>4, <2>5, <2>6, <2>7, <2>8, <2>9, <2>10, <2>11, KeepsApiInv
<1>4. ASSUME NEW c \in Clients, call' = [call EXCEPT ![c] = Idle],
             UNCHANGED <<workflows, asked, overlapped>>
      PROVE  /\ \A d \in Clients : Updates(d)'
             /\ Registered' /\ Creates(c)' /\ call' \in [Clients -> Calls]
             /\ \A d \in Clients \ {c} : call'[d] = call[d]
  <2>1. call'[c] = Idle /\ \A d \in Clients \ {c} : call'[d] = call[d]
    BY <1>0, <1>4 DEF TypeOK
  <2>2. \A i : Updating(i)' = Updating(i) \ {c}
    BY <1>1, <2>1 DEF Updating
  <2>3. ASSUME NEW d \in Clients
        PROVE  Updates(d)'
    <3>1. CASE d = c
      BY <1>1, <2>1, <3>1 DEF Updates
    <3>2. CASE d # c
      <4>1. call'[d] = call[d] /\ Updates(d)
        BY <1>0, <2>1, <3>2
      <4>2. call[d].pc = "updating" => workflows'[call[d].workflow] # None
        BY <4>1, <1>4 DEF Updates, UpdateHolds
      <4>3. \A i : Updating(i) = {d} => Updating(i)' = {d}
        BY <2>2, <3>2
      <4>4. QED BY <4>1, <4>2, <4>3, <1>4, UpdateKept
    <3>3. QED BY <3>1, <3>2
  <2>4. Registered'
    BY <1>0, <1>4 DEF Registered, FromOperators
  <2>5. QED BY <1>0, <1>1, <1>4, <2>1, <2>3, <2>4 DEF Creates, TypeOK
<1>5. ASSUME NEW c \in Clients, Abort(c)
      PROVE  ApiInv'
  <2>1. /\ call' = [call EXCEPT ![c] = Idle]
        /\ UNCHANGED <<workflows, asked, overlapped>> /\ UNCHANGED <<runs, built>>
    BY <1>5 DEF Abort
  <2>2. /\ \A d \in Clients : Updates(d)'
        /\ Registered' /\ Creates(c)' /\ call' \in [Clients -> Calls]
        /\ \A d \in Clients \ {c} : call'[d] = call[d]
    BY <1>4, <2>1
  <2>3. TypeOK'
    BY <1>0, <2>1, <2>2 DEF TypeOK
  <2>4. QED BY <2>1, <2>2, <2>3, KeepsApiInv
<1>6. ASSUME NEW c \in Clients, Create(c)
      PROVE  ApiInv'
  <2>1. call[c].id \in RunIds /\ call[c].run \in Run /\ AsRegistered(call[c].run)
    BY <1>0, <1>6 DEF TypeOK, Calls, Creates, Create
  <2>2. /\ call' = [call EXCEPT ![c] = Idle]
        /\ UNCHANGED <<workflows, asked, overlapped>> /\ built' = built
        /\ runs' = [runs EXCEPT ![call[c].id] = call[c].run]
    BY <1>6 DEF Create, Inserted
  <2>3. /\ \A d \in Clients : Updates(d)'
        /\ Registered' /\ Creates(c)' /\ call' \in [Clients -> Calls]
        /\ \A d \in Clients \ {c} : call'[d] = call[d]
    BY <1>4, <2>2
  <2>4. TypeOK'
    BY <1>0, <2>1, <2>2, <2>3 DEF TypeOK
  <2>5. \A r \in RunIds : runs'[r] = IF r = call[c].id THEN call[c].run ELSE runs[r]
    BY <1>0, <2>1, <2>2 DEF TypeOK
  <2>6. QED BY <2>1, <2>2, <2>3, <2>4, <2>5, KeepsApiInv
<1>7. ASSUME NEW c \in Clients, FinishUpdate(c)
      PROVE  ApiInv'
  <2>1. PICK i, wants, loaded, now :
           i = call[c].workflow /\ wants = call[c].wants /\ loaded = call[c].loaded
           /\ now = workflows[i]
    OBVIOUS
  <2>2. PICK new : new = Changed(now, loaded, wants)
    OBVIOUS
  <2>3. /\ i \in Identifiers /\ wants \in asked[i] /\ loaded \in Registration /\ now # None
        /\ i \notin overlapped => loaded = now /\ Updating(i) = {c}
    BY <1>0, <1>7, <2>1 DEF Updates, UpdateHolds, FinishUpdate
  <2>4. wants \in Registration /\ now \in Registration /\ FromOperators(i, now)
    BY <1>0, <2>1, <2>3 DEF Registered, TypeOK
  <2>5. new \in Registration /\ \A col \in Columns : new[col] \in {wants[col], now[col]}
    BY <2>2, <2>3, <2>4, ChangedIsRegistration
  <2>6. FromOperators(i, new)
    <3>1. DOMAIN new = Columns /\ DOMAIN now = Columns
      BY <2>4, <2>5, ColumnsOf
    <3>2. \A col \in Columns : \E a \in asked[i] : a[col] = new[col]
      BY <2>3, <2>4, <2>5, <3>1 DEF FromOperators
    <3>3. i \notin overlapped => new = wants
      BY <2>2, <2>3, <2>4, ChangedIsWanted
    <3>4. QED BY <2>3, <3>1, <3>2, <3>3 DEF FromOperators
  <2>7. /\ workflows' = [workflows EXCEPT ![i] = new] /\ call' = [call EXCEPT ![c] = Idle]
        /\ UNCHANGED <<asked, overlapped, runs, built>>
    BY <1>7, <2>1, <2>2 DEF FinishUpdate
  <2>8. call'[c] = Idle /\ \A d \in Clients \ {c} : call'[d] = call[d]
    BY <1>0, <2>7 DEF TypeOK
  <2>9. TypeOK'
    BY <1>0, <1>1, <2>3, <2>5, <2>7 DEF TypeOK
  <2>10. \A j \in Identifiers : workflows'[j] = IF j = i THEN new ELSE workflows[j]
    BY <1>0, <2>3, <2>7 DEF TypeOK
  <2>11. Registered'
    <3>1. ASSUME NEW j \in Identifiers
          PROVE  (asked[j] \subseteq Offered /\ (workflows[j] # None => FromOperators(j, workflows[j])))'
      BY <1>0, <2>6, <2>7, <2>10 DEF Registered, FromOperators
    <3>2. QED BY <3>1 DEF Registered
  <2>12. ASSUME NEW d \in Clients
         PROVE  Updates(d)'
    <3>1. CASE d = c
      BY <1>1, <2>8, <3>1 DEF Updates
    <3>2. CASE d # c
      <4>1. call'[d] = call[d] /\ Updates(d)
        BY <1>0, <2>8, <3>2
      <4>2. \A j : Updating(j)' = Updating(j) \ {c}
        BY <1>1, <2>8 DEF Updating
      <4>3. call[d].pc = "updating" /\ call[d].workflow = i => i \in overlapped
        BY <2>3, <3>2 DEF Updating
      <4>4. call[d].pc = "updating" =>
               call[d].workflow \in Identifiers /\ workflows[call[d].workflow] # None
        BY <4>1 DEF Updates, UpdateHolds
      <4>5. new # None
        BY <1>0, <2>5
      <4>6. call[d].pc = "updating" =>
               /\ workflows'[call[d].workflow] # None
               /\ call[d].workflow # i =>
                     workflows'[call[d].workflow] = workflows[call[d].workflow]
        BY <2>10, <4>4, <4>5
      <4>7. QED BY <4>1, <4>2, <4>3, <4>6, <2>7, <3>2, UpdateKept
    <3>3. QED BY <3>1, <3>2
  <2>13. Creates(c)'
    BY <1>1, <2>8 DEF Creates
  <2>14. QED BY <2>7, <2>8, <2>9, <2>11, <2>12, <2>13, KeepsApiInv
<1>8. ASSUME NEW c \in Clients, NEW run \in Run, AsRegistered(run), Build(c, run)
      PROVE  ApiInv'
  <2>1. PICK started : started = [Idle EXCEPT !.pc = "creating", !.id = built + 1, !.run = run]
    OBVIOUS
  <2>2. built + 1 \in RunIds /\ built' \in 0..MaxRuns /\ built + 1 \in Nat
    BY <1>0, <1>8, ApiAssumption DEF TypeOK, Build, RunIds
  <2>3. run # None
    BY ApiAssumption
  <2>4. /\ started \in Calls /\ started.pc = "creating" /\ started.id = built + 1
        /\ started.run = run
    BY <2>1, <2>2 DEF Idle, Calls
  <2>5. /\ call' = [call EXCEPT ![c] = started] /\ UNCHANGED <<workflows, asked, overlapped, runs>>
        /\ call[c].pc = "idle"
    BY <1>8, <2>1 DEF Build
  <2>6. call'[c] = started /\ \A d \in Clients \ {c} : call'[d] = call[d]
    BY <1>0, <2>5 DEF TypeOK
  <2>7. TypeOK'
    BY <1>0, <2>2, <2>4, <2>5 DEF TypeOK
  <2>8. Registered'
    BY <1>0, <2>5 DEF Registered, FromOperators
  <2>9. ASSUME NEW d \in Clients
        PROVE  Updates(d)'
    <3>1. CASE d = c
      BY <2>4, <2>6, <3>1 DEF Updates
    <3>2. CASE d # c
      <4>1. call'[d] = call[d] /\ Updates(d)
        BY <1>0, <2>6, <3>2
      <4>2. \A j : Updating(j)' = Updating(j)
        BY <2>4, <2>5, <2>6 DEF Updating
      <4>3. call[d].pc = "updating" => workflows'[call[d].workflow] # None
        BY <4>1, <2>5 DEF Updates, UpdateHolds
      <4>4. QED BY <4>1, <4>2, <4>3, <2>5, UpdateKept
    <3>3. QED BY <3>1, <3>2
  <2>10. Creates(c)'
    BY <1>8, <2>2, <2>3, <2>4, <2>5, <2>6 DEF Creates, AsRegistered, FromOperators, RunIds
  <2>11. QED BY <2>5, <2>6, <2>7, <2>8, <2>9, <2>10, KeepsApiInv
<1>9. ASSUME NEW c \in Clients, NEW q \in Requests, Trigger(c, q)
      PROVE  ApiInv'
  <2>1. q \in Request /\ q.workflow \in Identifiers
    BY DEF Requests, Request
  <2>2. PICK i, reg : i = q.workflow /\ reg = workflows[i]
    OBVIOUS
  <2>3. i \in Identifiers /\ reg \in Registration /\ FromOperators(i, reg)
    BY <1>0, <1>9, <2>1, <2>2 DEF Trigger, Registered, TypeOK
  <2>4. Built(i, reg, q) \in Run
    BY <2>1, <2>3 DEF Built, Run, Request, Registration
  <2>5. AsRegistered(Built(i, reg, q))
    BY <2>3 DEF Built, AsRegistered
  <2>6. QED BY <1>8, <1>9, <2>2, <2>4, <2>5 DEF Trigger
<1>10. ASSUME NEW c \in Clients, TriggerLegacy(c)
       PROVE  ApiInv'
  <2>1. PICK flow \in Flows : Build(c, LegacyRun(flow))
    BY <1>10 DEF TriggerLegacy
  <2>2. LegacyRun(flow) \in Run
    BY ApiAssumption DEF LegacyRun, Run, Registration, RunTypes, EngineTypes, Operations
  <2>3. AsRegistered(LegacyRun(flow))
    BY DEF LegacyRun, AsRegistered
  <2>4. QED BY <1>8, <2>1, <2>2, <2>3
<1>11. ASSUME NEW r \in RunIds, NEW rec \in Records, SaveRecord(r, rec)
       PROVE  ApiInv'
  <2>1. PICK made, new : made = [vendor |-> TRUE, resource_id |-> rec]
                         /\ new = [runs[r] EXCEPT !.resource = made]
    OBVIOUS
  <2>2. runs[r] \in Run /\ AsRegistered(runs[r]) /\ made \in Resource
    BY <1>0, <1>11, <2>1
    DEF TypeOK, SaveRecord, AwaitsRecord, ApiInv, RunsAsRegistered, Committed, Resource
  <2>3. /\ new \in Run /\ new.workflow = runs[r].workflow /\ new.resolved = runs[r].resolved
        /\ new.run_type = runs[r].run_type
    BY <2>1, <2>2 DEF Run
  <2>4. AsRegistered(new)
    BY <2>2, <2>3 DEF AsRegistered
  <2>5. runs' = [runs EXCEPT ![r] = new] /\ UNCHANGED <<workflows, asked, overlapped, call, built>>
    BY <1>11, <2>1 DEF SaveRecord
  <2>6. TypeOK'
    BY <1>0, <2>3, <2>5 DEF TypeOK
  <2>7. Registered' /\ \A d \in Clients : Updates(d)'
    BY <1>0, <2>5 DEF Registered, FromOperators, Updates, UpdateHolds, Updating
  <2>8. \A s \in RunIds : runs'[s] = IF s = r THEN new ELSE runs[s]
    BY <1>0, <2>5 DEF TypeOK
  <2>9. QED BY <2>4, <2>5, <2>6, <2>7, <2>8, KeepsApiInv
<1>12. CASE UNCHANGED vars
  <2>1. TypeOK' /\ Registered' /\ \A d \in Clients : Updates(d)'
    BY <1>0, <1>12 DEF vars, TypeOK, Registered, FromOperators, Updates, UpdateHolds, Updating
  <2>2. QED BY <1>12, <2>1, KeepsApiInv DEF vars
<1>13. QED
  BY <1>2, <1>3, <1>5, <1>6, <1>7, <1>9, <1>10, <1>11, <1>12 DEF Next, Serve

-----------------------------------------------------------------------------
(* The theorems. *)

\* The invariant of the API holds for ever: register and update accept any
\* registration, and update merges columns without a lock.
THEOREM ApiInvariant == Spec => []ApiInv
<1>1. ApiInv /\ [Next]_vars => ApiInv'
  BY NextApiInv
<1>2. QED
  BY InitApiInv, <1>1, PTL DEF Spec

\* Every run is built from one registration that an operator asked for as a
\* whole, or, if updates of its workflow overlapped, from columns that operators
\* asked for (trigger snapshots one read of the registry; update writes the
\* columns that differ from the row it loaded).
THEOREM RunsStayAsRegistered == Spec => []RunsAsRegistered
<1>1. ApiInv => RunsAsRegistered
  BY DEF ApiInv
<1>2. QED
  BY ApiInvariant, <1>1, PTL

-----------------------------------------------------------------------------
(* What can be driven. *)

\* Columns of registrations that the triggers' checks cover are such a
\* registration.
LEMMA RowsAreRunnable ==
    ASSUME \A reg \in Offered : Runnable(reg), ApiInv,
           NEW i \in Identifiers, workflows[i] # None
    PROVE  Runnable(workflows[i])
<1>1. PICK row : row = workflows[i]
  OBVIOUS
<1>2. row \in Registration /\ FromOperators(i, row) /\ asked[i] \subseteq Offered
  BY <1>1 DEF ApiInv, TypeOK
<1>3. DOMAIN row = Columns
  BY <1>2, ColumnsOf
<1>4. PICK a \in asked[i] : a.run_type = row.run_type
  BY <1>2, <1>3 DEF FromOperators, Columns
<1>5. PICK b \in asked[i] : b.engine_type = row.engine_type
  BY <1>2, <1>3 DEF FromOperators, Columns
<1>6. QED
  BY <1>1, <1>2, <1>4, <1>5 DEF Runnable

\* A run that passes the checks of trigger, of a registration they cover, is one
\* its plan's handlers can drive.
LEMMA BuiltIsDrivable ==
    ASSUME NEW i \in Identifiers, NEW reg \in Registration, NEW q \in Request,
           Runnable(reg), Valid(reg, q)
    PROVE  Drivable(Built(i, reg, q))
BY DEF Built, Drivable, Valid, Runnable

\* So is a legacy request.
LEMMA LegacyIsDrivable ==
    ASSUME NEW flow \in Flows
    PROVE  LegacyRun(flow) \in Run /\ Drivable(LegacyRun(flow))
<1>1. LegacyRun(flow) \in Run
  BY ApiAssumption DEF LegacyRun, Run, Registration, RunTypes, EngineTypes, Operations
<1>2. QED
  BY <1>1 DEF LegacyRun, Drivable

\* The runs that are there, and those about to be inserted, can be driven.
DrivableInv ==
    /\ \A c \in Clients : call[c].pc = "creating" => Drivable(call[c].run)
    /\ EveryRunCanBeDriven

\* Every step keeps that.
LEMMA NextDrivableInv ==
    ASSUME \A reg \in Offered : Runnable(reg), ApiInv, DrivableInv, [Next]_vars
    PROVE  DrivableInv'
<1>0. /\ TypeOK
      /\ \A c \in Clients : call[c].pc = "creating" => Drivable(call[c].run) /\ call[c].id \in RunIds
      /\ \A r \in RunIds : runs[r] # None => Drivable(runs[r])
  BY DEF ApiInv, DrivableInv, EveryRunCanBeDriven, Committed
<1>1. Idle.pc = "idle"
  BY DEF Idle
<1>2. ASSUME NEW c \in Clients, NEW now, call' = [call EXCEPT ![c] = now],
             now.pc = "creating" => Drivable(now.run), runs' = runs
      PROVE  DrivableInv'
  <2>1. call'[c] = now /\ \A d \in Clients \ {c} : call'[d] = call[d]
    BY <1>0, <1>2 DEF TypeOK
  <2>2. QED BY <1>0, <1>2, <2>1 DEF DrivableInv, EveryRunCanBeDriven, Committed, Drivable
<1>3. ASSUME NEW c \in Clients, NEW run, Build(c, run), Drivable(run)
      PROVE  DrivableInv'
  <2>1. PICK now : now = [Idle EXCEPT !.pc = "creating", !.id = built + 1, !.run = run]
    OBVIOUS
  <2>2. now.run = run
    BY <2>1 DEF Idle
  <2>3. call' = [call EXCEPT ![c] = now] /\ runs' = runs
    BY <1>3, <2>1 DEF Build
  <2>4. QED BY <1>2, <1>3, <2>2, <2>3
<1>4. ASSUME NEW c \in Clients, NEW q \in Requests, Trigger(c, q)
      PROVE  DrivableInv'
  <2>1. q \in Request /\ q.workflow \in Identifiers
    BY DEF Requests, Request
  <2>2. workflows[q.workflow] \in Registration /\ Runnable(workflows[q.workflow])
    BY <1>0, <1>4, <2>1, RowsAreRunnable DEF Trigger, TypeOK
  <2>3. QED BY <1>3, <1>4, <2>1, <2>2, BuiltIsDrivable DEF Trigger
<1>5. ASSUME NEW c \in Clients, TriggerLegacy(c)
      PROVE  DrivableInv'
  BY <1>3, <1>5, LegacyIsDrivable DEF TriggerLegacy
<1>6. ASSUME NEW c \in Clients, NEW i \in Identifiers, NEW reg \in Offered, BeginUpdate(c, i, reg)
      PROVE  DrivableInv'
  <2>1. PICK now : now = [Idle EXCEPT !.pc = "updating", !.workflow = i,
                                      !.wants = reg, !.loaded = workflows[i]]
    OBVIOUS
  <2>2. now.pc = "updating"
    BY <2>1 DEF Idle
  <2>3. QED BY <1>2, <1>6, <2>1, <2>2 DEF BeginUpdate
<1>7. ASSUME NEW c \in Clients, FinishUpdate(c) \/ Abort(c)
      PROVE  DrivableInv'
  BY <1>1, <1>2, <1>7 DEF FinishUpdate, Abort
<1>8. ASSUME NEW c \in Clients, Create(c)
      PROVE  DrivableInv'
  <2>1. PICK id, run : id = call[c].id /\ run = call[c].run
    OBVIOUS
  <2>2. /\ runs' = [runs EXCEPT ![id] = run] /\ call' = [call EXCEPT ![c] = Idle]
        /\ Drivable(run) /\ id \in RunIds
    BY <1>0, <1>8, <2>1 DEF Create, Inserted
  <2>3. /\ call'[c] = Idle /\ \A d \in Clients \ {c} : call'[d] = call[d]
        /\ \A r \in RunIds : runs'[r] = IF r = id THEN run ELSE runs[r]
    BY <1>0, <2>2 DEF TypeOK
  <2>4. QED BY <1>0, <1>1, <2>2, <2>3 DEF DrivableInv, EveryRunCanBeDriven, Committed, Drivable
<1>9. ASSUME NEW r \in RunIds, NEW rec \in Records, SaveRecord(r, rec)
      PROVE  DrivableInv'
  <2>1. PICK made, new : made = [vendor |-> TRUE, resource_id |-> rec]
                         /\ new = [runs[r] EXCEPT !.resource = made]
    OBVIOUS
  <2>2. runs[r] \in Run /\ Drivable(runs[r]) /\ made \in Resource /\ made.vendor
    BY <1>0, <1>9, <2>1 DEF TypeOK, SaveRecord, AwaitsRecord, Resource
  <2>3. made # None
    BY <2>2, ApiAssumption
  <2>4. /\ new.run_type = runs[r].run_type /\ new.resolved = runs[r].resolved
        /\ new.operation = runs[r].operation /\ new.ticket = runs[r].ticket
        /\ new.legacy = runs[r].legacy /\ new.resource = made
    BY <2>1, <2>2 DEF Run
  <2>5. Drivable(new)
    BY <2>2, <2>3, <2>4 DEF Drivable
  <2>6. runs' = [runs EXCEPT ![r] = new] /\ call' = call
    BY <1>9, <2>1 DEF SaveRecord
  <2>7. \A s \in RunIds : runs'[s] = IF s = r THEN new ELSE runs[s]
    BY <1>0, <2>6 DEF TypeOK
  <2>8. QED BY <1>0, <2>5, <2>6, <2>7 DEF DrivableInv, EveryRunCanBeDriven, Committed, Drivable
<1>10. CASE UNCHANGED <<call, runs>>
  BY <1>10 DEF DrivableInv, EveryRunCanBeDriven, Committed, Drivable
<1>11. QED
  BY <1>4, <1>5, <1>6, <1>7, <1>8, <1>9, <1>10 DEF Next, Serve, Register, vars

\* No run is accepted that the handlers of its own plan would trip over (the
\* validation of trigger against the assertions of the steps), if every
\* registration operators ask for is of a kind the validation covers: a mixture
\* of two such registrations is one too.
THEOREM RunsCanBeDriven ==
    ASSUME \A reg \in Offered : Runnable(reg)
    PROVE  Spec => []EveryRunCanBeDriven
<1>1. Init => DrivableInv
  <2>1. Init => (\A c \in Clients : call[c].pc = "idle") /\ Committed = {}
    BY DEF Init, Idle, Committed
  <2>2. QED BY <2>1 DEF DrivableInv, EveryRunCanBeDriven
<1>2. ApiInv /\ DrivableInv /\ [Next]_vars => DrivableInv'
  BY NextDrivableInv
<1>3. DrivableInv => EveryRunCanBeDriven
  BY DEF DrivableInv
<1>4. QED
  BY ApiInvariant, <1>1, <1>2, <1>3, PTL DEF Spec

-----------------------------------------------------------------------------
(* The lookups. *)

\* Some naturals have a least one.
LEMMA LeastExists ==
    ASSUME NEW S \in SUBSET Nat, S # {}
    PROVE  \E t \in S : \A u \in S : t <= u
<1>1. PICK t \in S : \A u \in S : ~(<<u, t>> \in OpToRel(<, Nat))
  BY NatLessThanWellFounded, WFMin
<1>2. ASSUME NEW u \in S PROVE t <= u
  <2> SUFFICES ASSUME ~(t <= u) PROVE FALSE
    OBVIOUS
  <2>1. u \in Nat /\ t \in Nat /\ u < t
    OBVIOUS
  <2>2. <<u, t>> \in {ss \in Nat \X Nat : ss[1] < ss[2]}
    BY <2>1
  <2> QED BY <1>1, <2>2 DEF OpToRel
<1> QED BY <1>2

\* What holds at 0 and is handed on holds up to n.
LEMMA UpTo ==
    ASSUME NEW n \in Nat, NEW S, 0 \in S, \A k \in 1 .. n : k - 1 \in S => k \in S
    PROVE  n \in S
<1> SUFFICES ASSUME n \notin S PROVE FALSE
  OBVIOUS
<1>1. PICK t \in (0 .. n) \ S : \A u \in (0 .. n) \ S : t <= u
  <2>1. (0 .. n) \ S \in SUBSET Nat /\ n \in (0 .. n) \ S
    OBVIOUS
  <2> QED BY <2>1, LeastExists
<1>2. t \in 1 .. n /\ t - 1 \in 0 .. n /\ ~(t <= t - 1)
  BY <1>1
<1>3. t - 1 \in S
  BY <1>1, <1>2
<1> QED BY <1>1, <1>2, <1>3

\* The newest and the oldest of some runs.
LEMMA MaxIs ==
    ASSUME NEW n \in Nat, NEW S \in SUBSET (1 .. n), S # {}
    PROVE  Max(S) \in S /\ \A y \in S : Max(S) >= y
<1>1. PICK t \in {k \in Nat : \A y \in S : y <= k} : \A u \in {k \in Nat : \A y \in S : y <= k} : t <= u
  <2>1. n \in {k \in Nat : \A y \in S : y <= k}
    OBVIOUS
  <2> QED BY <2>1, LeastExists
<1>2. t \in S
  <2> SUFFICES ASSUME t \notin S PROVE FALSE
    OBVIOUS
  <2>0. PICK x \in S : TRUE
    OBVIOUS
  <2>1. t \in Nat /\ \A y \in S : y \in Nat /\ y <= t /\ y # t /\ y >= 1
    BY <1>1
  <2>2. t - 1 \in Nat /\ (\A y \in S : y <= t - 1) /\ ~(t <= t - 1)
    <3>1. x <= t /\ x >= 1 /\ x \in Nat
      BY <2>0, <2>1
    <3>2. ASSUME NEW y \in S PROVE y <= t - 1
      <4>1. y \in Nat /\ y <= t /\ y # t
        BY <2>1
      <4> QED BY <2>1, <4>1
    <3> QED BY <2>1, <3>1, <3>2
  <2> QED BY <1>1, <2>2
<1>3. \A y \in S : t >= y
  BY <1>1
<1> QED BY <1>2, <1>3 DEF Max

\* The oldest, which is the first place of a record too.
LEMMA MinIs ==
    ASSUME NEW n \in Nat, NEW S \in SUBSET (1 .. n), S # {}
    PROVE  Min(S) \in S /\ \A y \in S : Min(S) <= y
<1>1. \E t \in S : \A y \in S : t <= y
  BY LeastExists
<1> QED BY <1>1 DEF Min

\* What is seen after each of the first n parts of a list.
SeenAfter(raw, n, f) ==
    f = [k \in 0 .. n |->
            IF k = 0 THEN <<>>
            ELSE IF raw[k] = Blank \/ Contains(f[k - 1], raw[k]) THEN f[k - 1]
            ELSE Append(f[k - 1], raw[k])]

\* The loop of _parse_resource_ids comes to its end.
LEMMA ParsingEnds ==
    ASSUME NEW raw, Len(raw) \in Nat
    PROVE  \E f : SeenAfter(raw, Len(raw), f) /\ ParseResourceIds(raw) = f[Len(raw)]
<1> DEFINE S == {n \in Nat : \E f : SeenAfter(raw, n, f)}
<1>1. 0 \in S
  <2>1. SeenAfter(raw, 0, [k \in 0 .. 0 |-> <<>>])
    BY DEF SeenAfter
  <2> QED BY <2>1
<1>2. ASSUME NEW n \in 1 .. Len(raw), n - 1 \in S PROVE n \in S
  <2>1. PICK f : SeenAfter(raw, n - 1, f)
    BY <1>2
  <2> DEFINE last == IF raw[n] = Blank \/ Contains(f[n - 1], raw[n]) THEN f[n - 1]
                     ELSE Append(f[n - 1], raw[n])
             g == [k \in 0 .. n |-> IF k = n THEN last ELSE f[k]]
  <2>2. \A k \in 0 .. n - 1 : g[k] = f[k]
    OBVIOUS
  <2>3. \A k \in 0 .. n - 1 : f[k] = IF k = 0 THEN <<>>
                                     ELSE IF raw[k] = Blank \/ Contains(f[k - 1], raw[k]) THEN f[k - 1]
                                     ELSE Append(f[k - 1], raw[k])
    BY <2>1 DEF SeenAfter
  <2>4. \A k \in 0 .. n : g[k] = IF k = 0 THEN <<>>
                                 ELSE IF raw[k] = Blank \/ Contains(g[k - 1], raw[k]) THEN g[k - 1]
                                 ELSE Append(g[k - 1], raw[k])
    <3> SUFFICES ASSUME NEW k \in 0 .. n
                 PROVE  g[k] = IF k = 0 THEN <<>>
                               ELSE IF raw[k] = Blank \/ Contains(g[k - 1], raw[k]) THEN g[k - 1]
                               ELSE Append(g[k - 1], raw[k])
      OBVIOUS
    <3>1. CASE k = n
      <4>1. g[n] = last /\ g[n - 1] = f[n - 1] /\ n # 0
        OBVIOUS
      <4> QED BY <3>1, <4>1
    <3>2. CASE k # n
      <4>1. k \in 0 .. n - 1 /\ g[k] = f[k] /\ (k # 0 => g[k - 1] = f[k - 1])
        BY <3>2
      <4> HIDE DEF g
      <4> QED BY <2>3, <4>1
    <3> QED BY <3>1, <3>2
  <2>5. g = [k \in 0 .. n |-> g[k]]
    OBVIOUS
  <2> HIDE DEF g
  <2>6. SeenAfter(raw, n, g)
    BY <2>4, <2>5 DEF SeenAfter
  <2> QED BY <2>6
<1>3. Len(raw) \in S
  <2> HIDE DEF S
  <2> QED BY <1>1, <1>2, UpTo
<1>4. SeenAfter(raw, Len(raw), CHOOSE f : SeenAfter(raw, Len(raw), f))
  BY <1>3
<1>5. ParseResourceIds(raw) = (CHOOSE f : SeenAfter(raw, Len(raw), f))[Len(raw)]
  BY DEF ParseResourceIds, SeenAfter
<1> QED BY <1>4, <1>5

\* Where a record that a list names is first named.
LEMMA FirstPlaceIs ==
    ASSUME NEW raw \in Seq(Records \cup {Blank}), NEW k \in 1 .. Len(raw)
    PROVE  /\ FirstPlace(raw, raw[k]) \in 1 .. k /\ raw[FirstPlace(raw, raw[k])] = raw[k]
           /\ (\A j \in 1 .. k - 1 : raw[j] # raw[k]) => FirstPlace(raw, raw[k]) = k
<1>1. PICK S : S = {j \in DOMAIN raw : raw[j] = raw[k]}
  OBVIOUS
<1>2. DOMAIN raw = 1 .. Len(raw) /\ Len(raw) \in Nat /\ S \in SUBSET (1 .. Len(raw)) /\ k \in S
  BY <1>1
<1>3. Min(S) \in S /\ \A j \in S : Min(S) <= j
  BY <1>2, MinIs
<1>4. FirstPlace(raw, raw[k]) = Min(S)
  BY <1>1 DEF FirstPlace
<1>5. Min(S) \in 1 .. k /\ raw[Min(S)] = raw[k]
  BY <1>1, <1>2, <1>3
<1>6. (\A j \in 1 .. k - 1 : raw[j] # raw[k]) => Min(S) = k
  <2> SUFFICES ASSUME \A j \in 1 .. k - 1 : raw[j] # raw[k], Min(S) # k PROVE FALSE
    OBVIOUS
  <2>1. Min(S) \in 1 .. k - 1
    BY <1>2, <1>5
  <2> QED BY <1>5, <2>1
<1> QED BY <1>4, <1>5, <1>6

\* ids are the records that the first n parts of a list name, each once and in
\* the order they are first named in.
NamesOf(raw, n, ids) ==
    /\ ids \in Seq(Records)
    /\ ToSet(ids) = {raw[k] : k \in 1 .. n} \ {Blank}
    /\ \A i, j \in DOMAIN ids : i < j => FirstPlace(raw, ids[i]) < FirstPlace(raw, ids[j])

\* What _parse_resource_ids returns.
LEMMA ParsedIds ==
    ASSUME NEW raw \in Seq(Records \cup {Blank})
    PROVE  NamesOf(raw, Len(raw), ParseResourceIds(raw))
<1>1. Len(raw) \in Nat
  OBVIOUS
<1>2. PICK f : SeenAfter(raw, Len(raw), f) /\ ParseResourceIds(raw) = f[Len(raw)]
  BY <1>1, ParsingEnds
<1>3. \A k \in 0 .. Len(raw) : f[k] = IF k = 0 THEN <<>>
                                      ELSE IF raw[k] = Blank \/ Contains(f[k - 1], raw[k]) THEN f[k - 1]
                                      ELSE Append(f[k - 1], raw[k])
  BY <1>2 DEF SeenAfter
<1> DEFINE S == {n \in Nat : NamesOf(raw, n, f[n])}
<1>4. 0 \in S
  <2>1. f[0] = <<>>
    BY <1>1, <1>3
  <2>2. PICK none : none = <<>>
    OBVIOUS
  <2>3. none \in Seq(Records) /\ DOMAIN none = {} /\ 1 .. 0 = {}
    BY <2>2
  <2>4. NamesOf(raw, 0, none)
    BY <2>3 DEF NamesOf, ToSet
  <2> QED BY <2>1, <2>2, <2>4
<1>5. ASSUME NEW n \in 1 .. Len(raw), n - 1 \in S PROVE n \in S
  <2>1. PICK old : old = f[n - 1]
    OBVIOUS
  <2>2. f[n] = IF raw[n] = Blank \/ Contains(old, raw[n]) THEN old ELSE Append(old, raw[n])
    BY <1>3, <2>1
  <2>3. NamesOf(raw, n - 1, old) /\ n \in Nat
    BY <1>5, <2>1
  <2>4. {raw[k] : k \in 1 .. n} = {raw[k] : k \in 1 .. n - 1} \cup {raw[n]}
    OBVIOUS
  <2>5. Contains(old, raw[n]) <=> raw[n] \in ToSet(old)
    BY <2>3 DEF Contains, ToSet, NamesOf
  <2>6. CASE raw[n] = Blank \/ Contains(old, raw[n])
    <3>1. f[n] = old /\ {raw[k] : k \in 1 .. n} \ {Blank} = {raw[k] : k \in 1 .. n - 1} \ {Blank}
      BY <2>2, <2>3, <2>4, <2>5, <2>6 DEF NamesOf
    <3> QED BY <2>3, <3>1 DEF NamesOf
  <2>7. CASE raw[n] # Blank /\ ~Contains(old, raw[n])
    <3>1. PICK new : new = Append(old, raw[n])
      OBVIOUS
    <3>2. raw[n] \in Records /\ old \in Seq(Records)
      BY <2>3, <2>7 DEF NamesOf
    <3>3. /\ new \in Seq(Records) /\ Len(new) = Len(old) + 1 /\ new[Len(new)] = raw[n]
          /\ \A i \in 1 .. Len(old) : new[i] = old[i]
          /\ DOMAIN new = 1 .. Len(old) + 1 /\ DOMAIN old = 1 .. Len(old) /\ Len(old) \in Nat
      BY <3>1, <3>2
    <3>4. ToSet(new) = ToSet(old) \cup {raw[n]}
      BY <3>3 DEF ToSet
    <3>5. ToSet(new) = {raw[k] : k \in 1 .. n} \ {Blank}
      BY <2>3, <2>4, <2>7, <3>4 DEF NamesOf
    <3>6. FirstPlace(raw, raw[n]) = n
      <4>1. \A k \in 1 .. n - 1 : raw[k] # raw[n]
        BY <2>3, <2>5, <2>7 DEF NamesOf
      <4> QED BY <4>1, FirstPlaceIs
    <3>7. ASSUME NEW i \in 1 .. Len(old) PROVE FirstPlace(raw, old[i]) < n
      <4>1. old[i] \in {raw[k] : k \in 1 .. n - 1}
        BY <2>3, <3>3 DEF NamesOf, ToSet
      <4>2. PICK k \in 1 .. n - 1 : old[i] = raw[k]
        BY <4>1
      <4>3. FirstPlace(raw, raw[k]) \in 1 .. k
        BY FirstPlaceIs
      <4> QED BY <4>2, <4>3
    <3>8. ASSUME NEW i \in DOMAIN new, NEW j \in DOMAIN new, i < j
          PROVE  FirstPlace(raw, new[i]) < FirstPlace(raw, new[j])
      <4>1. CASE j = Len(old) + 1
        <5>1. i \in 1 .. Len(old) /\ new[i] = old[i] /\ new[j] = raw[n]
          BY <3>3, <3>8, <4>1
        <5> QED BY <3>6, <3>7, <5>1
      <4>2. CASE j # Len(old) + 1
        <5>1. /\ i \in DOMAIN old /\ j \in DOMAIN old
              /\ new[i] = old[i] /\ new[j] = old[j]
          BY <3>3, <3>8, <4>2
        <5> QED BY <2>3, <3>8, <5>1 DEF NamesOf
      <4> QED BY <4>1, <4>2
    <3>9. NamesOf(raw, n, new)
      BY <3>3, <3>5, <3>8 DEF NamesOf
    <3> QED BY <2>2, <2>3, <2>7, <3>1, <3>9
  <2> QED BY <2>6, <2>7
<1>6. Len(raw) \in S
  <2> HIDE DEF S
  <2> QED BY <1>1, <1>4, <1>5, UpTo
<1> QED BY <1>2, <1>6

\* What the single lookup gives.
LEMMA FindLastIs ==
    ASSUME NEW rec
    PROVE  /\ RunsOf(rec) = {} => FindLast(rec) = None
           /\ RunsOf(rec) # {} => /\ FindLast(rec) = NewestFirst(RunsOf(rec))
                                  /\ FindLast(rec) \in RunsOf(rec) /\ FindLast(rec) # None
                                  /\ \A r \in RunsOf(rec) : FindLast(rec) >= r
<1>1. MaxRuns \in Nat /\ RunsOf(rec) \in SUBSET (1 .. MaxRuns) /\ None \notin 1 .. MaxRuns
  BY ApiAssumption DEF RunsOf, Committed, RunIds
<1> QED BY <1>1, MaxIs DEF FindLast, NewestFirst

\* The runs the batch has found for a record.
FoundFor(ids, rec) == {r \in FindLasts(ToSet(ids)) : runs[r].resource.resource_id = rec}

\* It is the one the single lookup gives, if there is one.
LEMMA FoundForIs ==
    ASSUME NEW ids, NEW rec \in ToSet(ids)
    PROVE  FoundFor(ids, rec) = {FindLast(rec)} \ {None}
<1>1. ASSUME NEW x, RunsOf(x) # {}
      PROVE  FindLast(x) = NewestFirst(RunsOf(x)) /\ runs[FindLast(x)].resource.resource_id = x
  BY <1>1, FindLastIs DEF RunsOf
<1>2. FindLasts(ToSet(ids)) = {FindLast(x) : x \in {y \in ToSet(ids) : RunsOf(y) # {}}}
  BY <1>1 DEF FindLasts
<1>3. CASE RunsOf(rec) = {}
  <2>1. FindLast(rec) = None
    BY <1>3, FindLastIs
  <2>2. FoundFor(ids, rec) = {}
    BY <1>1, <1>2, <1>3 DEF FoundFor
  <2> QED BY <2>1, <2>2
<1>4. CASE RunsOf(rec) # {}
  <2>1. FindLast(rec) # None
    BY <1>4, FindLastIs
  <2>2. FoundFor(ids, rec) = {FindLast(rec)}
    BY <1>1, <1>2, <1>4 DEF FoundFor
  <2> QED BY <2>1, <2>2
<1> QED BY <1>3, <1>4

\* The one it answers with.
Chosen(ids, rec) == CHOOSE r \in FoundFor(ids, rec) : TRUE

\* What is answered after each of the first n records.
AnsweredAfter(ids, n, f) ==
    f = [k \in 0 .. n |->
            IF k = 0 THEN <<>>
            ELSE IF FoundFor(ids, ids[k]) = {} THEN f[k - 1]
            ELSE Append(f[k - 1], Chosen(ids, ids[k]))]

\* The loop of get_latest_resource_runs comes to its end.
LEMMA AnsweringEnds ==
    ASSUME NEW raw, NEW ids, ids = ParseResourceIds(raw), Len(ids) \in Nat
    PROVE  \E f : AnsweredAfter(ids, Len(ids), f) /\ LatestBatch(raw) = f[Len(ids)]
<1> DEFINE S == {n \in Nat : \E f : AnsweredAfter(ids, n, f)}
           From(f, k) == IF FoundFor(ids, ids[k]) = {} THEN f[k - 1]
                         ELSE Append(f[k - 1], Chosen(ids, ids[k]))
<1>1. 0 \in S
  <2>1. AnsweredAfter(ids, 0, [k \in 0 .. 0 |-> <<>>])
    BY DEF AnsweredAfter
  <2> QED BY <2>1
<1>2. ASSUME NEW n \in 1 .. Len(ids), n - 1 \in S PROVE n \in S
  <2>1. PICK f : AnsweredAfter(ids, n - 1, f)
    BY <1>2
  <2> DEFINE g == [k \in 0 .. n |-> IF k = n THEN From(f, n) ELSE f[k]]
  <2>2. \A k \in 0 .. n - 1 : f[k] = IF k = 0 THEN <<>> ELSE From(f, k)
    BY <2>1 DEF AnsweredAfter
  <2>3. \A k \in 0 .. n : g[k] = IF k = 0 THEN <<>> ELSE From(g, k)
    <3> SUFFICES ASSUME NEW k \in 0 .. n PROVE g[k] = IF k = 0 THEN <<>> ELSE From(g, k)
      OBVIOUS
    <3>1. CASE k = n
      <4>1. g[n] = From(f, n) /\ g[n - 1] = f[n - 1] /\ n # 0
        OBVIOUS
      <4> QED BY <3>1, <4>1
    <3>2. CASE k # n
      <4>1. k \in 0 .. n - 1 /\ g[k] = f[k] /\ (k # 0 => g[k - 1] = f[k - 1])
        BY <3>2
      <4> HIDE DEF g
      <4> QED BY <2>2, <4>1
    <3> QED BY <3>1, <3>2
  <2>4. g = [k \in 0 .. n |-> g[k]]
    OBVIOUS
  <2> HIDE DEF g
  <2>5. AnsweredAfter(ids, n, g)
    BY <2>3, <2>4 DEF AnsweredAfter
  <2> QED BY <2>5
<1>3. Len(ids) \in S
  <2> HIDE DEF S
  <2> QED BY <1>1, <1>2, UpTo
<1>4. AnsweredAfter(ids, Len(ids), CHOOSE f : AnsweredAfter(ids, Len(ids), f))
  BY <1>3
<1>5. LatestBatch(raw) = (CHOOSE f : AnsweredAfter(ids, Len(ids), f))[Len(ids)]
  BY DEF LatestBatch, AnsweredAfter, FoundFor, Chosen
<1> QED BY <1>4, <1>5

\* ans are the latest runs of the first n records, in the order the list first
\* names them in.
LatestOf(raw, ids, n, ans) ==
    /\ ans \in Seq(RunIds)
    /\ ToSet(ans) = {FindLast(ids[k]) : k \in 1 .. n} \ {None}
    /\ \A i \in DOMAIN ans : runs[ans[i]].resource.resource_id \in {ids[k] : k \in 1 .. n}
    /\ \A i, j \in DOMAIN ans :
          i < j => FirstPlace(raw, runs[ans[i]].resource.resource_id)
                       < FirstPlace(raw, runs[ans[j]].resource.resource_id)

\* What get_latest_resource_runs answers.
LEMMA BatchAnswer ==
    ASSUME NEW raw, NEW ids, ids = ParseResourceIds(raw), ids \in Seq(Records),
           \A i, j \in DOMAIN ids : i < j => FirstPlace(raw, ids[i]) < FirstPlace(raw, ids[j])
    PROVE  LatestOf(raw, ids, Len(ids), LatestBatch(raw))
<1>1. Len(ids) \in Nat /\ DOMAIN ids = 1 .. Len(ids)
  OBVIOUS
<1>2. PICK f : AnsweredAfter(ids, Len(ids), f) /\ LatestBatch(raw) = f[Len(ids)]
  BY <1>1, AnsweringEnds
<1>3. \A k \in 0 .. Len(ids) :
         f[k] = IF k = 0 THEN <<>>
                ELSE IF FoundFor(ids, ids[k]) = {} THEN f[k - 1]
                ELSE Append(f[k - 1], Chosen(ids, ids[k]))
  BY <1>2 DEF AnsweredAfter
<1> DEFINE S == {n \in Nat : LatestOf(raw, ids, n, f[n])}
<1>4. 0 \in S
  <2>1. f[0] = <<>>
    BY <1>1, <1>3
  <2>2. PICK none : none = <<>>
    OBVIOUS
  <2>3. none \in Seq(RunIds) /\ DOMAIN none = {} /\ 1 .. 0 = {}
    BY <2>2
  <2>4. LatestOf(raw, ids, 0, none)
    BY <2>3 DEF LatestOf, ToSet
  <2> QED BY <2>1, <2>2, <2>4
<1>5. ASSUME NEW n \in 1 .. Len(ids), n - 1 \in S PROVE n \in S
  <2>1. PICK old, last : old = f[n - 1] /\ last = FindLast(ids[n])
    OBVIOUS
  <2>2. LatestOf(raw, ids, n - 1, old) /\ n \in Nat /\ n - 1 \in Nat
    BY <1>5, <2>1
  <2>3. {FindLast(ids[k]) : k \in 1 .. n} = {FindLast(ids[k]) : k \in 1 .. n - 1} \cup {last}
    BY <2>1
  <2>4. FoundFor(ids, ids[n]) = {last} \ {None}
    <3>1. ids[n] \in ToSet(ids)
      BY <1>1 DEF ToSet
    <3> QED BY <2>1, <3>1, FoundForIs
  <2>5. {ids[k] : k \in 1 .. n - 1} \subseteq {ids[k] : k \in 1 .. n}
    OBVIOUS
  <2>6. CASE last = None
    <3>1. f[n] = old
      BY <1>3, <2>1, <2>4, <2>6
    <3>2. {FindLast(ids[k]) : k \in 1 .. n} \ {None} = {FindLast(ids[k]) : k \in 1 .. n - 1} \ {None}
      BY <2>3, <2>6
    <3>3. LatestOf(raw, ids, n, old)
      BY <2>2, <2>5, <3>2 DEF LatestOf
    <3> QED BY <2>2, <3>1, <3>3
  <2>7. CASE last # None
    <3>1. PICK new : new = Append(old, last)
      OBVIOUS
    <3>2. f[n] = new
      <4>1. FoundFor(ids, ids[n]) = {last}
        BY <2>4, <2>7
      <4>2. Chosen(ids, ids[n]) = last
        BY <4>1 DEF Chosen
      <4>3. n \in 0 .. Len(ids) /\ n # 0 /\ FoundFor(ids, ids[n]) # {}
        BY <4>1
      <4>4. f[n] = Append(f[n - 1], Chosen(ids, ids[n]))
        BY <1>3, <4>3
      <4> QED BY <2>1, <3>1, <4>2, <4>4
    <3>3. last \in RunIds /\ runs[last].resource.resource_id = ids[n]
      BY <2>1, <2>7, FindLastIs DEF RunsOf, Committed
    <3>4. /\ new \in Seq(RunIds) /\ new[Len(old) + 1] = last
          /\ \A i \in 1 .. Len(old) : new[i] = old[i]
          /\ DOMAIN new = 1 .. Len(old) + 1 /\ DOMAIN old = 1 .. Len(old) /\ Len(old) \in Nat
      BY <2>2, <3>1, <3>3 DEF LatestOf
    <3>5. ToSet(new) = ToSet(old) \cup {last}
      BY <3>4 DEF ToSet
    <3>6. ToSet(new) = {FindLast(ids[k]) : k \in 1 .. n} \ {None}
      BY <2>2, <2>3, <2>7, <3>5 DEF LatestOf
    <3>7. ASSUME NEW i \in DOMAIN new
          PROVE  runs[new[i]].resource.resource_id \in {ids[k] : k \in 1 .. n}
      <4>1. CASE i = Len(old) + 1
        BY <3>3, <3>4, <4>1
      <4>2. CASE i # Len(old) + 1
        <5>1. i \in DOMAIN old /\ new[i] = old[i]
          BY <3>4, <4>2
        <5> QED BY <2>2, <2>5, <5>1 DEF LatestOf
      <4> QED BY <4>1, <4>2
    <3>8. ASSUME NEW i \in DOMAIN old
          PROVE  FirstPlace(raw, runs[old[i]].resource.resource_id) < FirstPlace(raw, ids[n])
      <4>1. PICK k \in 1 .. n - 1 : runs[old[i]].resource.resource_id = ids[k]
        BY <2>2 DEF LatestOf
      <4>2. k \in DOMAIN ids /\ n \in DOMAIN ids /\ k < n
        BY <1>1
      <4> QED BY <4>1, <4>2
    <3>9. ASSUME NEW i \in DOMAIN new, NEW j \in DOMAIN new, i < j
          PROVE  FirstPlace(raw, runs[new[i]].resource.resource_id)
                     < FirstPlace(raw, runs[new[j]].resource.resource_id)
      <4>1. CASE j = Len(old) + 1
        <5>1. i \in DOMAIN old /\ new[i] = old[i] /\ new[j] = last
          BY <3>4, <3>9, <4>1
        <5> QED BY <3>3, <3>8, <5>1
      <4>2. CASE j # Len(old) + 1
        <5>1. i \in DOMAIN old /\ j \in DOMAIN old /\ new[i] = old[i] /\ new[j] = old[j]
          BY <3>4, <3>9, <4>2
        <5> QED BY <2>2, <3>9, <5>1 DEF LatestOf
      <4> QED BY <4>1, <4>2
    <3>10. LatestOf(raw, ids, n, new)
      BY <3>4, <3>6, <3>7, <3>9 DEF LatestOf
    <3> QED BY <2>2, <3>2, <3>10
  <2> QED BY <2>6, <2>7
<1>6. Len(ids) \in S
  <2> HIDE DEF S
  <2> QED BY <1>1, <1>4, <1>5, UpTo
<1> QED BY <1>2, <1>6

\* The size of an interval.
LEMMA IntervalSize ==
    ASSUME NEW n \in Nat
    PROVE  IsFiniteSet(1 .. n) /\ Cardinality(1 .. n) = n
<1>1. 1 \in Int /\ n \in Int
  OBVIOUS
<1>2. IsFiniteSet(1 .. n) /\ Cardinality(1 .. n) = IF 1 > n THEN 0 ELSE n - 1 + 1
  BY <1>1, FS_Interval
<1>3. (IF 1 > n THEN 0 ELSE n - 1 + 1) = n
  OBVIOUS
<1> QED BY <1>2, <1>3

\* How many records a list names.
LEMMA CountIds ==
    ASSUME NEW raw, NEW ids \in Seq(Records), NEW named, named = ToSet(ids),
           \A i, j \in DOMAIN ids : i < j => FirstPlace(raw, ids[i]) < FirstPlace(raw, ids[j]),
           \A i \in DOMAIN ids : FirstPlace(raw, ids[i]) \in Nat
    PROVE  Cardinality(named) = Len(ids)
<1>1. Len(ids) \in Nat /\ DOMAIN ids = 1 .. Len(ids)
  OBVIOUS
<1>2. IsFiniteSet(1 .. Len(ids)) /\ Cardinality(1 .. Len(ids)) = Len(ids)
  BY <1>1, IntervalSize
<1>3. ASSUME NEW i \in DOMAIN ids, NEW j \in DOMAIN ids, ids[i] = ids[j] PROVE i = j
  <2>1. FirstPlace(raw, ids[i]) = FirstPlace(raw, ids[j]) /\ FirstPlace(raw, ids[i]) \in Nat
    BY <1>3
  <2> QED BY <1>1, <2>1
<1>4. ids \in [1 .. Len(ids) -> named]
  BY <1>1 DEF ToSet
<1>5. ids \in Bijection(1 .. Len(ids), named)
  BY <1>1, <1>3, <1>4 DEF Bijection, Injection, Surjection, IsInjective, ToSet
<1>6. ExistsBijection(1 .. Len(ids), named)
  BY <1>5 DEF ExistsBijection
<1> QED BY <1>2, <1>6, FS_Bijection

\* A batch is judged and answered as the single lookups are, whatever is stored.
LEMMA BatchIsRight == BatchMatchesSingles
<1> SUFFICES ASSUME NEW raw \in Lists
             PROVE  /\ Refused(raw) <=> Cardinality(ToSet(raw) \ {Blank}) \notin 1 .. MaxBatch
                    /\ ToSet(LatestBatch(raw)) = {FindLast(rec) : rec \in ToSet(raw) \ {Blank}} \ {None}
                    /\ \A j, k \in DOMAIN LatestBatch(raw) : j < k =>
                          FirstPlace(raw, runs[LatestBatch(raw)[j]].resource.resource_id)
                              < FirstPlace(raw, runs[LatestBatch(raw)[k]].resource.resource_id)
  BY DEF BatchMatchesSingles
<1>1. raw \in Seq(Records \cup {Blank}) /\ DOMAIN raw = 1 .. Len(raw) /\ Len(raw) \in Nat
  BY LookupAssumption DEF Lists
<1>2. PICK ids, named : ids = ParseResourceIds(raw) /\ named = ToSet(raw) \ {Blank}
  OBVIOUS
<1>3. /\ ids \in Seq(Records) /\ ToSet(ids) = named
      /\ \A i, j \in DOMAIN ids : i < j => FirstPlace(raw, ids[i]) < FirstPlace(raw, ids[j])
  <2>1. NamesOf(raw, Len(raw), ids)
    BY <1>1, <1>2, ParsedIds
  <2>2. ToSet(raw) = {raw[k] : k \in 1 .. Len(raw)}
    BY <1>1 DEF ToSet
  <2> QED BY <1>2, <2>1, <2>2 DEF NamesOf
<1>4. LatestOf(raw, ids, Len(ids), LatestBatch(raw))
  BY <1>2, <1>3, BatchAnswer
<1>5. Len(ids) \in Nat /\ DOMAIN ids = 1 .. Len(ids)
  BY <1>3
<1>6. ASSUME NEW i \in DOMAIN ids
      PROVE  FirstPlace(raw, ids[i]) \in Nat
  <2>1. ids[i] \in ToSet(raw)
    BY <1>2, <1>3 DEF ToSet
  <2>2. PICK k \in 1 .. Len(raw) : ids[i] = raw[k]
    BY <1>1, <2>1 DEF ToSet
  <2>3. FirstPlace(raw, raw[k]) \in 1 .. k
    BY <1>1, FirstPlaceIs
  <2> QED BY <2>2, <2>3
<1>7. Cardinality(named) = Len(ids)
  BY <1>3, <1>6, CountIds
<1>8. Refused(raw) <=> Cardinality(named) \notin 1 .. MaxBatch
  <2>1. Refused(raw) <=> ids = <<>> \/ Len(ids) > MaxBatch
    BY <1>2 DEF Refused
  <2>2. ids = <<>> <=> Len(ids) = 0
    BY <1>3
  <2>3. MaxBatch \in Nat
    BY LookupAssumption
  <2>4. \A n \in Nat : n = 0 \/ n > MaxBatch <=> n \notin 1 .. MaxBatch
    BY <2>3
  <2>5. Len(ids) = 0 \/ Len(ids) > MaxBatch <=> Len(ids) \notin 1 .. MaxBatch
    BY <1>5, <2>4
  <2> QED BY <1>7, <2>1, <2>2, <2>5
<1>9. named = {ids[k] : k \in 1 .. Len(ids)}
  BY <1>3, <1>5 DEF ToSet
<1>10. {FindLast(rec) : rec \in named} = {FindLast(ids[k]) : k \in 1 .. Len(ids)}
  BY <1>9
<1>11. PICK ans : ans = LatestBatch(raw)
  OBVIOUS
<1> QED BY <1>2, <1>4, <1>8, <1>10, <1>11 DEF LatestOf

\* One batch answers what a question per record would (the DISTINCT ON query and
\* the loops of the latest-by-ids route against the query of the latest-by-id
\* route), in every state and for every list.
THEOREM BatchesMatchSingles == Spec => []BatchMatchesSingles
BY BatchIsRight, PTL

-----------------------------------------------------------------------------
(* The latest run of a record, whatever operators do. *)

\* What a request under way holds. Its registrations are registrations, also
\* when others write the row meanwhile; its run has an id that no run has.
Holds(c) ==
    /\ call[c].pc = "updating" =>
          /\ call[c].workflow \in Identifiers /\ workflows[call[c].workflow] # None
          /\ call[c].wants \in Registration /\ call[c].loaded \in Registration
    /\ call[c].pc = "creating" =>
          /\ call[c].id \in 1 .. built /\ call[c].run \in Run
          /\ runs[call[c].id] = None

\* A run is inserted once: the ids under way are unused, and each is one
\* request's.
FreshIds ==
    /\ TypeOK
    /\ \A c \in Clients : Holds(c)
    /\ \A c, d \in Clients :
          call[c].pc = "creating" /\ call[d].pc = "creating" /\ call[c].id = call[d].id => c = d
    /\ \A r \in RunIds : r > built => runs[r] = None

\* Nothing is under way at first.
LEMMA InitFreshIds == Init => FreshIds
<1> SUFFICES ASSUME Init PROVE FreshIds
  OBVIOUS
<1>1. Idle \in Calls
  BY DEF Idle, Calls
<1>2. TypeOK
  BY <1>1, ApiAssumption DEF Init, TypeOK
<1>3. \A c \in Clients : call[c].pc = "idle"
  BY DEF Init, Idle
<1> QED BY <1>2, <1>3 DEF Init, FreshIds, Holds

\* A request that ends disturbs none of the others.
LEMMA EndingKeepsFreshIds ==
    ASSUME FreshIds, NEW c \in Clients, call' = [call EXCEPT ![c] = Idle], TypeOK',
           built' = built,
           \A i \in Identifiers : workflows[i] # None => workflows'[i] # None,
           \A d \in Clients \ {c} :
              call[d].pc = "creating" => runs'[call[d].id] = runs[call[d].id],
           \A r \in RunIds : r > built => runs'[r] = None
    PROVE  FreshIds'
<1>1. Idle.pc = "idle"
  BY DEF Idle
<1>2. call'[c] = Idle /\ \A d \in Clients \ {c} : call'[d] = call[d]
  BY DEF FreshIds, TypeOK
<1>3. ASSUME NEW d \in Clients
      PROVE  Holds(d)'
  <2>1. CASE d = c
    BY <1>1, <1>2, <2>1 DEF Holds
  <2>2. CASE d # c
    <3>1. Holds(d) /\ call'[d] = call[d]
      BY <1>2, <2>2 DEF FreshIds
    <3> QED BY <2>2, <3>1 DEF Holds
  <2> QED BY <2>1, <2>2
<1>4. ASSUME NEW d \in Clients, NEW e \in Clients,
             call'[d].pc = "creating", call'[e].pc = "creating", call'[d].id = call'[e].id
      PROVE  d = e
  <2>1. d # c /\ e # c
    BY <1>1, <1>2, <1>4
  <2> QED BY <1>2, <1>4, <2>1 DEF FreshIds
<1> QED BY <1>3, <1>4 DEF FreshIds

\* Every step keeps the invariant.
LEMMA NextFreshIds == FreshIds /\ [Next]_vars => FreshIds'
<1> SUFFICES ASSUME FreshIds, [Next]_vars PROVE FreshIds'
  OBVIOUS
<1>0. /\ TypeOK /\ \A c \in Clients : Holds(c)
      /\ \A c, d \in Clients :
            call[c].pc = "creating" /\ call[d].pc = "creating" /\ call[c].id = call[d].id => c = d
      /\ \A r \in RunIds : r > built => runs[r] = None
      /\ Offered \subseteq Registration /\ None \notin Registration /\ None \notin Run
  BY ApiAssumption DEF FreshIds
<1>1. Idle \in Calls /\ Idle.pc = "idle"
  BY DEF Idle, Calls
<1>2. ASSUME NEW i \in Identifiers, NEW reg \in Offered, Register(i, reg)
      PROVE  FreshIds'
  <2>1. TypeOK'
    BY <1>0, <1>2 DEF TypeOK, Register
  <2>2. \A j \in Identifiers : workflows[j] # None => workflows'[j] # None
    BY <1>0, <1>2 DEF TypeOK, Register
  <2> QED BY <1>0, <1>2, <2>1, <2>2 DEF Register, FreshIds, Holds
<1>3. ASSUME NEW c \in Clients, NEW i \in Identifiers, NEW reg \in Offered, BeginUpdate(c, i, reg)
      PROVE  FreshIds'
  <2>1. PICK started : started = [Idle EXCEPT !.pc = "updating", !.workflow = i,
                                              !.wants = reg, !.loaded = workflows[i]]
    OBVIOUS
  <2>2. workflows[i] \in Registration /\ workflows[i] # None
    BY <1>0, <1>3 DEF TypeOK, BeginUpdate
  <2>3. /\ started \in Calls /\ started.pc = "updating" /\ started.workflow = i
        /\ started.wants = reg /\ started.loaded = workflows[i]
    BY <1>0, <2>1, <2>2 DEF Idle, Calls
  <2>4. call' = [call EXCEPT ![c] = started] /\ UNCHANGED <<workflows, runs, built>>
    BY <1>3, <2>1 DEF BeginUpdate
  <2>5. TypeOK'
    BY <1>0, <1>3, <2>3, <2>4 DEF TypeOK, BeginUpdate
  <2>6. call'[c] = started /\ \A d \in Clients \ {c} : call'[d] = call[d]
    BY <1>0, <2>4 DEF TypeOK
  <2>7. ASSUME NEW d \in Clients PROVE Holds(d)'
    <3>1. CASE d = c
      BY <1>0, <2>2, <2>3, <2>4, <2>6, <3>1 DEF Holds
    <3>2. CASE d # c
      BY <1>0, <2>4, <2>6, <3>2 DEF Holds
    <3> QED BY <3>1, <3>2
  <2> QED BY <1>0, <2>3, <2>4, <2>5, <2>6, <2>7 DEF FreshIds
<1>4. ASSUME NEW c \in Clients, FinishUpdate(c)
      PROVE  FreshIds'
  <2>1. PICK i, new : i = call[c].workflow /\ new = Changed(workflows[i], call[c].loaded, call[c].wants)
    OBVIOUS
  <2>2. /\ workflows' = [workflows EXCEPT ![i] = new] /\ call' = [call EXCEPT ![c] = Idle]
        /\ UNCHANGED <<asked, overlapped, runs, built>>
    BY <1>4, <2>1 DEF FinishUpdate
  <2>3. i \in Identifiers /\ workflows[i] \in Registration /\ new \in Registration
    BY <1>0, <1>4, <2>1, ChangedIsRegistration DEF Holds, FinishUpdate, TypeOK
  <2>4. TypeOK'
    BY <1>0, <1>1, <2>2, <2>3 DEF TypeOK
  <2>5. \A j \in Identifiers : workflows[j] # None => workflows'[j] # None
    BY <1>0, <2>2, <2>3 DEF TypeOK
  <2> QED BY <1>0, <2>2, <2>4, <2>5, EndingKeepsFreshIds
<1>5. ASSUME NEW c \in Clients, NEW run \in Run, Build(c, run)
      PROVE  FreshIds'
  <2>1. PICK started : started = [Idle EXCEPT !.pc = "creating", !.id = built + 1, !.run = run]
    OBVIOUS
  <2>2. /\ built \in Nat /\ built + 1 \in RunIds /\ built + 1 \in Nat
        /\ built' = built + 1 /\ built' \in 0 .. MaxRuns
    BY <1>0, <1>5, ApiAssumption DEF TypeOK, Build, RunIds
  <2>3. started \in Calls /\ started.pc = "creating" /\ started.id = built + 1 /\ started.run = run
    BY <2>1, <2>2 DEF Idle, Calls
  <2>4. call' = [call EXCEPT ![c] = started] /\ UNCHANGED <<workflows, asked, overlapped, runs>>
    BY <1>5, <2>1 DEF Build
  <2>5. TypeOK'
    BY <1>0, <2>2, <2>3, <2>4 DEF TypeOK
  <2>6. call'[c] = started /\ \A d \in Clients \ {c} : call'[d] = call[d]
    BY <1>0, <2>4 DEF TypeOK
  <2>7. ASSUME NEW d \in Clients PROVE Holds(d)'
    <3>1. CASE d = c
      <4>1. runs[built + 1] = None /\ built + 1 \in 1 .. built'
        BY <1>0, <2>2
      <4> QED BY <2>3, <2>4, <2>6, <3>1, <4>1 DEF Holds
    <3>2. CASE d # c
      <4>1. Holds(d) /\ call'[d] = call[d]
        BY <1>0, <2>6, <3>2
      <4>2. \A k \in 1 .. built : k \in 1 .. built'
        BY <2>2
      <4> QED BY <2>4, <4>1, <4>2 DEF Holds
    <3> QED BY <3>1, <3>2
  <2>8. \A d \in Clients \ {c} : call'[d].pc = "creating" => call'[d].id # built + 1
    <3>1. \A d \in Clients \ {c} : call[d].pc = "creating" => call[d].id \in 1 .. built
      BY <1>0 DEF Holds
    <3> QED BY <2>2, <2>6, <3>1
  <2>9. \A r \in RunIds : r > built' => runs'[r] = None
    BY <1>0, <2>2, <2>4 DEF RunIds
  <2> QED BY <1>0, <2>3, <2>5, <2>6, <2>7, <2>8, <2>9 DEF FreshIds
<1>6. ASSUME NEW c \in Clients, NEW q \in Requests, Trigger(c, q)
      PROVE  FreshIds'
  <2>1. q \in Request /\ q.workflow \in Identifiers
    BY DEF Requests, Request
  <2>2. workflows[q.workflow] \in Registration
    BY <1>0, <1>6, <2>1 DEF Trigger, TypeOK
  <2>3. Built(q.workflow, workflows[q.workflow], q) \in Run
    BY <2>1, <2>2 DEF Built, Run, Request, Registration
  <2> QED BY <1>5, <1>6, <2>3 DEF Trigger
<1>7. ASSUME NEW c \in Clients, TriggerLegacy(c)
      PROVE  FreshIds'
  BY <1>5, <1>7, LegacyIsDrivable DEF TriggerLegacy
<1>8. ASSUME NEW c \in Clients, Create(c)
      PROVE  FreshIds'
  <2>1. PICK id, run : id = call[c].id /\ run = call[c].run
    OBVIOUS
  <2>2. /\ runs' = [runs EXCEPT ![id] = run] /\ call' = [call EXCEPT ![c] = Idle]
        /\ UNCHANGED <<workflows, asked, overlapped, built>> /\ call[c].pc = "creating"
    BY <1>8, <2>1 DEF Create, Inserted
  <2>3. id \in 1 .. built /\ run \in Run /\ built \in 0 .. MaxRuns
    BY <1>0, <2>1, <2>2 DEF Holds, TypeOK
  <2>4. TypeOK'
    BY <1>0, <1>1, <2>2, <2>3 DEF TypeOK
  <2>5. \A k : k # id => runs'[k] = runs[k]
    BY <1>0, <2>2 DEF TypeOK
  <2>6. \A d \in Clients \ {c} : call[d].pc = "creating" => call[d].id # id
    BY <1>0, <2>1, <2>2
  <2>7. \A r \in RunIds : r > built => r # id
    BY <2>3 DEF RunIds
  <2>8. \A d \in Clients \ {c} :
           call[d].pc = "creating" => runs'[call[d].id] = runs[call[d].id]
    BY <2>5, <2>6
  <2>9. \A r \in RunIds : r > built => runs'[r] = None
    BY <1>0, <2>5, <2>7
  <2> QED BY <2>2, <2>4, <2>8, <2>9, EndingKeepsFreshIds
<1>9. ASSUME NEW c \in Clients, Abort(c)
      PROVE  FreshIds'
  <2>1. TypeOK'
    BY <1>0, <1>1, <1>9 DEF TypeOK, Abort
  <2> QED BY <1>0, <1>9, <2>1, EndingKeepsFreshIds DEF Abort
<1>10. ASSUME NEW r \in RunIds, NEW rec \in Records, SaveRecord(r, rec)
       PROVE  FreshIds'
  <2>1. PICK made, new : made = [vendor |-> TRUE, resource_id |-> rec]
                         /\ new = [runs[r] EXCEPT !.resource = made]
    OBVIOUS
  <2>2. runs[r] \in Run /\ runs[r] # None /\ made \in Resource
    BY <1>0, <1>10, <2>1 DEF TypeOK, SaveRecord, AwaitsRecord, Resource
  <2>3. new \in Run
    BY <2>1, <2>2 DEF Run
  <2>4. runs' = [runs EXCEPT ![r] = new] /\ UNCHANGED <<workflows, asked, overlapped, call, built>>
    BY <1>10, <2>1 DEF SaveRecord
  <2>5. TypeOK'
    BY <1>0, <2>3, <2>4 DEF TypeOK
  <2>6. \A k : k # r => runs'[k] = runs[k]
    BY <1>0, <2>4 DEF TypeOK
  <2>7. ASSUME NEW d \in Clients PROVE Holds(d)'
    <3>1. Holds(d) /\ (call[d].pc = "creating" => call[d].id # r)
      BY <1>0, <2>2 DEF Holds
    <3> QED BY <2>4, <2>6, <3>1 DEF Holds
  <2> QED BY <1>0, <2>2, <2>4, <2>5, <2>6, <2>7 DEF FreshIds
<1>11. CASE UNCHANGED vars
  BY <1>11 DEF vars, FreshIds, TypeOK, Holds
<1> QED BY <1>2, <1>3, <1>4, <1>6, <1>7, <1>8, <1>9, <1>10, <1>11 DEF Next, Serve

\* No step takes a run from its record.
LEMMA RunsOfGrow ==
    ASSUME FreshIds, [Next]_vars, NEW rec \in Records
    PROVE  RunsOf(rec) \subseteq RunsOf(rec)'
<1> SUFFICES ASSUME NEW r \in RunIds, runs[r] # None, runs[r].resource # None,
                    runs[r].resource.resource_id = rec
             PROVE  runs'[r] = runs[r]
  BY DEF RunsOf, Committed
<1>1. ASSUME NEW c \in Clients, Create(c)
      PROVE  runs'[r] = runs[r]
  <2>1. call[c].id # r
    BY <1>1 DEF FreshIds, Holds, Create
  <2> QED BY <1>1, <2>1 DEF Create, FreshIds, TypeOK
<1>2. ASSUME NEW s \in RunIds, NEW x \in Records, SaveRecord(s, x)
      PROVE  runs'[r] = runs[r]
  <2>1. s # r
    BY <1>2, ApiAssumption DEF SaveRecord, AwaitsRecord
  <2> QED BY <1>2, <2>1 DEF SaveRecord, FreshIds, TypeOK
<1> QED BY <1>1, <1>2 DEF Next, Serve, vars, Register, BeginUpdate, FinishUpdate, Trigger,
                          TriggerLegacy, Build, Abort

\* The latest run of a record is the latest or an older one afterwards.
LEMMA LatestOnlyGrows ==
    ASSUME FreshIds, [Next]_vars, NEW rec \in Records, FindLast(rec) # None
    PROVE  FindLast(rec)' # None /\ FindLast(rec)' >= FindLast(rec)
<1>1. RunsOf(rec) # {} /\ FindLast(rec) \in RunsOf(rec)
  BY FindLastIs
<1>2. PICK S : S = RunsOf(rec)'
  OBVIOUS
<1>3. MaxRuns \in Nat /\ S \in SUBSET (1 .. MaxRuns) /\ None \notin 1 .. MaxRuns
  BY <1>2, ApiAssumption DEF RunsOf, Committed, RunIds
<1>4. FindLast(rec) \in S
  BY <1>1, <1>2, RunsOfGrow
<1>5. Max(S) \in S /\ Max(S) >= FindLast(rec)
  BY <1>3, <1>4, MaxIs
<1>6. FindLast(rec)' = Max(S)
  BY <1>2, <1>4 DEF FindLast, NewestFirst
<1> QED BY <1>3, <1>5, <1>6

\* The latest run that a record is shown with never goes back to an older one
\* (the ORDER BY of the finders over runs that insert out of order and get their
\* record late).
THEOREM LatestRunsNeverGoBack == Spec => LatestNeverGoesBack
<1>1. FreshIds /\ [Next]_vars =>
         [\A rec \in Records :
             FindLast(rec) # None => FindLast(rec)' # None /\ FindLast(rec)' >= FindLast(rec)]_vars
  BY LatestOnlyGrows
<1>2. QED
  BY InitFreshIds, NextFreshIds, <1>1, PTL DEF Spec, LatestNeverGoesBack
=============================================================================
