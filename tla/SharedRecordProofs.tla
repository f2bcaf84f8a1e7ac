-------------------------- MODULE SharedRecordProofs ------------------------
(***************************************************************************)
(* RecordInv is inductive for any number of runs and of crashes, and the   *)
(* safety properties of SharedRecord follow from it.                       *)
(***************************************************************************)
EXTENDS SharedRecord, TLAPS

\* Before anything is triggered there is no record and no run knows an id.
LEMMA InitRecordInv == Init => RecordInv
<1> SUFFICES ASSUME Init PROVE RecordInv
    OBVIOUS
<1> USE RecordAssumption DEF Init, Untriggered, VendorIds
<1>1. TypeOK
    BY DEF TypeOK, Progress, Operations, Stages, InFlightStates
<1>2. Triggered = {} /\ Undecided = {}
    BY DEF Triggered, Undecided
<1>3. ASSUME NEW r \in Runs
      PROVE  Sound(r) /\ MovedForGood(r)
    BY <1>2 DEF Sound, MovedForGood, Trail
<1>4. MadeForDeaths
    BY DEF MadeForDeaths
<1>5. QED
    BY <1>1, <1>2, <1>3, <1>4 DEF RecordInv, InFlightStates

-----------------------------------------------------------------------------
(* What one step does. *)

\* Triggering a run adds an undecided run: the creation, or a run on an id the
\* record has stood under.
LEMMA TriggerKeeps ==
    ASSUME RecordInv, NEW r \in Runs, NEW op \in Operations, Trigger(r, op)
    PROVE  RecordInv'
<1>1. PICK id \in VendorIds, out \in {None, <<r, "real">>} :
         /\ IF op = "CREATE" THEN id = <<r, "placeholder">> ELSE stood[id] # 0
         /\ run' = [run EXCEPT ![r] = [op |-> op, stage |-> "new", key |-> id, at |-> id,
                                       out |-> out, saved |-> FALSE, since |-> stood[id],
                                       result |-> "none"]]
    BY DEF Trigger
<1> DEFINE first == [op |-> op, stage |-> "new", key |-> id, at |-> id, out |-> out,
                     saved |-> FALSE, since |-> stood[id], result |-> "none"]
<1>2. /\ run \in [Runs -> Progress]
      /\ stood \in [VendorIds -> Nat]
      /\ \A s \in Runs : Sound(s) /\ MovedForGood(s)
    BY DEF RecordInv, TypeOK
<1>3. /\ rec' = rec /\ crashes' = crashes /\ made' = made /\ stood' = stood /\ Trail' = Trail
      /\ op = "CREATE" <=> r = Creator
    BY DEF Trigger, history, Trail
<1>4. run[r].stage = "none" /\ run[r].key = None /\ ~run[r].saved
    BY <1>2 DEF Trigger, Sound
<1>5. id # None /\ (op # "CREATE" => id # <<r, "real">>)
    BY <1>1, <1>2, <1>4, RecordAssumption DEF MovedForGood
<1>6. first \in Progress
    BY <1>1, <1>2 DEF Progress, Operations, Stages, VendorIds
<1>7. run'[r] = first /\ \A s \in Runs \ {r} : run'[s] = run[s]
    BY <1>1, <1>2
<1>8. TypeOK'
    BY <1>1, <1>2, <1>3, <1>6 DEF TypeOK, RecordInv
<1>9. /\ run'[r].stage = "new" /\ run'[r].key = id /\ run'[r].at = id
      /\ run'[r].out = out /\ ~run'[r].saved /\ run'[r].op = op /\ run'[r].since = stood[id]
    BY <1>7
<1> HIDE DEF first
<1>10. Triggered' = Triggered \cup {r} /\ r \notin Triggered
    BY <1>4, <1>7, <1>9 DEF Triggered
<1>11. Undecided' = Undecided \cup {r}
    BY <1>7, <1>9, <1>10 DEF Undecided, Triggered
<1>12. rec'.state \in InFlightStates => \E s \in Undecided' : Owns(s)'
    BY <1>3, <1>4, <1>7, <1>11 DEF RecordInv, Owns, Undecided, Triggered
<1>13. ASSUME NEW s \in Runs
       PROVE  Sound(s)'
    <2>1. CASE s = r
        <3>1. op = "CREATE" => r = Creator /\ id = <<r, "placeholder">>
            BY <1>1, <1>3
        <3>2. stood[id] <= stood'[id]
            BY <1>2, <1>3
        <3>3. QED
            BY <2>1, <1>1, <1>5, <1>9, <3>1, <3>2 DEF Sound
    <2>2. CASE s # r
        BY <2>2, <1>2, <1>3, <1>7, <1>10, <1>11 DEF Sound, Triggered
    <2>3. QED
        BY <2>1, <2>2
<1>14. ASSUME NEW s \in Runs
       PROVE  MovedForGood(s)'
    <2>1. s = r => stood[<<s, "real">>] = 0 /\ <<s, "real">> \notin Trail
        BY <1>2, <1>4 DEF MovedForGood, Trail
    <2>2. QED
        BY <2>1, <1>2, <1>3, <1>7 DEF MovedForGood
<1>15. MadeForDeaths'
    <2>1. run'[Creator].stage \in {"none", "new"} => run[Creator].stage \in {"none", "new"}
        BY <1>4, <1>7, RecordAssumption
    <2>2. QED
        BY <2>1, <1>3 DEF MadeForDeaths, RecordInv
<1>16. ASSUME NEW s \in Runs
       PROVE  (run[s].op = "DELETE" /\ run[s].stage \in {"ending", "over"}
                 /\ run[s].result = "COMPLETED" /\ Found(run[s].key) => run[s].since < made)'
    BY <1>3, <1>7, <1>9 DEF RecordInv, Found
<1>17. QED
    BY <1>3, <1>8, <1>12, <1>13, <1>14, <1>15, <1>16 DEF RecordInv

RecordStates == {"absent", "READY", "DELETED"} \cup InFlightStates

\* The steps of a run that was triggered: r's progress becomes p under the same
\* operation and id, and is where a drive starts only through a death, ...
Moves(r, p) ==
    /\ run' = [run EXCEPT ![r] = p]
    /\ p.op = run[r].op /\ p.key = run[r].key /\ p.since = run[r].since
    /\ p.out \in {None, <<r, "real">>}
    /\ p.stage # "none"
    /\ crashes' \in {crashes, crashes + 1}
    /\ p.stage = "new" => crashes' = crashes + 1
    /\ run[r].saved => p.saved
    /\ p.saved => p.stage # "new"
    /\ p.stage = "finalizing" => p.saved
    /\ p.stage \notin {"ending", "over"} => p.at = p.key

\* ... a record that is in flight afterwards is r's, or it was in flight before
\* and r does not walk away from it, ...
KeepsOwner(r, p) ==
    rec'.state \in InFlightStates =>
        \/ rec' = rec /\ (r \in Undecided /\ Owns(r) => p.stage \notin {"ending", "over"})
        \/ /\ p.stage \notin {"ending", "over"}
           /\ p.key = rec'.key
           /\ OperationState(p.op) = rec'.state

\* ... and the record's id stays, is dropped, is moved on by the run whose id it
\* is, or is made by the creation when there is no record.
KeepsId(r, p) ==
    \/ rec'.key \in {rec.key, None} /\ made' = made /\ stood' = stood
    \/ /\ rec'.key = <<r, "real">> /\ rec.key = p.key /\ p.saved
       /\ made' = made
       /\ stood' = [stood EXCEPT ![<<r, "real">>] = made]
    \/ /\ rec'.key = <<r, "placeholder">> /\ p.key = <<r, "placeholder">>
       /\ r = Creator /\ run[r].stage = "new"
       /\ made' = made + 1
       /\ stood' = [stood EXCEPT ![<<r, "placeholder">>] = made + 1]

Deletes(p) ==
    p.op = "DELETE" /\ p.stage \in {"ending", "over"} /\ p.result = "COMPLETED"
        => rec'.key # p.key \/ p.since < made'

RecordType ==
    /\ rec \in [state : RecordStates, key : VendorIds \cup {None}]
    /\ rec.state = "absent" <=> rec.key = None

\* A step of that shape keeps the invariant.
LEMMA StepKeeps ==
    ASSUME RecordInv, NEW r \in Triggered, NEW p \in Progress, RecordType',
           Moves(r, p), KeepsOwner(r, p), KeepsId(r, p), Deletes(p)
    PROVE  RecordInv'
<1>1. r \in Runs /\ run[r].stage # "none"
    BY DEF Triggered
<1>2. /\ run \in [Runs -> Progress]
      /\ made \in Nat /\ crashes \in Nat /\ stood \in [VendorIds -> Nat]
      /\ \A id \in VendorIds : stood[id] <= made
      /\ rec.key # None => rec.key \in Trail
      /\ \A s \in Runs : Sound(s) /\ MovedForGood(s)
      /\ \A s \in Runs : run[s].key \in VendorIds \cup {None} /\ run[s].since \in Nat
    BY DEF RecordInv, TypeOK, Progress
<1>p. /\ p.op = run[r].op /\ p.key = run[r].key /\ p.since = run[r].since
      /\ p.out \in {None, <<r, "real">>}
      /\ p.stage # "none"
      /\ crashes' \in {crashes, crashes + 1}
      /\ p.stage = "new" => crashes' = crashes + 1
      /\ run[r].saved => p.saved
      /\ p.saved => p.stage # "new"
      /\ p.stage = "finalizing" => p.saved
      /\ p.stage \notin {"ending", "over"} => p.at = p.key
    BY DEF Moves
<1>i. \A s \in Runs : <<s, "real">> \in VendorIds /\ <<s, "placeholder">> \in VendorIds
    BY DEF VendorIds
<1>h. /\ made' \in Nat /\ stood' \in [VendorIds -> Nat]
      /\ \A id \in VendorIds : stood'[id] <= made' /\ stood[id] <= stood'[id]
    <2>1. CASE made' = made /\ stood' = stood
        BY <2>1, <1>2
    <2>2. CASE made' = made /\ stood' = [stood EXCEPT ![<<r, "real">>] = made]
        <3>1. ASSUME NEW id \in VendorIds
              PROVE  stood'[id] <= made' /\ stood[id] <= stood'[id]
            <4>1. stood[id] \in Nat /\ stood[id] <= made
                BY <1>2
            <4>2. stood'[id] = IF id = <<r, "real">> THEN made ELSE stood[id]
                BY <2>2, <1>2
            <4>3. QED
                BY <2>2, <4>1, <4>2, <1>2
        <3>2. made' \in Nat /\ stood' \in [VendorIds -> Nat]
            BY <2>2, <1>2
        <3>3. QED
            BY <3>1, <3>2
    <2>3. CASE made' = made + 1 /\ stood' = [stood EXCEPT ![<<r, "placeholder">>] = made + 1]
        <3>1. ASSUME NEW id \in VendorIds
              PROVE  stood'[id] <= made' /\ stood[id] <= stood'[id]
            <4>1. stood[id] \in Nat /\ stood[id] <= made
                BY <1>2
            <4>2. stood'[id] = IF id = <<r, "placeholder">> THEN made + 1 ELSE stood[id]
                BY <2>3, <1>2
            <4>3. QED
                BY <2>3, <4>1, <4>2, <1>2
        <3>2. made + 1 \in Nat
            BY <1>2
        <3>3. made' \in Nat /\ stood' \in [VendorIds -> Nat]
            BY <2>3, <3>2, <1>2
        <3>4. QED
            BY <3>1, <3>3
    <2>4. QED
        BY <2>1, <2>2, <2>3 DEF KeepsId
<1>k. rec'.key # None => rec'.key \in Trail'
    <2>1. CASE rec'.key \in {rec.key, None} /\ made' = made /\ stood' = stood
        BY <2>1, <1>2 DEF Trail
    <2>2. CASE /\ rec'.key = <<r, "real">> /\ rec.key = p.key
               /\ made' = made
               /\ stood' = [stood EXCEPT ![<<r, "real">>] = made]
        <3>1. run[r].key # None
            BY <1>1, <1>2 DEF Sound
        <3>2. made # 0
            BY <3>1, <2>2, <1>2, <1>p DEF Trail
        <3>3. stood'[<<r, "real">>] = made
            BY <2>2, <1>1, <1>2, <1>i
        <3>4. QED
            BY <2>2, <3>2, <3>3, <1>1, <1>i DEF Trail
    <2>3. CASE /\ rec'.key = <<r, "placeholder">>
               /\ made' = made + 1
               /\ stood' = [stood EXCEPT ![<<r, "placeholder">>] = made + 1]
        <3>1. stood'[<<r, "placeholder">>] = made'
            BY <2>3, <1>1, <1>2, <1>i
        <3>2. made' # 0
            BY <2>3, <1>2
        <3>3. QED
            BY <2>3, <3>1, <3>2, <1>1, <1>i DEF Trail
    <2>4. QED
        BY <2>1, <2>2, <2>3 DEF KeepsId
<1>3. TypeOK'
    BY <1>1, <1>2, <1>p, <1>h DEF TypeOK, RecordType, RecordStates, Moves
<1>4. run'[r] = p /\ \A s \in Runs \ {r} : run'[s] = run[s]
    BY <1>1, <1>2 DEF Moves
<1>5. Triggered' = Triggered
    BY <1>1, <1>4, <1>p DEF Triggered
<1>6. /\ Undecided' \ {r} = Undecided \ {r}
      /\ r \in Undecided' <=> p.stage \notin {"ending", "over"}
    BY <1>1, <1>4, <1>5 DEF Undecided, Triggered
<1>7. rec'.state \in InFlightStates => \E s \in Undecided' : Owns(s)'
    <2>1. SUFFICES ASSUME rec'.state \in InFlightStates
                   PROVE  \E s \in Undecided' : Owns(s)'
        OBVIOUS
    <2>2. CASE rec' = rec /\ (r \in Undecided /\ Owns(r) => p.stage \notin {"ending", "over"})
        <3>1. PICK s \in Undecided : Owns(s)
            BY <2>1, <2>2 DEF RecordInv
        <3>2. s \in Undecided'
            BY <3>1, <2>2, <1>6
        <3>3. run'[s].key = run[s].key /\ run'[s].op = run[s].op
            BY <3>1, <1>4, <1>p DEF Undecided, Triggered
        <3>4. QED
            BY <3>1, <3>2, <3>3, <2>2 DEF Owns
    <2>3. CASE /\ p.stage \notin {"ending", "over"}
               /\ p.key = rec'.key
               /\ OperationState(p.op) = rec'.state
        BY <2>3, <1>4, <1>6 DEF Owns
    <2>4. QED
        BY <2>1, <2>2, <2>3 DEF KeepsOwner
<1>8. \A s \in Runs : run'[s].key = run[s].key /\ run'[s].op = run[s].op
                    /\ (run[s].saved => run'[s].saved) /\ run'[s].since = run[s].since
    BY <1>4, <1>p
<1>9. ASSUME NEW s \in Runs
      PROVE  Sound(s)'
    <2>1. s \in Triggered /\ run[s].op # "CREATE" =>
             run[s].key # <<s, "real">> /\ run[s].since <= stood'[run[s].key]
        <3>1. s \in Triggered => run[s].key \in VendorIds
            BY <1>2 DEF Sound, Triggered
        <3>2. s \in Triggered /\ run[s].op # "CREATE" =>
                 run[s].key # <<s, "real">> /\ run[s].since <= stood[run[s].key]
            BY <1>2 DEF Sound
        <3>3. s \in Triggered => /\ stood[run[s].key] \in Nat /\ stood'[run[s].key] \in Nat
                                /\ stood[run[s].key] <= stood'[run[s].key]
            BY <3>1, <1>2, <1>h
        <3>4. QED
            BY <3>2, <3>3, <1>2
    <2>2. CASE s = r
        BY <2>1, <2>2, <1>1, <1>2, <1>4, <1>5, <1>6, <1>8, <1>p DEF Sound, Triggered
    <2>3. CASE s # r
        BY <2>1, <2>3, <1>1, <1>2, <1>4, <1>5, <1>6, <1>8 DEF Sound, Triggered
    <2>4. QED
        BY <2>2, <2>3
<1>10. ASSUME NEW t \in Runs, rec'.key = <<t, "real">>, rec.key = run[t].key, t = r, p.saved,
              made' = made, stood' = [stood EXCEPT ![<<t, "real">>] = made]
       PROVE  <<t, "real">> \notin Trail /\ run[t].key \in Trail /\ run[t].key # <<t, "real">>
    <2>1. run[t].key # None
        BY <1>1, <1>2, <1>10 DEF Sound
    <2>2. run[t].key \in Trail
        BY <2>1, <1>2, <1>10
    <2>3. <<t, "real">> \notin Trail
        BY <1>2, <1>10 DEF MovedForGood
    <2>4. QED
        BY <2>2, <2>3
<1>11. ASSUME NEW s \in Runs
       PROVE  MovedForGood(s)'
    <2>1. CASE rec'.key \in {rec.key, None} /\ made' = made /\ stood' = stood
        <3>1. Trail' = Trail
            BY <2>1 DEF Trail
        <3>2. run[s].key \in Trail => run[s].key # None
            BY RecordAssumption DEF Trail
        <3>3. QED
            BY <2>1, <3>1, <3>2, <1>2, <1>8 DEF MovedForGood
    <2>2. CASE /\ rec'.key = <<r, "real">> /\ rec.key = p.key /\ p.saved
               /\ made' = made
               /\ stood' = [stood EXCEPT ![<<r, "real">>] = made]
        <3>1. <<r, "real">> \notin Trail /\ run[r].key \in Trail /\ run[r].key # <<r, "real">>
            BY <2>2, <1>1, <1>10, <1>p
        <3>2. \A id \in VendorIds : id # <<r, "real">> => (stood'[id] = stood[id] /\ (id \in Trail' <=> id \in Trail))
            BY <2>2, <1>2 DEF Trail
        <3>3. Trail \subseteq Trail' /\ Trail \subseteq VendorIds
            BY <2>2, <1>2, <3>1, <3>2 DEF Trail
        <3>4. CASE s = r
            BY <3>4, <3>1, <3>3, <2>2, <1>4, <1>8, <1>p DEF MovedForGood
        <3>5. CASE s # r
            <4>1. <<s, "real">> # <<r, "real">>
                BY <3>5
            <4>2. stood'[<<s, "real">>] = stood[<<s, "real">>]
                  /\ (<<s, "real">> \in Trail' <=> <<s, "real">> \in Trail)
                BY <4>1, <3>2, <1>i
            <4>3. <<s, "real">> \in Trail => run[s].key \in Trail /\ run[s].key # <<r, "real">>
                BY <3>1, <1>2 DEF MovedForGood
            <4>4. QED
                BY <4>2, <4>3, <3>3, <2>2, <1>2, <1>8 DEF MovedForGood
        <3>6. QED
            BY <3>4, <3>5
    <2>3. CASE /\ rec'.key = <<r, "placeholder">>
               /\ made' = made + 1
               /\ stood' = [stood EXCEPT ![<<r, "placeholder">>] = made + 1]
        <3>1. <<s, "real">> # <<r, "placeholder">>
            OBVIOUS
        <3>2. stood'[<<s, "real">>] = stood[<<s, "real">>] /\ stood[<<s, "real">>] <= made
              /\ stood[<<s, "real">>] \in Nat
            BY <2>3, <3>1, <1>2, <1>i
        <3>3. <<s, "real">> \notin Trail'
            BY <2>3, <3>2, <1>2 DEF Trail
        <3>4. QED
            BY <3>2, <3>3, <1>2, <1>8 DEF MovedForGood
    <2>4. QED
        BY <2>1, <2>2, <2>3 DEF KeepsId
<1>12. ASSUME NEW s \in Runs,
              run'[s].op = "DELETE", run'[s].stage \in {"ending", "over"},
              run'[s].result = "COMPLETED", rec'.key = run'[s].key
       PROVE  run'[s].since < made'
    <2>1. CASE s = r
        BY <2>1, <1>4, <1>12 DEF Deletes
    <2>2. CASE s # r
        <3>0. run'[s] = run[s] /\ s \in Triggered
            BY <2>2, <1>4, <1>12 DEF Triggered
        <3>1. run[s].key # None /\ run[s].key \in VendorIds
            BY <3>0, <1>2 DEF Sound, Triggered
        <3>2. rec.key = run[s].key => run[s].since < made
            BY <3>0, <3>1, <1>12 DEF RecordInv, Found
        <3>3. run[s].since <= stood[run[s].key] /\ stood[run[s].key] <= made
              /\ stood[run[s].key] \in Nat
            BY <3>0, <3>1, <1>2, <1>12 DEF Sound
        <3>4. CASE rec'.key \in {rec.key, None} /\ made' = made
            BY <3>4, <3>0, <3>1, <3>2, <1>12
        <3>5. CASE /\ rec'.key = <<r, "real">> /\ rec.key = p.key /\ p.saved
                   /\ made' = made
                   /\ stood' = [stood EXCEPT ![<<r, "real">>] = made]
            <4>1. run[s].key = <<r, "real">> /\ run[s].key \notin Trail
                BY <3>0, <3>5, <1>1, <1>10, <1>12, <1>p
            <4>2. made = 0 \/ stood[run[s].key] # made
                BY <4>1, <3>1 DEF Trail
            <4>3. made # 0
                BY <3>5, <1>1, <1>10, <1>p DEF Trail
            <4>4. QED
                BY <4>2, <4>3, <3>0, <3>3, <3>5, <1>2
        <3>6. CASE made' = made + 1
            BY <3>6, <3>0, <3>3, <1>2
        <3>7. QED
            BY <3>4, <3>5, <3>6 DEF KeepsId
    <2>3. QED
        BY <2>1, <2>2
<1>13. MadeForDeaths'
    <2>1. /\ made <= crashes + 1
          /\ run[Creator].stage \in {"none", "new"} => made <= crashes
        BY DEF RecordInv, MadeForDeaths
    <2>a. /\ made \in Nat /\ crashes \in Nat /\ crashes' \in {crashes, crashes + 1}
          /\ p.stage # "none" /\ (p.stage = "new" => crashes' = crashes + 1)
        BY <1>2, <1>p
    <2>b. /\ Creator = r => run'[Creator].stage = p.stage
          /\ Creator # r => run'[Creator].stage = run[Creator].stage
        BY <1>4, RecordAssumption
    <2>c. made \in Nat /\ crashes \in Nat /\ crashes' \in Nat /\ crashes <= crashes'
        BY <2>a
    <2>2. CASE made' = made
        <3>1. made <= crashes' + 1
            BY <2>1, <2>c
        <3>2. run'[Creator].stage \in {"none", "new"} => made <= crashes'
            <4>1. CASE Creator = r
                BY <4>1, <2>1, <2>a, <2>b
            <4>2. CASE Creator # r
                BY <4>2, <2>1, <2>a, <2>b
            <4>3. QED
                BY <4>1, <4>2
        <3>3. QED
            BY <2>2, <3>1, <3>2 DEF MadeForDeaths
    <2>3. CASE made' = made + 1 /\ r = Creator /\ run[r].stage = "new"
        <3>1. made <= crashes
            BY <2>1, <2>3
        <3>2. run'[Creator].stage = "new" => made + 1 <= crashes'
            <4>1. run'[Creator].stage = "new" => crashes' = crashes + 1
                BY <2>3, <2>a, <2>b
            <4>2. made + 1 <= crashes + 1
                BY <3>1, <2>c
            <4>3. QED
                BY <4>1, <4>2
        <3>3. made + 1 <= crashes' + 1
            <4>1. \A i, j, k \in Nat : i <= j /\ j <= k => i + 1 <= k + 1
                OBVIOUS
            <4>2. QED
                BY <4>1, <3>1, <2>c
        <3>4. run'[Creator].stage # "none"
            BY <2>3, <2>a, <2>b
        <3>5. QED
            BY <2>3, <3>2, <3>3, <3>4 DEF MadeForDeaths
    <2>4. QED
        BY <2>2, <2>3 DEF KeepsId
<1>14. QED
    BY <1>3, <1>7, <1>9, <1>11, <1>12, <1>13, <1>h, <1>k DEF RecordInv, RecordType, Found

-----------------------------------------------------------------------------
(* One step per action. *)

\* The facts every action starts from.
LEMMA Facts ==
    ASSUME RecordInv, NEW r \in Triggered
    PROVE  /\ r \in Runs
           /\ run[r] \in Progress
           /\ run \in [Runs -> Progress]
           /\ RecordType
           /\ run[r].key # None
           /\ run[r].key \in VendorIds
           /\ run[r].stage \notin {"ending", "over"} => run[r].at = run[r].key
           /\ run[r].saved => run[r].stage # "new"
           /\ run[r].op = "CREATE" => r = Creator /\ run[r].key = <<r, "placeholder">>
           /\ run[r].out \in {None, <<r, "real">>}
           /\ made \in Nat /\ crashes \in Nat /\ stood \in [VendorIds -> Nat]
           /\ rec.key # None => rec.key \in Trail
<1>1. r \in Runs /\ run[r].stage # "none"
    BY DEF Triggered
<1>2. /\ TypeOK /\ Sound(r) /\ (rec.state = "absent" <=> rec.key = None)
      /\ rec.key # None => rec.key \in Trail
    BY <1>1 DEF RecordInv
<1>3. run[r] \in Progress /\ run[r].key \in VendorIds \cup {None}
    BY <1>1, <1>2 DEF TypeOK, Progress
<1>4. QED
    BY <1>1, <1>2, <1>3 DEF Sound, TypeOK, Undecided, RecordType, RecordStates

\* The record's calls, on an id: what they do to its id and its state.
LEMMA Calls ==
    ASSUME RecordType, NEW id \in VendorIds, NEW state \in RecordStates \ {"absent"}
    PROVE  /\ Found(id) <=> rec.key = id
           /\ rec.key = id => Patched(id, state) = [state |-> state, key |-> id]
           /\ rec.key # id => Patched(id, state) = rec
           /\ rec.key = id => Removed(id) = [state |-> "absent", key |-> None]
           /\ rec.key # id => Removed(id) = rec
<1>1. id # None
    BY RecordAssumption
<1>2. Found(id) <=> rec.key = id
    BY <1>1 DEF Found, RecordType
<1>3. rec.key = id => [rec EXCEPT !.state = state] = [state |-> state, key |-> id]
    BY DEF RecordType
<1>4. QED
    BY <1>2, <1>3 DEF Patched, Removed

\* A run's own steps and its worker's death keep the invariant.
LEMMA DriveKeeps ==
    ASSUME RecordInv, NEW r \in Runs, Drive(r) \/ Crash(r)
    PROVE  RecordInv'
<1> USE DEF history
<1>1. r \in Triggered
    BY DEF Drive, Configure, SavePoll, EngineSucceeds, EndsBadly, Release, Finalize, MarkDeleted,
           DeleteRecord, SaveEnd, Crash, Triggered
<1>2. /\ run[r] \in Progress
      /\ run \in [Runs -> Progress]
      /\ RecordType
      /\ run[r].key # None
      /\ run[r].key \in VendorIds
      /\ run[r].stage \notin {"ending", "over"} => run[r].at = run[r].key
      /\ run[r].saved => run[r].stage # "new"
      /\ run[r].op = "CREATE" => r = Creator /\ run[r].key = <<r, "placeholder">>
      /\ run[r].out \in {None, <<r, "real">>}
      /\ made \in Nat /\ crashes \in Nat /\ stood \in [VendorIds -> Nat]
      /\ rec.key # None => rec.key \in Trail
    BY <1>1, Facts
<1> DEFINE at(stage) == [run[r] EXCEPT !.stage = stage]
           ended(result) == [run[r] EXCEPT !.stage = "ending", !.result = result]
<1>3. \A stage \in Stages :
         /\ at(stage) \in Progress
         /\ at(stage).op = run[r].op /\ at(stage).key = run[r].key
         /\ at(stage).out = run[r].out /\ at(stage).at = run[r].at
         /\ at(stage).saved = run[r].saved /\ at(stage).since = run[r].since /\ at(stage).result = run[r].result
         /\ at(stage).stage = stage
    BY <1>2 DEF Progress
<1>4. \A result \in {"COMPLETED", "FAILED"} :
         /\ ended(result) \in Progress
         /\ ended(result).op = run[r].op /\ ended(result).key = run[r].key
         /\ ended(result).out = run[r].out /\ ended(result).at = run[r].at
         /\ ended(result).saved = run[r].saved /\ ended(result).since = run[r].since /\ ended(result).result = result
         /\ ended(result).stage = "ending"
    BY <1>2 DEF Progress, Stages
<1>5. \A stage \in Stages : To(r, stage) => run' = [run EXCEPT ![r] = at(stage)]
    BY <1>2 DEF To
<1>6. \A result \in {"COMPLETED", "FAILED"} :
         End(r, result) => run' = [run EXCEPT ![r] = ended(result)]
    BY <1>2 DEF End
<1> HIDE DEF at, ended
<1>10. CASE SavePoll(r)
    <2> DEFINE p == [run[r] EXCEPT !.saved = TRUE]
    <2>1. p \in Progress /\ Moves(r, p) /\ p.stage = "working"
        BY <1>2, <1>10 DEF SavePoll, Moves, Progress
    <2>2. RecordType' /\ KeepsOwner(r, p) /\ KeepsId(r, p) /\ Deletes(p)
        BY <2>1, <1>2, <1>10 DEF SavePoll, KeepsOwner, KeepsId, Deletes, RecordType
    <2>3. QED
        BY <2>1, <2>2, <1>1, StepKeeps
<1>11. CASE EngineSucceeds(r) \/ EndsBadly(r)
    <2>1. PICK stage \in {"finalizing", "releasing"} : To(r, stage)
        BY <1>11 DEF EngineSucceeds, EndsBadly
    <2>2. at(stage) \in Progress /\ Moves(r, at(stage)) /\ at(stage).stage = stage
        BY <2>1, <1>2, <1>3, <1>5, <1>11 DEF EngineSucceeds, EndsBadly, Moves, Stages
    <2>3. RecordType' /\ KeepsOwner(r, at(stage)) /\ KeepsId(r, at(stage)) /\ Deletes(at(stage))
        BY <2>1, <2>2, <1>2, <1>11
        DEF EngineSucceeds, EndsBadly, KeepsOwner, KeepsId, Deletes, RecordType
    <2>4. QED
        BY <2>2, <2>3, <1>1, StepKeeps
<1>12. CASE SaveEnd(r)
    <2> DEFINE p == [run[r] EXCEPT !.stage = "over", !.at = None, !.out = None]
    <2>0. run[r].stage = "ending"
        BY <1>12 DEF SaveEnd
    <2>1. /\ p \in Progress
          /\ p.op = run[r].op /\ p.key = run[r].key /\ p.since = run[r].since
          /\ p.out = None /\ p.stage = "over" /\ p.saved = run[r].saved
          /\ p.result = run[r].result
        BY <1>2 DEF Progress, Stages
    <2>2. run' = [run EXCEPT ![r] = p]
        BY <1>2, <1>12 DEF SaveEnd
    <2> HIDE DEF p
    <2>3. Moves(r, p)
        BY <2>1, <2>2, <1>12 DEF SaveEnd, Moves
    <2>4. RecordType' /\ KeepsOwner(r, p) /\ KeepsId(r, p)
        BY <2>0, <2>1, <1>2, <1>12 DEF SaveEnd, KeepsOwner, KeepsId, RecordType, Undecided
    <2>5. Deletes(p)
        <3>1. run[r].op = "DELETE" /\ run[r].result = "COMPLETED" /\ Found(run[r].key)
                  => run[r].since < made
            BY <2>0, <1>1 DEF RecordInv, Triggered
        <3>2. ~Found(run[r].key) => rec.key # run[r].key
            BY <1>2 DEF Found, RecordType
        <3>3. QED
            BY <3>1, <3>2, <2>1, <1>12 DEF SaveEnd, Deletes
    <2>6. QED
        BY <2>1, <2>3, <2>4, <2>5, <1>1, StepKeeps
<1>13. CASE Crash(r)
    <2> DEFINE p == [run[r] EXCEPT !.stage = Resumed(r), !.at = run[r].key, !.result = "none"]
    <2>0. Resumed(r) \in {"working", "new"} /\ (run[r].saved => Resumed(r) = "working")
        BY DEF Resumed
    <2>1. p \in Progress
        BY <2>0, <1>2 DEF Progress, Stages
    <2>2. /\ p.op = run[r].op /\ p.key = run[r].key /\ p.out = run[r].out
          /\ p.since = run[r].since
          /\ p.stage = Resumed(r)
          /\ p.saved = run[r].saved /\ p.at = p.key
        BY <1>2 DEF Progress
    <2>3. run' = [run EXCEPT ![r] = p]
        BY <1>2, <1>13 DEF Crash
    <2> HIDE DEF p
    <2>4. Moves(r, p)
        BY <2>0, <2>2, <2>3, <1>2, <1>13 DEF Crash, Moves
    <2>5. RecordType' /\ KeepsOwner(r, p) /\ KeepsId(r, p) /\ Deletes(p)
        BY <2>0, <2>2, <1>2, <1>13 DEF Crash, KeepsOwner, KeepsId, Deletes, RecordType
    <2>6. QED
        BY <2>1, <2>4, <2>5, <1>1, StepKeeps
<1>14. CASE Configure(r)
    <2>0. run[r].stage = "new" /\ run[r].at = run[r].key /\ crashes' = crashes
        BY <1>2, <1>14 DEF Configure
    <2>1. CASE /\ run[r].op # "CREATE"
               /\ ~Found(run[r].at)
               /\ End(r, "FAILED")
               /\ UNCHANGED <<rec, history>>
        <3>1. ended("FAILED") \in Progress /\ Moves(r, ended("FAILED"))
            BY <2>0, <2>1, <1>2, <1>4, <1>6 DEF Moves
        <3>2. ~Owns(r)
            BY <2>0, <2>1, <1>2 DEF Owns, Found, RecordType
        <3>3. /\ RecordType' /\ KeepsOwner(r, ended("FAILED")) /\ KeepsId(r, ended("FAILED"))
              /\ Deletes(ended("FAILED"))
            BY <3>2, <2>0, <2>1, <1>2, <1>4 DEF KeepsOwner, KeepsId, Deletes, RecordType
        <3>4. QED
            BY <3>1, <3>3, <1>1, StepKeeps
    <2>2. CASE /\ To(r, "working")
               /\ \/ /\ run[r].op = "CREATE"
                     /\ rec' = Created(run[r].at)
                     /\ made' = IF rec.state = "absent" THEN made + 1 ELSE made
                     /\ stood' = IF rec.state = "absent" THEN [stood EXCEPT ![run[r].at] = made + 1]
                                ELSE stood
                  \/ /\ run[r].op # "CREATE"
                     /\ Found(run[r].at)
                     /\ rec' = Patched(run[r].at, OperationState(run[r].op))
                     /\ UNCHANGED history
        <3> DEFINE p == at("working")
        <3>1. p \in Progress /\ Moves(r, p) /\ p.stage = "working" /\ p.op = run[r].op
              /\ p.key = run[r].key
            BY <2>0, <2>2, <1>2, <1>3, <1>5 DEF Moves, Stages
        <3> HIDE DEF p
        <3>2. OperationState(run[r].op) \in InFlightStates
            BY DEF OperationState, InFlightStates
        <3>3. CASE /\ run[r].op = "CREATE"
                   /\ rec' = Created(run[r].at)
                   /\ made' = IF rec.state = "absent" THEN made + 1 ELSE made
                   /\ stood' = IF rec.state = "absent" THEN [stood EXCEPT ![run[r].at] = made + 1]
                              ELSE stood
            <4>1. CASE rec.state = "absent"
                <5>1. rec' = [state |-> "PROVISIONING", key |-> run[r].key]
                    BY <4>1, <3>3, <2>0 DEF Created
                <5>2. OperationState(p.op) = "PROVISIONING"
                    BY <3>1, <3>3 DEF OperationState
                <5>3. /\ made' = made + 1
                      /\ stood' = [stood EXCEPT ![<<r, "placeholder">>] = made + 1]
                      /\ rec'.key = <<r, "placeholder">> /\ p.key = <<r, "placeholder">>
                      /\ r = Creator
                    <6>1. run[r].key = <<r, "placeholder">> /\ r = Creator
                        BY <3>3, <1>2
                    <6>2. rec'.key = run[r].key
                        BY <5>1
                    <6>3. QED
                        BY <6>1, <6>2, <4>1, <3>1, <3>3, <2>0
                <5>4. KeepsId(r, p)
                    BY <5>3, <2>0 DEF KeepsId
                <5>5. RecordType' /\ KeepsOwner(r, p) /\ Deletes(p)
                    BY <5>1, <5>2, <3>1, <1>2
                    DEF RecordType, RecordStates, InFlightStates, KeepsOwner, Deletes
                <5>6. QED
                    BY <5>4, <5>5, <3>1, <1>1, StepKeeps
            <4>2. CASE rec.state # "absent"
                <5>1. rec' = rec
                    BY <4>2, <3>3 DEF Created
                <5>2. made' = made /\ stood' = stood
                    BY <4>2, <3>3
                <5>3. RecordType' /\ KeepsOwner(r, p) /\ KeepsId(r, p) /\ Deletes(p)
                    BY <5>1, <5>2, <3>1, <1>2 DEF RecordType, KeepsOwner, KeepsId, Deletes
                <5>4. QED
                    BY <5>3, <3>1, <1>1, StepKeeps
            <4>3. QED
                BY <4>1, <4>2
        <3>4. CASE /\ run[r].op # "CREATE"
                   /\ Found(run[r].at)
                   /\ rec' = Patched(run[r].at, OperationState(run[r].op))
                   /\ UNCHANGED history
            <4>1. rec.key = run[r].key
                BY <3>4, <2>0 DEF Found
            <4>2. rec' = [state |-> OperationState(run[r].op), key |-> run[r].key]
                BY <4>1, <3>2, <3>4, <2>0, <1>2, Calls DEF RecordStates, InFlightStates
            <4>3. RecordType' /\ KeepsOwner(r, p) /\ KeepsId(r, p) /\ Deletes(p)
                BY <4>1, <4>2, <3>1, <3>2, <3>4, <1>2
                DEF RecordType, RecordStates, InFlightStates, KeepsOwner, KeepsId, Deletes
            <4>4. QED
                BY <4>3, <3>1, <1>1, StepKeeps
        <3>5. QED
            BY <2>2, <3>3, <3>4
    <2>3. QED
        BY <1>14, <2>1, <2>2 DEF Configure
<1>15. CASE Release(r)
    <2>0. /\ run[r].at = run[r].key /\ crashes' = crashes /\ rec' = Released(r)
          /\ made' = made /\ stood' = stood
        BY <1>2, <1>15 DEF Release
    <2>1. ended("FAILED") \in Progress /\ Moves(r, ended("FAILED"))
        BY <1>2, <1>4, <1>6, <1>15 DEF Release, Moves
    <2>2. \/ rec.key # run[r].key /\ rec' = rec
          \/ /\ rec.key = run[r].key
             /\ rec' \in {[state |-> "absent", key |-> None], [state |-> "READY", key |-> run[r].key]}
        BY <2>0, <1>2, Calls DEF Released, RecordStates
    <2>3. RecordType'
        BY <2>0, <2>2, <1>2 DEF RecordType, RecordStates
    <2>4. KeepsOwner(r, ended("FAILED"))
        BY <2>2 DEF KeepsOwner, Owns, InFlightStates
    <2>5. KeepsId(r, ended("FAILED")) /\ Deletes(ended("FAILED"))
        BY <2>0, <2>2, <1>4 DEF KeepsId, Deletes
    <2>6. QED
        BY <2>1, <2>3, <2>4, <2>5, <1>1, StepKeeps
<1>16. CASE DeleteRecord(r)
    <2>0. /\ run[r].at = run[r].key /\ crashes' = crashes /\ rec' = Removed(run[r].key)
          /\ made' = made /\ stood' = stood
        BY <1>2, <1>16 DEF DeleteRecord, Deleted
    <2>1. ended("COMPLETED") \in Progress /\ Moves(r, ended("COMPLETED"))
        BY <1>2, <1>4, <1>6, <1>16 DEF DeleteRecord, Moves
    <2>2. \/ rec.key # run[r].key /\ rec' = rec
          \/ rec.key = run[r].key /\ rec' = [state |-> "absent", key |-> None]
        BY <2>0, <1>2, Calls DEF RecordStates
    <2>3. RecordType'
        BY <2>0, <2>2, <1>2 DEF RecordType, RecordStates
    <2>4. KeepsOwner(r, ended("COMPLETED"))
        BY <2>2 DEF KeepsOwner, Owns, InFlightStates
    <2>5. KeepsId(r, ended("COMPLETED")) /\ Deletes(ended("COMPLETED"))
        BY <2>0, <2>2, <1>2, <1>4 DEF KeepsId, Deletes
    <2>6. QED
        BY <2>1, <2>3, <2>4, <2>5, <1>1, StepKeeps
<1>17. CASE MarkDeleted(r)
    <2>0. /\ run[r].at = run[r].key /\ crashes' = crashes /\ rec' = Patched(run[r].key, "DELETED")
          /\ made' = made /\ stood' = stood
        BY <1>2, <1>17 DEF MarkDeleted
    <2>1. at("deleting") \in Progress /\ Moves(r, at("deleting")) /\ at("deleting").stage = "deleting"
        BY <1>2, <1>3, <1>5, <1>17 DEF MarkDeleted, Moves, Stages
    <2>2. \/ rec.key # run[r].key /\ rec' = rec
          \/ rec.key = run[r].key /\ rec' = [state |-> "DELETED", key |-> run[r].key]
        BY <2>0, <1>2, Calls DEF RecordStates
    <2>3. RecordType'
        BY <2>0, <2>2, <1>2 DEF RecordType, RecordStates
    <2>4. KeepsOwner(r, at("deleting")) /\ KeepsId(r, at("deleting")) /\ Deletes(at("deleting"))
        BY <2>0, <2>1, <2>2 DEF KeepsOwner, KeepsId, Deletes, InFlightStates
    <2>5. QED
        BY <2>1, <2>3, <2>4, <1>1, StepKeeps
<1>18. CASE Finalize(r)
    <2>0. /\ run[r].stage = "finalizing" /\ run[r].op # "DELETE"
          /\ run[r].at = run[r].key /\ crashes' = crashes /\ made' = made
        BY <1>2, <1>18 DEF Finalize
    <2>1. CASE ~Found(run[r].at) /\ To(r, "releasing") /\ UNCHANGED <<rec, stood>>
        <3>1. /\ at("releasing") \in Progress /\ Moves(r, at("releasing"))
              /\ at("releasing").stage = "releasing"
            BY <2>0, <2>1, <1>2, <1>3, <1>5 DEF Moves, Stages
        <3>2. /\ RecordType' /\ KeepsOwner(r, at("releasing")) /\ KeepsId(r, at("releasing"))
              /\ Deletes(at("releasing"))
            BY <3>1, <2>0, <2>1, <1>2 DEF KeepsOwner, KeepsId, Deletes, RecordType
        <3>3. QED
            BY <3>1, <3>2, <1>1, StepKeeps
    <2>2. CASE /\ Found(run[r].at)
               /\ rec' = Finalized(r)
               /\ run' = [run EXCEPT ![r].stage = "ending", ![r].result = "COMPLETED",
                                     ![r].at = FinalKey(r)]
               /\ stood' = [stood EXCEPT ![FinalKey(r)] = made]
        <3> DEFINE p == [run[r] EXCEPT !.stage = "ending", !.result = "COMPLETED",
                                       !.at = FinalKey(r)]
        <3>1. rec.key = run[r].key
            BY <2>0, <2>2 DEF Found
        <3>2. FinalKey(r) \in VendorIds /\ FinalKey(r) \in {run[r].key, <<r, "real">>}
            BY <2>0, <1>2, RecordAssumption DEF FinalKey, VendorIds
        <3>3. /\ p \in Progress
              /\ p.op = run[r].op /\ p.key = run[r].key /\ p.out = run[r].out
              /\ p.since = run[r].since /\ p.stage = "ending" /\ p.saved = run[r].saved
            BY <3>2, <1>2 DEF Progress, Stages
        <3>4. run' = [run EXCEPT ![r] = p]
            BY <2>2, <1>2
        <3> HIDE DEF p
        <3>5. rec' = [state |-> "READY", key |-> FinalKey(r)] /\ rec'.key = FinalKey(r)
            BY <2>2 DEF Finalized
        <3>6. FinalKey(r) = run[r].key \/ run[r].saved
            BY <1>1, <1>2, <1>18 DEF Finalize, RecordInv, Sound
        <3>7. FinalKey(r) = run[r].key => stood' = stood
            BY <2>2, <3>1, <1>2 DEF Trail
        <3>8. KeepsId(r, p)
            <4>1. CASE FinalKey(r) = run[r].key
                BY <4>1, <2>0, <3>1, <3>5, <3>7 DEF KeepsId
            <4>2. CASE FinalKey(r) # run[r].key
                <5>1. FinalKey(r) = <<r, "real">> /\ run[r].saved
                    BY <4>2, <3>2, <3>6
                <5>2. QED
                    BY <5>1, <2>0, <2>2, <3>1, <3>3, <3>5 DEF KeepsId
            <4>3. QED
                BY <4>1, <4>2
        <3>9. RecordType' /\ KeepsOwner(r, p) /\ Deletes(p)
            BY <2>0, <3>1, <3>2, <3>3, <3>5, <1>2, RecordAssumption
            DEF RecordType, RecordStates, InFlightStates, KeepsOwner, Deletes
        <3>10. QED
            BY <2>0, <3>3, <3>4, <3>8, <3>9, <1>1, <1>2, StepKeeps DEF Moves
    <2>3. QED
        BY <1>18, <2>1, <2>2 DEF Finalize
<1>20. QED
    BY <1>10, <1>11, <1>12, <1>13, <1>14, <1>15, <1>16, <1>17, <1>18 DEF Drive

-----------------------------------------------------------------------------
(* The theorems. *)

\* RecordInv holds in every reachable state, for any number of runs on the
\* record, however their calls interleave and whichever workers die.
THEOREM RecordInvariant == Spec => []RecordInv
<1>1. ASSUME RecordInv, [Next]_vars
      PROVE  RecordInv'
    <2>1. CASE UNCHANGED vars
        BY <2>1, <1>1
        DEF vars, RecordInv, TypeOK, Sound, MovedForGood, Trail, MadeForDeaths, Undecided, Triggered,
            Owns, Found
    <2>2. CASE Next
        <3>1. PICK r \in Runs : (\E op \in Operations : Trigger(r, op)) \/ Drive(r) \/ Crash(r)
            BY <2>2 DEF Next
        <3>2. CASE \E op \in Operations : Trigger(r, op)
            BY <1>1, <3>2, TriggerKeeps
        <3>3. CASE Drive(r) \/ Crash(r)
            BY <1>1, <3>3, DriveKeeps
        <3>4. QED
            BY <3>1, <3>2, <3>3
    <2>3. QED
        BY <1>1, <2>1, <2>2
<1>2. QED
    BY InitRecordInv, <1>1, PTL DEF Spec

\* A record is shown as being provisioned, updated or deleted only while a run
\* that does so is not over (configure puts it in flight; finalize, the delete
\* and the escalator's release take it out before the ending is saved).
THEOREM RecordOwned == Spec => []InFlightIsOwned
<1>1. RecordInv => InFlightIsOwned
    BY DEF RecordInv, InFlightIsOwned, Undecided
<1>2. QED
    BY <1>1, RecordInvariant, PTL

\* A deletion that completed is final until create_resource makes the record
\* anew: no other run that was under way, is driven again after a crash or was
\* given an old id brings a record back under the id that was deleted; and the
\* record is made at most once more than workers have died.
THEOREM DeletionFinal == Spec => []DeleteIsFinal
<1>1. RecordInv => DeleteIsFinal
    BY DEF RecordInv, MadeForDeaths, DeleteIsFinal
<1>2. QED
    BY <1>1, RecordInvariant, PTL
=============================================================================
