----------------------------- MODULE RunLookups -----------------------------
(***************************************************************************)
(* What a portal asks about the runs of the resources it shows: the latest *)
(* run of a record, and the latest runs of a page of records (the finders  *)
(* of adapters/database.py and the two latest routes of api.py), over the  *)
(* runs that RunApi creates while the questions are asked.                 *)
(***************************************************************************)
EXTENDS RunApi, SequencesExt

CONSTANTS
    Blank,      \* an empty part of the comma-separated list
    MaxBatch,   \* MAX_BATCH_RESOURCE_IDS
    MaxParts    \* bound: parts of a list asked about

ASSUME LookupAssumption ==
    /\ Blank \notin Records
    /\ MaxBatch \in Nat \ {0}
    /\ MaxParts \in Nat

\* The runs of a record: run_state #>> '{resource,resource_id}'.
RunsOf(rec) == {r \in Committed : runs[r].resource # None /\ runs[r].resource.resource_id = rec}

\* Mutant: ordered oldest first.
OldestFirst(S) == Min(S)
\* ORDER BY created_at DESC.
NewestFirst(S) == Max(S)

\* find_last_by_resource_id.
FindLast(rec) == IF RunsOf(rec) = {} THEN None ELSE NewestFirst(RunsOf(rec))

\* find_last_by_resource_ids: DISTINCT ON keeps the first row of every record's
\* group.
FindLasts(recs) == {NewestFirst(RunsOf(rec)) : rec \in {x \in recs : RunsOf(x) # {}}}

\* Mutant: duplicates collapse to their last place.
KeepLast(raw) ==
    LET ids[n \in 0..Len(raw)] ==
            IF n = 0 THEN <<>>
            ELSE IF raw[n] = Blank THEN ids[n - 1]
            ELSE Append(SelectSeq(ids[n - 1], LAMBDA x : x # raw[n]), raw[n])
    IN  ids[Len(raw)]
\* _parse_resource_ids, before its length is judged: seen is an insertion-ordered
\* set, here after n parts.
ParseResourceIds(raw) ==
    LET seen[n \in 0..Len(raw)] ==
            IF n = 0 THEN <<>>
            ELSE IF raw[n] = Blank \/ Contains(seen[n - 1], raw[n]) THEN seen[n - 1]
            ELSE Append(seen[n - 1], raw[n])
    IN  seen[Len(raw)]

\* A list without an id, or with too many, is a 422.
Refused(raw) == LET ids == ParseResourceIds(raw) IN ids = <<>> \/ Len(ids) > MaxBatch

\* get_latest_resource_runs: the runs found, by record, in the order asked.
LatestBatch(raw) ==
    LET ids   == ParseResourceIds(raw)
        found == FindLasts(ToSet(ids))
        of(rec) == {r \in found : runs[r].resource.resource_id = rec}
        answer[n \in 0..Len(ids)] ==
            IF n = 0 THEN <<>>
            ELSE IF of(ids[n]) = {} THEN answer[n - 1]
            ELSE Append(answer[n - 1], CHOOSE r \in of(ids[n]) : TRUE)
    IN  answer[Len(ids)]

-----------------------------------------------------------------------------
(* Properties. *)

\* The latest run of a record never goes back to an older one, though runs
\* are inserted in another order than they are dated in, and a CREATE is
\* connected to its record only when its drive is saved.
LatestNeverGoesBack ==
    [][\A rec \in Records :
          FindLast(rec) # None => FindLast(rec)' # None /\ FindLast(rec)' >= FindLast(rec)]_vars

Lists == UNION {[1..n -> Records \cup {Blank}] : n \in 0..MaxParts}

\* Where a record is first named in a list.
FirstPlace(raw, rec) == Min({k \in DOMAIN raw : raw[k] = rec})

\* One batch is as good as a question per record: each record that has a run
\* is answered once, with the run the single lookup gives, in the order the
\* records were first named; and a list is refused exactly when it names no
\* record or more than MaxBatch different ones.
BatchMatchesSingles ==
    \A raw \in Lists :
        LET named  == ToSet(raw) \ {Blank}
            answer == LatestBatch(raw)
            place(k) == FirstPlace(raw, runs[answer[k]].resource.resource_id)
        IN  /\ Refused(raw) <=> Cardinality(named) \notin 1..MaxBatch
            /\ ToSet(answer) = {FindLast(rec) : rec \in named} \ {None}
            /\ \A j, k \in DOMAIN answer : j < k => place(j) < place(k)
=============================================================================
