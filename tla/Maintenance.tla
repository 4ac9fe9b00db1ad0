----------------------------- MODULE Maintenance -----------------------------
(***************************************************************************)
(* The upkeep of the TMDB tables (metadata_engine/maintenance.py): the     *)
(* backfills that administrators queue in metadata_backfill_jobs and the   *)
(* sync replica drains, and the nightly refresh of the oldest rows.        *)
(*                                                                         *)
(* Statements of concurrent requests interleave; the database is READ      *)
(* COMMITTED, so an INSERT ... WHERE NOT EXISTS does not see the row that  *)
(* another one has not committed yet.                                      *)
(***************************************************************************)
EXTENDS Integers, Sequences, FiniteSets, SequencesExt

CONSTANTS
    Clicks,    \* requests of administrators for a backfill (bound: how many are made)
    Drains,    \* replicas whose scheduler drains the queue
    Titles,    \* ids of the refreshed table
    Buckets,   \* metadata_refresh_buckets
    MaxNight   \* bound on the nights

VARIABLES
    click,     \* request -> its stage
    job,       \* request -> status of the job it inserted
    drain,     \* replica -> the job it runs, as a set of at most one
    ran,       \* history: job -> how often it was begun
    rows,      \* the table, in the order of last_updated
    stamp,     \* title -> the night of its last_updated
    night,     \* nights so far
    slice,     \* titles of tonight's slice that are not re-pulled yet
    failed     \* history: some title of a slice could not be re-pulled

jobVars == <<click, job, drain, ran>>
rowVars == <<rows, stamp, night, slice, failed>>
vars == <<jobVars, rowVars>>

Active == {"requested", "running"}

TypeOK ==
    /\ click \in [Clicks -> {"none", "insert", "select", "created", "handed", "error"}]
    /\ job \in [Clicks -> {"none", "uncommitted", "done", "failed"} \cup Active]
    /\ drain \in [Drains -> SUBSET Clicks]
    /\ ran \in [Clicks -> Nat]
    /\ rows \in Seq(Titles) /\ slice \in Seq(Titles)
    /\ stamp \in [Titles -> 0..MaxNight] /\ night \in 0..MaxNight
    /\ failed \in BOOLEAN

Init ==
    /\ click = [a \in Clicks |-> "none"] /\ job = [a \in Clicks |-> "none"]
    /\ drain = [d \in Drains |-> {}] /\ ran = [a \in Clicks |-> 0]
    /\ \E T \in SUBSET Titles : rows \in SetToSeqs(T)
    /\ stamp = [t \in Titles |-> 0] /\ night = 0
    /\ slice = <<>> /\ failed = FALSE

-----------------------------------------------------------------------------
(* Backfills.                                                              *)

\* trigger_backfill
Click(a) ==
    /\ click[a] = "none"
    /\ click' = [click EXCEPT ![a] = "insert"]
    /\ UNCHANGED <<job, drain, ran, rowVars>>

\* request_backfill: INSERT ... WHERE NOT EXISTS an active job, of those committed.
Insert(a) ==
    /\ click[a] = "insert" /\ job[a] = "none"
    /\ IF \E b \in Clicks : job[b] \in Active
       THEN click' = [click EXCEPT ![a] = "select"] /\ UNCHANGED job
       ELSE job' = [job EXCEPT ![a] = "uncommitted"] /\ UNCHANGED click
    /\ UNCHANGED <<drain, ran, rowVars>>

Commit(a) ==
    /\ job[a] = "uncommitted"
    /\ job' = [job EXCEPT ![a] = "requested"]
    /\ click' = [click EXCEPT ![a] = "created"]
    /\ UNCHANGED <<drain, ran, rowVars>>

\* The SELECT of the active job, which may be over by now: the request fails on its None.
Select(a) ==
    /\ click[a] = "select"
    /\ click' = [click EXCEPT ![a] = IF \E b \in Clicks : job[b] \in Active THEN "handed" ELSE "error"]
    /\ UNCHANGED <<job, drain, ran, rowVars>>

\* Mutant: the claim leaves the status as it is.
ClaimKeepsStatus(d, a) ==
    /\ drain[d] = {} /\ job[a] = "requested"
    /\ drain' = [drain EXCEPT ![d] = {a}] /\ ran' = [ran EXCEPT ![a] = IF @ < 2 THEN @ + 1 ELSE @]
    /\ UNCHANGED <<click, job, rowVars>>

\* _claim_backfill_job; the scheduler runs one drain of a replica at a time.
Claim(d, a) ==
    /\ drain[d] = {} /\ job[a] = "requested"
    /\ job' = [job EXCEPT ![a] = "running"]
    /\ drain' = [drain EXCEPT ![d] = {a}] /\ ran' = [ran EXCEPT ![a] = @ + 1]
    /\ UNCHANGED <<click, rowVars>>

\* run_pending_backfill: backfill_catalogue ends or raises, and _finish_backfill_job.
Finish(d, status) ==
    /\ drain[d] # {}
    /\ job' = [a \in Clicks |-> IF a \in drain[d] THEN status ELSE job[a]]
    /\ drain' = [drain EXCEPT ![d] = {}]
    /\ UNCHANGED <<click, ran, rowVars>>

\* The replica dies, and nothing puts its job back.
Die(d) ==
    /\ drain[d] # {}
    /\ drain' = [drain EXCEPT ![d] = {}]
    /\ UNCHANGED <<click, job, ran, rowVars>>

-----------------------------------------------------------------------------
(* The nightly refresh.                                                    *)

\* The rows but that of t.
Others(t) ==
    IF t \in ToSet(rows) THEN RemoveAt(rows, CHOOSE i \in DOMAIN rows : rows[i] = t) ELSE rows

\* upsert_shows, upsert_movies: the row gets the youngest last_updated.
Stored(t) == rows' = Append(Others(t), t) /\ stamp' = [stamp EXCEPT ![t] = night]

\* Mutant: the slice is rounded down.
SliceRoundedDown == SubSeq(rows, 1, Len(rows) \div Buckets)

\* _slice_oldest_ids: the oldest ceil(rows / buckets).
Slice == SubSeq(rows, 1, (Len(rows) + Buckets - 1) \div Buckets)

\* refresh_daily_slice begins; the one before is over by then.
Nightfall ==
    /\ night < MaxNight /\ slice = <<>>
    /\ night' = night + 1
    /\ slice' = Slice
    /\ UNCHANGED <<jobVars, rows, stamp, failed>>

\* _refresh_ids: the title is re-pulled and re-stored.
Repull ==
    /\ slice # <<>>
    /\ Stored(Head(slice))
    /\ slice' = Tail(slice)
    /\ UNCHANGED <<jobVars, night, failed>>

\* TMDB does not have it any more, or fails: the row stays the oldest.
RepullFails ==
    /\ slice # <<>>
    /\ slice' = Tail(slice) /\ failed' = TRUE
    /\ UNCHANGED <<jobVars, rows, stamp, night>>

\* Somebody looks the title up, or a backfill or a search finds it.
Browse(t) ==
    /\ Stored(t)
    /\ UNCHANGED <<jobVars, night, slice, failed>>

Next ==
    \/ \E a \in Clicks : Click(a) \/ Insert(a) \/ Commit(a) \/ Select(a)
    \/ \E d \in Drains : \/ \E a \in Clicks : Claim(d, a)
                         \/ \E status \in {"done", "failed"} : Finish(d, status)
                         \/ Die(d)
    \/ Nightfall \/ Repull \/ RepullFails
    \/ \E t \in Titles : Browse(t)

Spec == Init /\ [][Next]_vars

-----------------------------------------------------------------------------
(* Properties.                                                             *)

\* No backfill is run twice, by two replicas or after a crash (_claim_backfill_job).
JobRunsOnce == \A a \in Clicks : ran[a] <= 1

\* "Each night the oldest 1/N of each table is re-pulled, cycling the whole table over N nights":
\* while no re-pull fails no row is ever older than N nights once tonight's slice is done, though
\* rows are added and browsed meanwhile.
TableCycles == slice = <<>> /\ ~failed => \A t \in ToSet(rows) : night - stamp[t] < Buckets

\* "A double-click or a second admin cannot stack runs" (request_backfill).
NoStackedRuns == Cardinality({a \in Clicks : job[a] \in Active}) <= 1

=============================================================================
