----------------------------- MODULE CacheQueue -----------------------------
(***************************************************************************)
(* The server-side video cache: cache_engine/db.py, downloader.py, fs.py   *)
(* and admin_routes.py.                                                    *)
(*                                                                         *)
(* A row of cached_episodes is at once the ledger entry of a cached file   *)
(* and a job of a queue.  API replicas write `pending` rows, the single    *)
(* cache-worker claims them and runs one ffmpeg per row, an admin drops    *)
(* entries and opens, closes and removes NAS targets.  Every statement on  *)
(* the database and every call on the file system is a step of its own:    *)
(* the code awaits each of them in a thread, so anything may run between.  *)
(***************************************************************************)
EXTENDS Integers, FiniteSets

CONSTANTS
    Keys,         \* episodes: (media_type, tmdb_id, season, episode, language)
    Targets,      \* NAS directories that may be registered
    Replicas,     \* API replicas
    Slots,        \* cache_max_concurrent
    None,         \* no target, no key
    MaxRow,       \* bound: rows ever inserted
    MaxRevive,    \* bound: failed rows put back to pending by a new claim
    MaxRestart,   \* bound: worker starts after the first one
    MaxDbError    \* bound: failed database calls of the worker

ASSUME SlotsAssumption == Slots \in Nat \ {0}
ASSUME BoundsAssumption ==
    /\ MaxRow \in Nat
    /\ MaxRevive \in Nat
    /\ MaxRestart \in Nat
    /\ MaxDbError \in Nat
ASSUME NoneAssumption == None \notin Keys /\ None \notin Targets

VARIABLES
    status,      \* row id -> lifecycle status, "none" while there is no row
    keyOf,       \* row id -> its unique key, kept after the row is deleted
    tgtOf,       \* row id -> its target, kept after the row is deleted
    lastId,      \* the identity column: ids issued so far
    registered,  \* rows of cache_targets
    enabled,     \* those open for caching
    switch,      \* the master switch in cache_settings
    seen,        \* replica -> what its 5 second read cache holds
    workerOn,    \* the switch as the worker's read cache holds it
    claims,      \* maybe_enqueue calls between pick_write_target and the INSERT
    drops,       \* ids whose row is deleted and whose file is not yet unlinked
    phase,       \* the worker process
    batch,       \* rows the poller fetched and has not looked at yet
    job,         \* row id -> where its task is, "idle" when _jobs has no entry
    part,        \* path -> ids whose ffmpeg wrote the .part inode, {} = no file
    file,        \* path -> ids whose ffmpeg wrote the published inode
    revives, restarts, dbErrors,   \* counters for the bounds
    dropped,     \* history: ids an admin dropped from a target that is still there
    stolen       \* history: ids whose file the drop of another entry removed

rowVars    == <<status, keyOf, tgtOf, lastId>>
targetVars == <<registered, enabled, switch>>
viewVars   == <<seen, workerOn>>
apiVars    == <<claims, drops>>
workerVars == <<phase, batch, job>>
diskVars   == <<part, file>>
boundVars  == <<revives, restarts, dbErrors>>
histVars   == <<dropped, stolen>>
vars == <<rowVars, targetVars, viewVars, apiVars, workerVars, diskVars,
          boundVars, histVars>>

Ids   == 1..MaxRow
Paths == Targets \X Keys

Status == {"none", "pending", "downloading", "ready", "failed"}

\* Where a job's coroutine is: each name is the call it is about to make.
JobPc == {"idle", "prepare", "remux", "measure", "discard", "replace",
          "markReady", "markFailed", "report", "pop"}

TypeOK ==
    /\ status \in [Ids -> Status]
    /\ keyOf \in [Ids -> Keys \cup {None}]
    /\ tgtOf \in [Ids -> Targets \cup {None}]
    /\ lastId \in 0..MaxRow
    /\ registered \subseteq Targets
    /\ enabled \subseteq registered
    /\ switch \in BOOLEAN
    /\ seen \in [Replicas -> [on : BOOLEAN, targets : SUBSET Targets]]
    /\ workerOn \in BOOLEAN
    /\ claims \subseteq Keys \X Targets
    /\ drops \subseteq Ids
    /\ phase \in {"up", "draining", "down"}
    /\ batch \subseteq Ids
    /\ job \in [Ids -> JobPc]
    /\ part \in [Paths -> SUBSET Ids]
    /\ file \in [Paths -> SUBSET Ids]
    /\ revives \in 0..MaxRevive
    /\ restarts \in 0..MaxRestart
    /\ dbErrors \in 0..MaxDbError
    /\ dropped \subseteq Ids
    /\ stolen \subseteq Ids

Init ==
    /\ status = [i \in Ids |-> "none"]
    /\ keyOf = [i \in Ids |-> None]
    /\ tgtOf = [i \in Ids |-> None]
    /\ lastId = 0
    /\ registered = Targets
    /\ enabled = Targets
    /\ switch = TRUE
    /\ seen = [r \in Replicas |-> [on |-> TRUE, targets |-> Targets]]
    /\ workerOn = TRUE
    /\ claims = {}
    /\ drops = {}
    /\ phase = "up"
    /\ batch = {}
    /\ job = [i \in Ids |-> "idle"]
    /\ part = [p \in Paths |-> {}]
    /\ file = [p \in Paths |-> {}]
    /\ revives = 0 /\ restarts = 0 /\ dbErrors = 0
    /\ dropped = {} /\ stolen = {}

-----------------------------------------------------------------------------
(* Helpers.                                                                *)

\* abs_path: the file of an entry is fixed by its target and its key.
Path(i) == <<tgtOf[i], keyOf[i]>>

Live(i)  == status[i] # "none"
Jobs     == {i \in Ids : job[i] # "idle"}
RowsFor(k) == {i \in Ids : Live(i) /\ keyOf[i] = k}

\* What fetch_pending may return: pending rows on a target that is enabled now.
Fetchable == {i \in Ids : status[i] = "pending" /\ tgtOf[i] \in enabled}

Smaller(S, i) == {j \in S : j < i}

\* ORDER BY created_at, id LIMIT n: a revived row keeps its created_at.
Oldest(S, n) == {i \in S : Cardinality(Smaller(S, i)) < n}

\* Mutant: the running jobs are not subtracted.
FreeIgnoresJobs == Slots

Free == Slots - Cardinality(Jobs)

\* _bump on replica r, after a write of the switch or of a target.
Bumped(r) == [seen EXCEPT ![r] = [on |-> switch', targets |-> enabled']]

-----------------------------------------------------------------------------
(* The API replicas: a player redeems its ticket.                          *)

\* One of the two read caches of replica r outlives its TTL and is reloaded.
RefreshReplica(r) ==
    /\ seen' \in {[seen EXCEPT ![r].on = switch], [seen EXCEPT ![r].targets = enabled]}
    /\ seen' # seen
    /\ UNCHANGED <<rowVars, targetVars, workerOn, apiVars, workerVars, diskVars,
                   boundVars, histVars>>

\* confirm_ticket and maybe_enqueue up to the INSERT: the cacheable gate and
\* pick_write_target, both over the replica's own read cache.  Any enabled target
\* may be the first one that is writable and has room.
Confirm(r, k) ==
    /\ seen[r].on
    /\ \E t \in seen[r].targets \cap registered :
          claims' = claims \cup {<<k, t>>}
    /\ UNCHANGED <<rowVars, targetVars, viewVars, drops, workerVars, diskVars,
                   boundVars, histVars>>

\* claim_download inserts a pending row: the unique index holds no row for the key.
ClaimInsert(k, t) ==
    /\ <<k, t>> \in claims
    /\ claims' = claims \ {<<k, t>>}
    /\ RowsFor(k) = {}
    /\ lastId < MaxRow
    /\ lastId' = lastId + 1
    /\ status' = [status EXCEPT ![lastId'] = "pending"]
    /\ keyOf' = [keyOf EXCEPT ![lastId'] = k]
    /\ tgtOf' = [tgtOf EXCEPT ![lastId'] = t]
    /\ UNCHANGED <<targetVars, viewVars, drops, workerVars, diskVars,
                   boundVars, histVars>>

\* claim_download revives a failed row: ON CONFLICT DO UPDATE, on the new target.
ClaimRevive(k, t) ==
    /\ <<k, t>> \in claims
    /\ claims' = claims \ {<<k, t>>}
    /\ revives < MaxRevive
    /\ revives' = revives + 1
    /\ \E i \in RowsFor(k) :
          /\ status[i] = "failed"
          /\ status' = [status EXCEPT ![i] = "pending"]
          /\ tgtOf' = [tgtOf EXCEPT ![i] = t]
    /\ UNCHANGED <<keyOf, lastId, targetVars, viewVars, drops, workerVars, diskVars,
                   restarts, dbErrors, histVars>>

\* claim_download returns None: the key's row is live and not failed.
ClaimRefused(k, t) ==
    /\ <<k, t>> \in claims
    /\ claims' = claims \ {<<k, t>>}
    /\ \E i \in RowsFor(k) : status[i] # "failed"
    /\ UNCHANGED <<rowVars, targetVars, viewVars, drops, workerVars, diskVars,
                   boundVars, histVars>>

-----------------------------------------------------------------------------
(* The admin.  A write bumps the read cache of the replica that serves it. *)

\* set_enabled on replica r.
SetSwitch(r) ==
    /\ switch' = ~switch
    /\ UNCHANGED <<registered, enabled>>
    /\ seen' = Bumped(r)
    /\ UNCHANGED <<rowVars, workerOn, apiVars, workerVars,
                   diskVars, boundVars, histVars>>

\* update_target: opening or closing a target.
ToggleTarget(r, t) ==
    /\ t \in registered
    /\ enabled' = IF t \in enabled THEN enabled \ {t} ELSE enabled \cup {t}
    /\ UNCHANGED switch
    /\ seen' = Bumped(r)
    /\ UNCHANGED <<rowVars, registered, workerOn, apiVars, workerVars,
                   diskVars, boundVars, histVars>>

\* add_target: a new target is enabled at once.
AddTarget(r, t) ==
    /\ t \in Targets \ registered
    /\ registered' = registered \cup {t}
    /\ enabled' = enabled \cup {t}
    /\ UNCHANGED switch
    /\ seen' = Bumped(r)
    /\ UNCHANGED <<rowVars, workerOn, apiVars, workerVars, diskVars,
                   boundVars, histVars>>

\* Mutant: the target stays in the list of open ones.
DeleteTargetStaysOpen(r, t) ==
    /\ t \in registered
    /\ registered' = registered \ {t}
    /\ UNCHANGED <<enabled, switch>>
    /\ seen' = Bumped(r)
    /\ UNCHANGED <<rowVars, workerOn, apiVars, workerVars, diskVars, boundVars, histVars>>

\* delete_target: its rows cascade, the files stay on the share, and an INSERT in
\* flight for it fails on the foreign key (a target added again has a new id).  An
\* unlink in flight still happens when it has already read the target's path.
DeleteTarget(r, t) ==
    /\ t \in registered
    /\ registered' = registered \ {t}
    /\ enabled' = enabled \ {t}
    /\ UNCHANGED switch
    /\ seen' = Bumped(r)
    /\ status' = [i \in Ids |-> IF tgtOf[i] = t THEN "none" ELSE status[i]]
    /\ claims' = {c \in claims : c[2] # t}
    /\ drops' \in {D \in SUBSET drops : \A i \in drops : tgtOf[i] # t => i \in D}
    /\ dropped' = {i \in dropped : tgtOf[i] # t}
    /\ UNCHANGED <<keyOf, tgtOf, lastId, workerOn, workerVars, diskVars,
                   boundVars, stolen>>

\* delete_cached_episode, first statement: the row goes.
DropRow(i) ==
    /\ Live(i)
    /\ status' = [status EXCEPT ![i] = "none"]
    /\ drops' = drops \cup {i}
    /\ dropped' = dropped \cup {i}
    /\ UNCHANGED <<keyOf, tgtOf, lastId, targetVars, viewVars, claims, workerVars,
                   diskVars, boundVars, stolen>>

\* delete_cached_episode, the unlink: it goes by path, whoever wrote the file.
DropFile(i) ==
    /\ i \in drops
    /\ drops' = drops \ {i}
    /\ stolen' = stolen \cup (file[Path(i)] \ {i})
    /\ file' = [file EXCEPT ![Path(i)] = {}]
    /\ UNCHANGED <<rowVars, targetVars, viewVars, claims, workerVars, part,
                   boundVars, dropped>>

-----------------------------------------------------------------------------
(* The poller of the cache-worker.                                         *)

RefreshWorker ==
    /\ phase # "down"
    /\ workerOn # switch
    /\ workerOn' = switch
    /\ UNCHANGED <<rowVars, targetVars, seen, apiVars, workerVars, diskVars,
                   boundVars, histVars>>

\* _start_pending reads the switch, counts the free slots and fetches that many.
Fetch ==
    /\ phase = "up"
    /\ batch = {}
    /\ workerOn
    /\ Free > 0
    /\ Fetchable # {}
    /\ batch' = Oldest(Fetchable, Free)
    /\ UNCHANGED <<rowVars, targetVars, viewVars, apiVars, phase, job, diskVars,
                   boundVars, histVars>>

NextInBatch(i) == i \in batch /\ \A j \in batch : i <= j

\* begin_download won the row: pending to downloading, and its task is created.
Begin(i) ==
    /\ phase = "up"
    /\ NextInBatch(i)
    /\ job[i] = "idle"
    /\ status[i] = "pending"
    /\ status' = [status EXCEPT ![i] = "downloading"]
    /\ job' = [job EXCEPT ![i] = "prepare"]
    /\ batch' = batch \ {i}
    /\ UNCHANGED <<keyOf, tgtOf, lastId, targetVars, viewVars, apiVars, phase,
                   diskVars, boundVars, histVars>>

\* The row is passed over: its last task is not gone yet, or begin_download found
\* it deleted since the fetch.
Skip(i) ==
    /\ phase = "up"
    /\ NextInBatch(i)
    /\ job[i] # "idle" \/ status[i] # "pending"
    /\ batch' = batch \ {i}
    /\ UNCHANGED <<rowVars, targetVars, viewVars, apiVars, phase, job, diskVars,
                   boundVars, histVars>>

\* A database error in begin_download: _poll logs it and drops the rest of the
\* batch.  The UPDATE may have committed before the connection was lost.
BeginError(i) ==
    /\ phase = "up"
    /\ NextInBatch(i)
    /\ job[i] = "idle"
    /\ status[i] = "pending"
    /\ dbErrors < MaxDbError
    /\ dbErrors' = dbErrors + 1
    /\ batch' = {}
    /\ status' \in {status, [status EXCEPT ![i] = "downloading"]}
    /\ UNCHANGED <<keyOf, tgtOf, lastId, targetVars, viewVars, apiVars, phase, job,
                   diskVars, revives, restarts, histVars>>

-----------------------------------------------------------------------------
(* One job: _run_job and _download, one action per awaited call.           *)

\* Only the job's own task and the disk move.
JobStep(i, from, to) ==
    /\ phase # "down"
    /\ job[i] = from
    /\ job' = [job EXCEPT ![i] = to]
    /\ UNCHANGED <<targetVars, viewVars, apiVars, phase, batch, revives, restarts>>

\* makedirs, and the stale .part of an earlier attempt is unlinked.
Prepare(i) ==
    /\ JobStep(i, "prepare", "remux")
    /\ part' = [part EXCEPT ![Path(i)] = {}]
    /\ UNCHANGED <<rowVars, file, dbErrors, histVars>>

\* makedirs raises: the share is gone or read-only.
PrepareFails(i) ==
    /\ JobStep(i, "prepare", "report")
    /\ UNCHANGED <<rowVars, diskVars, dbErrors, histVars>>

\* ffmpeg -y opens the .part by name, or the retry with the audio re-encoded does:
\* it truncates and shares the inode when another job's ffmpeg has it open.
Write(i) ==
    /\ JobStep(i, "remux", "remux")
    /\ i \notin part[Path(i)]
    /\ part' = [part EXCEPT ![Path(i)] = @ \cup {i}]
    /\ UNCHANGED <<rowVars, file, dbErrors, histVars>>

\* ffmpeg exits 0.
RemuxDone(i) ==
    /\ JobStep(i, "remux", "measure")
    /\ UNCHANGED <<rowVars, diskVars, dbErrors, histVars>>

\* ffmpeg exits with an error, or is killed at cache_download_timeout.
RemuxFails(i) ==
    /\ JobStep(i, "remux", "discard")
    /\ UNCHANGED <<rowVars, diskVars, dbErrors, histVars>>

\* Mutant: the row is marked ready before the file is published.
MeasureMarksFirst(i) ==
    /\ JobStep(i, "measure", "markReady")
    /\ part[Path(i)] # {}
    /\ UNCHANGED <<rowVars, diskVars, dbErrors, histVars>>

\* _size_or_zero finds bytes in whatever the .part name now stands for.
Measure(i) ==
    /\ JobStep(i, "measure", "replace")
    /\ part[Path(i)] # {}
    /\ UNCHANGED <<rowVars, diskVars, dbErrors, histVars>>

\* No .part, or an empty one.
MeasureEmpty(i) ==
    /\ JobStep(i, "measure", "discard")
    /\ UNCHANGED <<rowVars, diskVars, dbErrors, histVars>>

Discard(i) ==
    /\ JobStep(i, "discard", "markFailed")
    /\ part' = [part EXCEPT ![Path(i)] = {}]
    /\ UNCHANGED <<rowVars, file, dbErrors, histVars>>

\* os.replace publishes the .part under the final name.
Replace(i) ==
    /\ JobStep(i, "replace", "markReady")
    /\ part[Path(i)] # {}
    /\ file' = [file EXCEPT ![Path(i)] = part[Path(i)]]
    /\ part' = [part EXCEPT ![Path(i)] = {}]
    /\ UNCHANGED <<rowVars, dbErrors, histVars>>

\* os.replace raises: the share is gone, or another job moved the .part since the measure.
ReplaceFails(i) ==
    /\ JobStep(i, "replace", "report")
    /\ UNCHANGED <<rowVars, diskVars, dbErrors, histVars>>

\* UPDATE ... WHERE id: no row, no effect.
Marked(i, s) == [status EXCEPT ![i] = IF Live(i) THEN s ELSE "none"]

MarkReady(i) ==
    /\ JobStep(i, "markReady", "pop")
    /\ status' = Marked(i, "ready")
    /\ UNCHANGED <<keyOf, tgtOf, lastId, diskVars, dbErrors, histVars>>

\* mark_failed, from _download or, after an exception, from _run_job.
MarkFailed(i) ==
    /\ \/ JobStep(i, "markFailed", "pop")
       \/ JobStep(i, "report", "pop")
    /\ status' = Marked(i, "failed")
    /\ UNCHANGED <<keyOf, tgtOf, lastId, diskVars, dbErrors, histVars>>

\* The database call raises, before or after its commit.  _run_job answers any
\* exception with one mark_failed of its own and swallows that one's error.
MarkError(i) ==
    /\ dbErrors < MaxDbError
    /\ dbErrors' = dbErrors + 1
    /\ \/ /\ JobStep(i, "markReady", "report")
          /\ status' \in {status, Marked(i, "ready")}
       \/ /\ JobStep(i, "markFailed", "report")
          /\ status' \in {status, Marked(i, "failed")}
       \/ /\ JobStep(i, "report", "pop")
          /\ status' \in {status, Marked(i, "failed")}
    /\ UNCHANGED <<keyOf, tgtOf, lastId, diskVars, histVars>>

\* Mutant: _jobs keeps the entry of a finished task.
PopForgotten(i) ==
    /\ JobStep(i, "pop", "pop")
    /\ UNCHANGED <<rowVars, diskVars, dbErrors, histVars>>

\* The finally clause forgets the task.
Pop(i) ==
    /\ JobStep(i, "pop", "idle")
    /\ UNCHANGED <<rowVars, diskVars, dbErrors, histVars>>

-----------------------------------------------------------------------------
(* The worker process: stop, crash, start.                                 *)

\* stop() cancels the poller first and lets the running remuxes go on.
Drain ==
    /\ phase = "up"
    /\ restarts < MaxRestart
    /\ phase' = "draining"
    /\ batch' = {}
    /\ UNCHANGED <<rowVars, targetVars, viewVars, apiVars, job, diskVars, boundVars,
                   histVars>>

\* The drain timeout cancels what still runs, or the process dies at any point.
\* A row it held stays `downloading`.
Die ==
    /\ phase # "down"
    /\ restarts < MaxRestart
    /\ phase' = "down"
    /\ batch' = {}
    /\ job' = [i \in Ids |-> "idle"]
    /\ UNCHANGED <<rowVars, targetVars, viewVars, apiVars, diskVars, boundVars, histVars>>

\* Mutant: nothing is requeued.
RequeuedNothing == status

\* Mutant: every row that is not failed is requeued.
RequeuedAll == [i \in Ids |-> IF status[i] \in {"downloading", "ready"} THEN "pending"
                                                                    ELSE status[i]]

\* reset_stale_jobs.
Requeued == [i \in Ids |-> IF status[i] = "downloading" THEN "pending" ELSE status[i]]

\* start_worker: reset_stale_jobs requeues every downloading row.  The service is
\* deployed stop-first, so the old process is down.
Start ==
    /\ phase = "down"
    /\ phase' = "up"
    /\ restarts' = restarts + 1
    /\ workerOn' = switch
    /\ status' = Requeued
    /\ UNCHANGED <<keyOf, tgtOf, lastId, targetVars, seen, apiVars, batch, job,
                   diskVars, revives, dbErrors, histVars>>

\* The requeue raises; start_worker logs it and polls all the same.
StartNoReset ==
    /\ phase = "down"
    /\ dbErrors < MaxDbError
    /\ dbErrors' = dbErrors + 1
    /\ phase' = "up"
    /\ restarts' = restarts + 1
    /\ workerOn' = switch
    /\ UNCHANGED <<rowVars, targetVars, seen, apiVars, batch, job, diskVars,
                   revives, histVars>>

-----------------------------------------------------------------------------
Request ==
    \/ \E r \in Replicas, k \in Keys : Confirm(r, k)
    \/ \E k \in Keys, t \in Targets :
          ClaimInsert(k, t) \/ ClaimRevive(k, t) \/ ClaimRefused(k, t)

Admin ==
    \/ \E r \in Replicas :
          \/ RefreshReplica(r)
          \/ SetSwitch(r)
          \/ \E t \in Targets : ToggleTarget(r, t) \/ AddTarget(r, t) \/ DeleteTarget(r, t)
    \/ \E i \in Ids : DropRow(i) \/ DropFile(i)

Poll == RefreshWorker \/ Fetch \/ \E i \in Ids : Begin(i) \/ Skip(i) \/ BeginError(i)

\* The next step of a job, whatever it is.
JobRun(i) ==
    \/ Prepare(i) \/ PrepareFails(i) \/ Write(i) \/ RemuxDone(i) \/ RemuxFails(i)
    \/ Measure(i) \/ MeasureEmpty(i) \/ Discard(i) \/ Replace(i) \/ ReplaceFails(i)
    \/ MarkReady(i) \/ MarkFailed(i) \/ MarkError(i) \/ Pop(i)

Lifecycle == Drain \/ Die \/ Start \/ StartNoReset

Next == Request \/ Admin \/ Poll \/ (\E i \in Ids : JobRun(i)) \/ Lifecycle

Spec == Init /\ [][Next]_vars

\* The event loop runs every ready task, ffmpeg is killed at its timeout, the read
\* cache expires, the poll loop ticks, and Docker restarts a worker that is gone.
\* Nothing makes a player confirm or an admin act, and nothing forces an error.
Fairness ==
    /\ WF_vars(RefreshWorker)
    /\ WF_vars(Fetch)
    /\ WF_vars(phase = "draining" /\ Die)
    /\ WF_vars(Start)
    /\ \A i \in Ids : WF_vars(Begin(i) \/ Skip(i)) /\ WF_vars(JobRun(i))

FairSpec == Spec /\ Fairness

-----------------------------------------------------------------------------
(* Properties.                                                             *)

\* _start_pending never has more than cache_max_concurrent remuxes running, however
\* the awaits of the poll and the ends of jobs interleave.
WithinSlots == Cardinality(Jobs) <= Slots

\* With one slot, a row the Cache source surfaces as `ready` is backed by the file
\* its own ffmpeg wrote, whole and alone, unless the unlink of an older entry with
\* the same path took that file: mark_ready follows os.replace, and crashes,
\* retries, deletions and new claims in between leave no half-written file behind it.
ReadyHasItsFile ==
    \A i \in Ids : status[i] = "ready" => file[Path(i)] = {i} \/ i \in stolen

\* A `downloading` row always has a task that will settle it, as long as no database
\* call of the worker failed: while the worker runs nothing else requeues such a row.
DownloadingIsHeld ==
    phase # "down" /\ dbErrors = 0 =>
        \A i \in Ids : status[i] = "downloading" => job[i] \notin {"idle", "pop"}

\* A cached episode stays served until someone deletes it: none of the unconditional
\* UPDATEs and not the requeue of a new worker takes a row out of `ready`, except
\* the mark_failed that follows a mark_ready whose commit was not acknowledged.
ReadyIsKept ==
    [][\A i \in Ids : status[i] = "ready" =>
          status'[i] \in {"ready", "none"} \/ job[i] = "report"]_vars

\* Every claimed download is settled, deleted or requeued by the next worker: no
\* row is `downloading` for ever.
DownloadsEnd ==
    \A i \in Ids : status[i] = "downloading" ~> status[i] # "downloading"

\* Every pending row is taken up while the switch is on and its target open.
PendingDrains ==
    \A i \in Ids : status[i] = "pending" ~>
        \/ status[i] # "pending"
        \/ ~switch
        \/ tgtOf[i] \notin enabled

\* "Drops the entry and its file": once its unlink is done, no file of a dropped
\* entry is on the share.  (Refuted: the running download is not stopped and
\* publishes its file afterwards.)
DroppedFileGone == \A p \in Paths : file[p] \cap dropped \subseteq drops

=============================================================================
