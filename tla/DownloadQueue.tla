---------------------------- MODULE DownloadQueue ----------------------------
(***************************************************************************)
(* Admin downloads: download_engine/db.py, manager.py, aria2.py, fs.py and *)
(* admin_routes.py, with the aria2 sidecar they drive.                     *)
(*                                                                         *)
(* A row of download_jobs is the queue entry.  One worker submits pending  *)
(* rows to aria2 and polls the active ones; any API replica pauses,        *)
(* resumes, retries or deletes a row, talking to aria2 on its own.  No     *)
(* UPDATE has a condition on the status, so every await is a place where   *)
(* another actor's write may fall.  One download root is enough: a job's   *)
(* staging directory is a function of the root and the job's id.           *)
(***************************************************************************)
EXTENDS Integers, FiniteSets

CONSTANTS
    Jobs,          \* ids of rows, 1..n
    Magnets,       \* the jobs whose URL is a magnet
    Gids,          \* aria2's download ids, 1..n (bound)
    None,          \* no gid
    MaxActive,     \* download_max_active
    Ops,           \* which of pause, resume, retry, delete the admins use
    MaxOps,        \* bound: admin operations
    Faults,        \* which of rpc (a reply lost), db (a call of the worker raises),
                   \* restart (of the worker), forget (aria2 restarts) and
                   \* full (no space left) happen
    MaxFault       \* bound: how often, all told

ASSUME JobsAssumption == IsFiniteSet(Jobs) /\ Jobs \subseteq Nat /\ Magnets \subseteq Jobs
ASSUME GidsAssumption == Gids \subseteq Nat /\ None \notin Gids \cup Jobs
ASSUME ActiveAssumption == MaxActive \in Nat \ {0}
ASSUME OpsAssumption == Ops \subseteq {"pause", "resume", "retry", "delete"}
ASSUME FaultsAssumption == Faults \subseteq {"rpc", "db", "restart", "forget", "full"}
ASSUME BoundsAssumption == {MaxOps, MaxFault} \subseteq Nat

VARIABLES
    row,        \* job -> its row: status, gid, and whether staging_dir is set
    aria,       \* gid -> what aria2 would answer to tellStatus
    owner,      \* gid -> the job it was started for
    follows,    \* gid -> the gid its metadata download handed off to
    staging,    \* job -> what its staging directory holds
    published,  \* history: job -> payloads moved out of its staging directory
    room,       \* some download-enabled root has enough free space
    pc,         \* where the poll loop is
    free,       \* slots left by count_active
    todo,       \* pending rows fetched and not submitted yet
    watch,      \* <<job, gid>> of active rows fetched and not looked at yet
    newGid,     \* the gid add_uri returned
    reply,      \* what tell_status answered, "unknown" for an Aria2Error
    ops,        \* admin requests between their read of the row and their write
    used        \* counters for the bounds

rowVars  == <<row>>
ariaVars == <<aria, owner, follows>>
diskVars == <<staging, published, room>>
workVars == <<pc, free, todo, watch, newGid, reply>>
vars == <<row, ariaVars, diskVars, workVars, ops, used>>

AriaState == {"unknown", "active", "paused", "complete", "error", "removed"}
WorkerPc  == {"count", "fetch", "submit", "mark", "fail", "watch", "monitor", "apply",
              "purge", "finish"}
Request   == [op : {"pause", "resume", "requeue", "delete"}, job : Jobs,
              gid : Gids \cup {None}, at : {"call", "purge", "clean", "write"},
              id : 1..MaxOps]

NoRow == [status |-> "none", gid |-> None, dir |-> FALSE]

TypeOK ==
    /\ row \in [Jobs -> [status : {"new", "none", "pending", "active", "paused",
                                   "complete", "failed"},
                         gid : Gids \cup {None}, dir : BOOLEAN]]
    /\ aria \in [Gids -> AriaState]
    /\ owner \in [Gids -> Jobs \cup {None}]
    /\ follows \in [Gids -> Gids \cup {None}]
    /\ staging \in [Jobs -> {"none", "partial", "whole"}]
    /\ published \in [Jobs -> Nat]
    /\ room \in BOOLEAN
    /\ pc \in WorkerPc
    /\ free \in 0..MaxActive
    /\ todo \subseteq Jobs
    /\ watch \subseteq Jobs \X Gids
    /\ newGid \in Gids \cup {None}
    /\ reply \in AriaState
    /\ ops \subseteq Request
    /\ used \in [ops : 0..MaxOps, faults : 0..MaxFault]

Init ==
    /\ row = [j \in Jobs |-> [NoRow EXCEPT !.status = "new"]]
    /\ aria = [g \in Gids |-> "unknown"]
    /\ owner = [g \in Gids |-> None]
    /\ follows = [g \in Gids |-> None]
    /\ staging = [j \in Jobs |-> "none"]
    /\ published = [j \in Jobs |-> 0]
    /\ room = TRUE
    /\ pc = "count" /\ free = 0 /\ todo = {} /\ watch = {}
    /\ newGid = None /\ reply = "unknown"
    /\ ops = {}
    /\ used = [ops |-> 0, faults |-> 0]

-----------------------------------------------------------------------------
(* Helpers.                                                                *)

Exists(j)  == row[j].status \notin {"new", "none"}
HasStatus(s) == {j \in Jobs : row[j].status = s}

\* UPDATE ... SET status WHERE id: without a row nothing happens.
Set(j, s) == row' = IF Exists(j) THEN [row EXCEPT ![j].status = s] ELSE row

\* store.requeue: pending again, without a gid; staging_dir stays.
Requeue(j) ==
    row' = IF Exists(j) THEN [row EXCEPT ![j].status = "pending", ![j].gid = None] ELSE row

\* ORDER BY created_at, id LIMIT n.
Oldest(S, n) == {j \in S : Cardinality({i \in S : i < j}) < n}

First(j) == j \in todo /\ \A i \in todo : j <= i
Watched(j, g) == <<j, g>> \in watch /\ \A w \in watch : j <= w[1]

\* aria2 never gives a gid twice.
Fresh == {g \in Gids : owner[g] = None}
NewGid(g) == g \in Fresh /\ \A h \in Fresh : g <= h

IsMeta(g) == owner[g] \in Magnets /\ \A h \in Gids : follows[h] # g

Use == used.ops < MaxOps /\ used' = [used EXCEPT !.ops = @ + 1]

Fault(f) ==
    /\ f \in Faults /\ used.faults < MaxFault
    /\ used' = [used EXCEPT !.faults = @ + 1]

\* The poller moves on and only its own state and the named variables change.
Goto(from, to) == pc = from /\ pc' = to /\ UNCHANGED <<room, ops>>

-----------------------------------------------------------------------------
(* The poll loop: _submit_pending.                                         *)

\* Mutant: one slot too many.
CountActiveOneMore ==
    /\ pc = "count"
    /\ free' = IF Cardinality(HasStatus("active")) < MaxActive
               THEN MaxActive + 1 - Cardinality(HasStatus("active")) ELSE 0
    /\ pc' = IF free' > 0 THEN "fetch" ELSE "watch"
    /\ UNCHANGED <<row, ariaVars, diskVars, todo, watch, newGid, reply, ops, used>>

\* Mutant: a paused row keeps its slot.
CountActiveAndPaused ==
    /\ pc = "count"
    /\ free' = IF Cardinality((HasStatus("active") \cup HasStatus("paused"))) < MaxActive
               THEN MaxActive - Cardinality((HasStatus("active") \cup HasStatus("paused"))) ELSE 0
    /\ pc' = IF free' > 0 THEN "fetch" ELSE "watch"
    /\ UNCHANGED <<row, ariaVars, diskVars, todo, watch, newGid, reply, ops, used>>

\* count_active.
CountActive ==
    /\ pc = "count"
    /\ free' = IF Cardinality(HasStatus("active")) < MaxActive
               THEN MaxActive - Cardinality(HasStatus("active")) ELSE 0
    /\ pc' = IF free' > 0 THEN "fetch" ELSE "watch"
    /\ UNCHANGED <<row, ariaVars, diskVars, todo, watch, newGid, reply, ops, used>>

FetchPending ==
    /\ Goto("fetch", "submit")
    /\ todo' = Oldest(HasStatus("pending"), free)
    /\ UNCHANGED <<row, ariaVars, staging, published, free, watch, newGid, reply, used>>

SubmitDone ==
    /\ Goto("submit", "watch")
    /\ todo = {}
    /\ UNCHANGED <<row, ariaVars, staging, published, free, todo, watch, newGid, reply, used>>

\* pick_write_target finds no root with space: the row stays pending.
Hold(j) ==
    /\ Goto("submit", "submit")
    /\ First(j)
    /\ ~room
    /\ todo' = todo \ {j}
    /\ UNCHANGED <<row, ariaVars, staging, published, free, watch, newGid, reply, used>>

\* makedirs and aria2.addUri: aria2 starts a download into the staging directory,
\* resuming what is there.
Started(j, g) ==
    /\ NewGid(g)
    /\ aria' = [aria EXCEPT ![g] = "active"]
    /\ owner' = [owner EXCEPT ![g] = j]
    /\ staging' = [staging EXCEPT ![j] = IF @ = "none" THEN "partial" ELSE @]
    /\ UNCHANGED <<follows, published>>

AddUri(j, g) ==
    /\ Goto("submit", "mark")
    /\ First(j)
    /\ room
    /\ Started(j, g)
    /\ newGid' = g
    /\ UNCHANGED <<row, free, todo, watch, reply, used>>

\* add_uri raises although aria2 took the download: the reply was lost.
AddUriLost(j, g) ==
    /\ Goto("submit", "fail")
    /\ First(j)
    /\ room
    /\ Fault("rpc")
    /\ Started(j, g)
    /\ UNCHANGED <<row, free, todo, watch, newGid, reply>>

\* makedirs raises, or aria2 refuses the URL.
AddUriRefused(j) ==
    /\ Goto("submit", "fail")
    /\ First(j)
    /\ room
    /\ UNCHANGED <<row, ariaVars, staging, published, free, todo, watch, newGid, reply, used>>

\* Mutant: mark_active stores the gid and leaves the status.
MarkActiveGidOnly(j) ==
    /\ Goto("mark", "submit")
    /\ First(j)
    /\ row' = IF Exists(j) THEN [row EXCEPT ![j].gid = newGid, ![j].dir = TRUE] ELSE row
    /\ todo' = todo \ {j}
    /\ UNCHANGED <<ariaVars, staging, published, free, watch, newGid, reply, used>>

\* mark_active, whatever the row's status is by now.
MarkActive(j) ==
    /\ Goto("mark", "submit")
    /\ First(j)
    /\ row' = IF Exists(j) THEN [row EXCEPT ![j] = [status |-> "active", gid |-> newGid, dir |-> TRUE]]
                           ELSE row
    /\ todo' = todo \ {j}
    /\ UNCHANGED <<ariaVars, staging, published, free, watch, newGid, reply, used>>

\* _submit_pending answers any exception of _submit_one with mark_failed.
SubmitFailed(j) ==
    /\ Goto("fail", "submit")
    /\ First(j)
    /\ Set(j, "failed")
    /\ todo' = todo \ {j}
    /\ UNCHANGED <<ariaVars, staging, published, free, watch, newGid, reply, used>>

-----------------------------------------------------------------------------
(* The poll loop: _monitor_active, _apply_status and _finalize.            *)

\* fetch_active; a row without a gid is skipped.
FetchActive ==
    /\ Goto("watch", "monitor")
    /\ watch' = {<<j, row[j].gid>> : j \in {i \in HasStatus("active") : row[i].gid # None}}
    /\ UNCHANGED <<row, ariaVars, staging, published, free, todo, newGid, reply, used>>

MonitorDone ==
    /\ Goto("monitor", "count")
    /\ watch = {}
    /\ UNCHANGED <<row, ariaVars, staging, published, free, todo, watch, newGid, reply, used>>

TellStatus(j, g) ==
    /\ Goto("monitor", "apply")
    /\ Watched(j, g)
    /\ reply' = aria[g]
    /\ UNCHANGED <<row, ariaVars, staging, published, free, todo, watch, newGid, used>>

\* _call turns a timeout into the same Aria2Error as an unknown gid.
TellStatusLost(j, g) ==
    /\ Goto("monitor", "apply")
    /\ Watched(j, g)
    /\ Fault("rpc")
    /\ reply' = "unknown"
    /\ UNCHANGED <<row, ariaVars, staging, published, free, todo, watch, newGid>>

\* What ends the turn of <<j, g>>.
Settle(j, g, from) ==
    /\ Goto(from, "monitor")
    /\ Watched(j, g)
    /\ watch' = watch \ {<<j, g>>}
    /\ UNCHANGED <<ariaVars, staging, published, free, todo, newGid, reply, used>>

\* Mutant: a gid aria2 has forgotten is left to the next poll.
RequeueForgottenSkips(j, g) ==
    /\ Settle(j, g, "apply")
    /\ reply = "unknown"
    /\ UNCHANGED row

\* Mutant: requeue clears the gid and leaves the status.
RequeueForgottenStaysActive(j, g) ==
    /\ Settle(j, g, "apply")
    /\ reply = "unknown"
    /\ row' = IF Exists(j) THEN [row EXCEPT ![j].gid = None] ELSE row

RequeueForgotten(j, g) ==
    /\ Settle(j, g, "apply")
    /\ reply = "unknown"
    /\ Requeue(j)

\* A magnet's metadata is complete: follow the gid of its data.
FollowGid(j, g) ==
    /\ Settle(j, g, "apply")
    /\ reply = "complete"
    /\ follows[g] # None
    /\ row' = IF Exists(j) THEN [row EXCEPT ![j].gid = follows[g]] ELSE row

StillRunning(j, g) ==
    /\ Settle(j, g, "apply")
    /\ reply \in {"active", "paused"}
    /\ UNCHANGED row

\* error, or removed in aria2.
DownloadFailed(j, g) ==
    /\ Settle(j, g, "apply")
    /\ reply \in {"error", "removed"}
    /\ Set(j, "failed")

\* publish moves what is in the staging directory and removes it.
Publish(j, g) ==
    /\ Goto("apply", "purge")
    /\ Watched(j, g)
    /\ reply = "complete"
    /\ follows[g] = None
    /\ staging[j] # "none"
    /\ staging' = [staging EXCEPT ![j] = "none"]
    /\ published' = [published EXCEPT ![j] = @ + 1]
    /\ UNCHANGED <<row, ariaVars, free, todo, watch, newGid, reply, used>>

\* publish raises: no files, the root was disabled, or the move failed; mark_failed.
PublishFails(j, g) ==
    /\ Settle(j, g, "apply")
    /\ reply = "complete"
    /\ follows[g] = None
    /\ Set(j, "failed")

\* aria2.remove drops the result row, best effort.
Purge(j, g) ==
    /\ Goto("purge", "finish")
    /\ Watched(j, g)
    /\ aria' \in {aria, [aria EXCEPT ![g] = "unknown"]}
    /\ UNCHANGED <<row, owner, follows, staging, published, free, todo, watch, newGid, reply, used>>

\* Mutant: mark_complete stores the path and leaves the status.
MarkCompletePathOnly(j, g) ==
    /\ Settle(j, g, "finish")
    /\ UNCHANGED row

MarkComplete(j, g) ==
    /\ Settle(j, g, "finish")
    /\ Set(j, "complete")

\* A database call of the worker raises.  In _submit_one that fails the row; anywhere
\* else it ends this poll.
PollError ==
    /\ Fault("db")
    /\ pc \in {"count", "fetch", "mark", "fail", "watch", "apply", "finish"}
    /\ pc' = IF pc = "mark" THEN "fail" ELSE "count"
    /\ todo' = IF pc = "mark" THEN todo ELSE {}
    /\ watch' = {}
    /\ UNCHANGED <<row, ariaVars, diskVars, free, newGid, reply, ops>>

\* The worker dies or is rolled; the next one starts polling.  Nothing is reset.
Restart ==
    /\ Fault("restart")
    /\ pc' = "count" /\ todo' = {} /\ watch' = {}
    /\ free' = 0 /\ newGid' = None /\ reply' = "unknown"
    /\ UNCHANGED <<row, ariaVars, diskVars, ops>>

-----------------------------------------------------------------------------
(* The admin's requests, served by any API replica.                        *)

NotWorker == UNCHANGED <<workVars, published, room>>

\* create_download; some root is download-enabled.
Create(j) ==
    /\ row[j].status = "new"
    /\ row' = [row EXCEPT ![j].status = "pending"]
    /\ NotWorker /\ UNCHANGED <<ariaVars, staging, ops, used>>

Ask(op, j, g, at) ==
    ops' = ops \cup {[op |-> op, job |-> j, gid |-> g, at |-> at, id |-> used.ops + 1]}

\* pause_download and resume_download read the row; without a gid, resume requeues.
ReadRow(op, j) ==
    /\ op \in Ops \cap {"pause", "resume"}
    /\ Exists(j)
    /\ Use
    /\ IF row[j].gid # None THEN Ask(op, j, row[j].gid, "call")
       ELSE Ask(IF op = "resume" THEN "requeue" ELSE "pause", j, None, "write")
    /\ NotWorker /\ UNCHANGED <<row, ariaVars, staging>>

Advance(o, op, at) == ops' = (ops \ {o}) \cup {[o EXCEPT !.op = op, !.at = at]}

\* aria2.pause; its error, for a gid that is not running, is swallowed.
PauseCall(o) ==
    /\ o \in ops /\ o.op = "pause" /\ o.at = "call"
    /\ aria' = [aria EXCEPT ![o.gid] = IF @ = "active" THEN "paused" ELSE @]
    /\ Advance(o, "pause", "write")
    /\ NotWorker /\ UNCHANGED <<row, owner, follows, staging, used>>

\* aria2.unpause; it refuses a gid that is not paused.
ResumeCall(o) ==
    /\ o \in ops /\ o.op = "resume" /\ o.at = "call"
    /\ IF aria[o.gid] = "paused"
       THEN aria' = [aria EXCEPT ![o.gid] = "active"] /\ Advance(o, "resume", "write")
       ELSE UNCHANGED aria /\ Advance(o, "requeue", "write")
    /\ NotWorker /\ UNCHANGED <<row, owner, follows, staging, used>>

\* The RPC of a request times out: pause and remove go on, resume requeues.
CallLost(o) ==
    /\ o \in ops /\ o.at \in {"call", "purge"}
    /\ Fault("rpc")
    /\ IF o.op = "resume" THEN Advance(o, "requeue", "write")
       ELSE Advance(o, o.op, CASE o.op = "pause" -> "write"
                               [] o.at = "call"  -> "purge"
                               [] OTHER          -> "clean")
    /\ NotWorker /\ UNCHANGED <<row, ariaVars, staging>>

\* The write that ends a pause or a resume.
WriteRow(o) ==
    /\ o \in ops /\ o.at = "write"
    /\ \/ o.op = "pause" /\ Set(o.job, "paused")
       \/ o.op = "resume" /\ Set(o.job, "active")
       \/ o.op = "requeue" /\ Requeue(o.job)
    /\ ops' = ops \ {o}
    /\ NotWorker /\ UNCHANGED <<ariaVars, staging, used>>

\* retry_download: the requeue does not look at what the row was.
Retry(j) ==
    /\ "retry" \in Ops
    /\ Exists(j)
    /\ Use
    /\ Requeue(j)
    /\ NotWorker /\ UNCHANGED <<ariaVars, staging, ops>>

\* delete_download: the row goes first, cancel_job works from what it held.
Delete(j) ==
    /\ "delete" \in Ops
    /\ Exists(j)
    /\ Use
    /\ row' = [row EXCEPT ![j] = NoRow]
    /\ IF row[j].gid # None THEN Ask("delete", j, row[j].gid, "call")
       ELSE IF row[j].dir THEN Ask("delete", j, None, "clean") ELSE UNCHANGED ops
    /\ NotWorker /\ UNCHANGED <<ariaVars, staging>>

\* aria2.forceRemove, then removeDownloadResult.
RemoveCall(o) ==
    /\ o \in ops /\ o.op = "delete" /\ o.at = "call"
    /\ aria' = [aria EXCEPT ![o.gid] = IF @ \in {"active", "paused"} THEN "removed" ELSE @]
    /\ Advance(o, "delete", "purge")
    /\ NotWorker /\ UNCHANGED <<row, owner, follows, staging, used>>

\* removeDownloadResult takes a download that has ended only.
RemoveResult(o) ==
    /\ o \in ops /\ o.op = "delete" /\ o.at = "purge"
    /\ aria' = [aria EXCEPT ![o.gid] = IF @ \in {"active", "paused"} THEN @ ELSE "unknown"]
    /\ Advance(o, "delete", "clean")
    /\ NotWorker /\ UNCHANGED <<row, owner, follows, staging, used>>

CleanStaging(o) ==
    /\ o \in ops /\ o.op = "delete" /\ o.at = "clean"
    /\ staging' = [staging EXCEPT ![o.job] = "none"]
    /\ ops' = ops \ {o}
    /\ NotWorker /\ UNCHANGED <<row, ariaVars, used>>

-----------------------------------------------------------------------------
(* aria2 and the disks.                                                    *)

NotOurs == UNCHANGED <<row, workVars, published, ops>>

\* A download ends; the file of a directory that was removed is lost.
DataDone(g) ==
    /\ aria[g] = "active"
    /\ ~IsMeta(g)
    /\ aria' = [aria EXCEPT ![g] = "complete"]
    /\ staging' = [staging EXCEPT ![owner[g]] = IF @ = "none" THEN "none" ELSE "whole"]
    /\ NotOurs /\ UNCHANGED <<owner, follows, room, used>>

\* A magnet's metadata is there: aria2 starts the data under a new gid.
MetaDone(g, h) ==
    /\ aria[g] = "active"
    /\ IsMeta(g)
    /\ NewGid(h)
    /\ aria' = [aria EXCEPT ![g] = "complete", ![h] = "active"]
    /\ owner' = [owner EXCEPT ![h] = owner[g]]
    /\ follows' = [follows EXCEPT ![g] = h]
    /\ staging' = [staging EXCEPT ![owner[g]] = IF @ = "none" THEN "partial" ELSE @]
    /\ NotOurs /\ UNCHANGED <<room, used>>

DownloadError(g) ==
    /\ aria[g] = "active"
    /\ aria' = [aria EXCEPT ![g] = "error"]
    /\ NotOurs /\ UNCHANGED <<owner, follows, staging, room, used>>

\* aria2 restarts and knows no gid any more.
Forget ==
    /\ Fault("forget")
    /\ aria' = [g \in Gids |-> "unknown"]
    /\ aria' # aria
    /\ NotOurs /\ UNCHANGED <<owner, follows, staging, room>>

\* The last root with space fills up, or is closed for downloads.
RoomGone ==
    /\ room
    /\ Fault("full")
    /\ room' = FALSE
    /\ NotOurs /\ UNCHANGED <<ariaVars, staging>>

\* Some root is opened or cleaned.
RoomBack ==
    /\ ~room
    /\ room' = TRUE
    /\ NotOurs /\ UNCHANGED <<ariaVars, staging, used>>

-----------------------------------------------------------------------------
Submit ==
    \/ CountActive \/ FetchPending \/ SubmitDone
    \/ \E j \in Jobs :
          \/ Hold(j) \/ AddUriRefused(j) \/ MarkActive(j) \/ SubmitFailed(j)
          \/ \E g \in Gids : AddUri(j, g) \/ AddUriLost(j, g)

Monitor ==
    \/ FetchActive \/ MonitorDone
    \/ \E j \in Jobs, g \in Gids :
          \/ TellStatus(j, g) \/ TellStatusLost(j, g) \/ RequeueForgotten(j, g)
          \/ FollowGid(j, g) \/ StillRunning(j, g) \/ DownloadFailed(j, g)
          \/ Publish(j, g) \/ PublishFails(j, g) \/ Purge(j, g) \/ MarkComplete(j, g)

Worker == Submit \/ Monitor \/ PollError

Admin ==
    \/ \E j \in Jobs : Create(j) \/ Retry(j) \/ Delete(j) \/ ReadRow("pause", j) \/ ReadRow("resume", j)
    \/ \E o \in ops : PauseCall(o) \/ ResumeCall(o) \/ WriteRow(o) \/ RemoveCall(o)
                      \/ RemoveResult(o) \/ CleanStaging(o) \/ CallLost(o)

Aria ==
    \/ \E g \in Gids : DataDone(g) \/ DownloadError(g) \/ \E h \in Gids : MetaDone(g, h)
    \/ Forget \/ RoomGone \/ RoomBack

Next == Worker \/ Restart \/ Admin \/ Aria

Spec == Init /\ [][Next]_vars

\* The poll loop never stops; nothing is assumed of aria2 or of the admins.
FairSpec == Spec /\ WF_vars(Worker)

-----------------------------------------------------------------------------
(* Properties.                                                             *)

Running(j) == {g \in Gids : owner[g] = j /\ aria[g] = "active"}

\* A file is never written twice at once: a row has one running aria2 download, over
\* aria2 restarts, magnet hand-offs, pauses and deletions.  (Refuted when an RPC reply
\* is lost: the monitor takes a timeout for a gid that aria2 has forgotten.)
OneWriter == \A j \in Jobs : Cardinality(Running(j)) <= 1

\* A payload is moved into the library once, however the pause and the deletion of its
\* row interleave with the poll that publishes it.
PublishedOnce == \A j \in Jobs : published[j] <= 1

\* Both, while every reply of aria2 arrives.
WrittenOnce == OneWriter /\ PublishedOnce

\* An active row was handed to aria2 and has a gid, else no poll ever looks at it again:
\* whatever fails, and whichever request races the poll.
ActiveHasGid == \A j \in HasStatus("active") : row[j].gid # None

\* Some active row waits for a download that aria2 has forgotten.
Forgotten(g) == aria[g] = "unknown" /\ \E j \in HasStatus("active") : row[j].gid = g

\* An active row whose gid aria2 has forgotten does not stay that way.
ForgottenRecovers == \A g \in Gids : Forgotten(g) ~> ~Forgotten(g)

\* A pending row is submitted while there is a slot and a root with space.
PendingSubmitted ==
    \A j \in Jobs :
        row[j].status = "pending" ~>
            \/ row[j].status # "pending"
            \/ ~room
            \/ Cardinality(HasStatus("active")) >= MaxActive
=============================================================================
