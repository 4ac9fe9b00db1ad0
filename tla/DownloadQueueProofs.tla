-------------------------- MODULE DownloadQueueProofs --------------------------
(***************************************************************************)
(* Proofs about the download queue, for any number of rows, downloads,     *)
(* requests and faults of every kind.                                      *)
(***************************************************************************)
EXTENDS DownloadQueue, FiniteSetTheorems, TLAPS

USE JobsAssumption, GidsAssumption, ActiveAssumption, OpsAssumption, BoundsAssumption

-----------------------------------------------------------------------------
(* Types.                                                                  *)

RowType == [status : {"new", "none", "pending", "active", "paused", "complete", "failed"},
            gid : Gids \cup {None}, dir : BOOLEAN]

RowsTyped == row \in [Jobs -> RowType]
AriaTyped == /\ aria \in [Gids -> AriaState] /\ owner \in [Gids -> Jobs \cup {None}]
             /\ follows \in [Gids -> Gids \cup {None}]
DiskTyped == /\ staging \in [Jobs -> {"none", "partial", "whole"}]
             /\ published \in [Jobs -> Nat] /\ room \in BOOLEAN
WorkTyped == /\ pc \in WorkerPc /\ free \in 0..MaxActive /\ todo \subseteq Jobs
             /\ watch \subseteq Jobs \X Gids /\ newGid \in Gids \cup {None} /\ reply \in AriaState
AskTyped  == ops \subseteq Request
UsedTyped == used \in [ops : 0..MaxOps, faults : 0..MaxFault]

Parts == RowsTyped /\ AriaTyped /\ DiskTyped /\ WorkTyped /\ AskTyped /\ UsedTyped

LEMMA InParts == TypeOK <=> Parts
  BY DEF TypeOK, Parts, RowsTyped, AriaTyped, DiskTyped, WorkTyped, AskTyped, UsedTyped, RowType

\* A part that a step does not touch keeps its type.
LEMMA Untouched ==
    /\ RowsTyped /\ UNCHANGED row => RowsTyped'
    /\ AriaTyped /\ UNCHANGED ariaVars => AriaTyped'
    /\ DiskTyped /\ UNCHANGED diskVars => DiskTyped'
    /\ WorkTyped /\ UNCHANGED workVars => WorkTyped'
    /\ AskTyped /\ UNCHANGED ops => AskTyped'
    /\ UsedTyped /\ UNCHANGED used => UsedTyped'
  BY DEF RowsTyped, AriaTyped, DiskTyped, WorkTyped, AskTyped, UsedTyped, ariaVars, diskVars, workVars

LEMMA SetTyped ==
    ASSUME RowsTyped, NEW j \in Jobs, NEW s \in {"pending", "active", "paused", "complete", "failed"},
           Set(j, s)
    PROVE  RowsTyped'
  BY DEF RowsTyped, RowType, Set

LEMMA RequeueTyped ==
    ASSUME RowsTyped, NEW j \in Jobs, Requeue(j) PROVE RowsTyped'
<1>1. row[j] \in RowType
  BY DEF RowsTyped
<1>2. [row[j] EXCEPT !.status = "pending", !.gid = None] \in RowType
  BY <1>1 DEF RowType
<1>3. CASE ~Exists(j)
  BY <1>3 DEF RowsTyped, Requeue
<1>4. CASE Exists(j)
  <2>1. row' = [row EXCEPT ![j] = [row[j] EXCEPT !.status = "pending", !.gid = None]]
    BY <1>4 DEF Requeue, RowsTyped
  <2> QED BY <1>2, <2>1 DEF RowsTyped
<1> QED BY <1>3, <1>4

LEMMA FaultTyped == ASSUME UsedTyped, NEW f, Fault(f) PROVE UsedTyped'
  BY DEF UsedTyped, Fault

LEMMA UseTyped == ASSUME UsedTyped, Use PROVE UsedTyped' /\ used.ops + 1 \in 1..MaxOps
  BY DEF UsedTyped, Use

LEMMA AskIsTyped ==
    ASSUME AskTyped, used.ops + 1 \in 1..MaxOps, NEW op \in {"pause", "resume", "requeue", "delete"},
           NEW j \in Jobs, NEW g \in Gids \cup {None}, NEW a \in {"call", "purge", "clean", "write"},
           Ask(op, j, g, a)
    PROVE  AskTyped'
  BY DEF AskTyped, Request, Ask

LEMMA AdvanceTyped ==
    ASSUME AskTyped, NEW o \in ops, NEW op \in {"pause", "resume", "requeue", "delete"},
           NEW a \in {"call", "purge", "clean", "write"}, Advance(o, op, a)
    PROVE  AskTyped'
<1>1. o \in Request
  BY DEF AskTyped
<1>2. [o EXCEPT !.op = op, !.at = a] \in Request
  BY <1>1 DEF Request
<1> QED BY <1>2 DEF AskTyped, Advance

LEMMA TypeInit == Init => TypeOK
<1> SUFFICES ASSUME Init PROVE TypeOK
  OBVIOUS
<1>1. RowsTyped
  BY DEF Init, RowsTyped, RowType, NoRow
<1>2. AriaTyped /\ DiskTyped
  BY DEF Init, AriaTyped, DiskTyped, AriaState
<1>3. WorkTyped
  BY DEF Init, WorkTyped, AriaState, WorkerPc
<1>4. AskTyped /\ UsedTyped
  BY DEF Init, AskTyped, UsedTyped
<1> QED BY <1>1, <1>2, <1>3, <1>4, InParts DEF Parts

\* aria2 takes a download, for a job.
LEMMA StartedTyped ==
    ASSUME Parts, NEW j \in Jobs, NEW g \in Gids, Started(j, g), UNCHANGED room
    PROVE  AriaTyped' /\ DiskTyped'
<1>1. AriaTyped'
  BY DEF Parts, AriaTyped, Started, AriaState
<1>2. DiskTyped'
  BY DEF Parts, DiskTyped, Started
<1> QED BY <1>1, <1>2

LEMMA TypeSubmit == ASSUME Parts, Submit PROVE Parts'
<1> USE DEF Parts, Goto
<1>1. CASE CountActive
  <2>1. UNCHANGED <<row, ariaVars, diskVars, todo, watch, newGid, reply, ops, used>>
        /\ pc' \in {"fetch", "watch"}
    BY <1>1 DEF CountActive
  <2>2. free' \in 0..MaxActive
    <3> DEFINE n == Cardinality(HasStatus("active"))
    <3>1. free' = IF n < MaxActive THEN MaxActive - n ELSE 0
      BY <1>1 DEF CountActive
    <3>2. IsFiniteSet(HasStatus("active"))
      BY FS_Subset DEF HasStatus
    <3>3. n \in Nat
      BY <3>2, FS_CardinalityType
    <3> HIDE DEF n
    <3> QED BY <3>1, <3>3
  <2>3. WorkTyped'
    BY <2>1, <2>2 DEF WorkTyped, WorkerPc
  <2> QED BY <2>1, <2>3, Untouched
<1>2. CASE FetchPending \/ SubmitDone
  <2>1. UNCHANGED <<row, ariaVars, diskVars, ops, used>>
    BY <1>2 DEF FetchPending, SubmitDone, diskVars
  <2>2. WorkTyped'
    BY <1>2 DEF FetchPending, SubmitDone, WorkTyped, WorkerPc, Oldest, HasStatus
  <2> QED BY <2>1, <2>2, Untouched
<1>3. ASSUME NEW j \in Jobs, Hold(j) \/ AddUriRefused(j) \/ MarkActive(j) \/ SubmitFailed(j)
      PROVE  Parts'
  <2>1. UNCHANGED <<ariaVars, diskVars, ops, used>>
    BY <1>3 DEF Hold, AddUriRefused, MarkActive, SubmitFailed, diskVars
  <2>2. WorkTyped'
    BY <1>3 DEF Hold, AddUriRefused, MarkActive, SubmitFailed, WorkTyped, WorkerPc
  <2>3. RowsTyped'
    <3>1. CASE Hold(j) \/ AddUriRefused(j)
      BY <3>1, Untouched DEF Hold, AddUriRefused
    <3>2. CASE MarkActive(j)
      BY <3>2 DEF MarkActive, RowsTyped, RowType, WorkTyped
    <3>3. CASE SubmitFailed(j)
      BY <3>3, SetTyped DEF SubmitFailed
    <3> QED BY <1>3, <3>1, <3>2, <3>3
  <2> QED BY <2>1, <2>2, <2>3, Untouched
<1>4. ASSUME NEW j \in Jobs, NEW g \in Gids, AddUri(j, g) \/ AddUriLost(j, g) PROVE Parts'
  <2>1. AriaTyped' /\ DiskTyped'
    BY <1>4, StartedTyped DEF AddUri, AddUriLost
  <2>2. UNCHANGED <<row, ops>> /\ (UNCHANGED used \/ Fault("rpc"))
    BY <1>4 DEF AddUri, AddUriLost
  <2>3. WorkTyped'
    BY <1>4 DEF AddUri, AddUriLost, WorkTyped, WorkerPc
  <2> QED BY <2>1, <2>2, <2>3, Untouched, FaultTyped
<1> QED BY <1>1, <1>2, <1>3, <1>4 DEF Submit

LEMMA TypeMonitor == ASSUME Parts, Monitor PROVE Parts'
<1> USE DEF Parts, Goto
<1>1. CASE FetchActive \/ MonitorDone
  <2>1. UNCHANGED <<row, ariaVars, diskVars, ops, used>>
    BY <1>1 DEF FetchActive, MonitorDone, diskVars
  <2>2. watch' \subseteq Jobs \X Gids
    <3>1. \A j \in Jobs : row[j].gid # None => row[j].gid \in Gids
      BY DEF RowsTyped, RowType
    <3>2. CASE MonitorDone
      BY <3>2 DEF MonitorDone, WorkTyped
    <3>3. CASE FetchActive
      <4>1. watch' = {<<j, row[j].gid>> : j \in {i \in HasStatus("active") : row[i].gid # None}}
        BY <3>3 DEF FetchActive
      <4>2. \A w \in watch' : \E j \in Jobs : row[j].gid # None /\ w = <<j, row[j].gid>>
        BY <4>1 DEF HasStatus
      <4> QED BY <3>1, <4>2
    <3> QED BY <1>1, <3>2, <3>3
  <2>3. WorkTyped'
    BY <1>1, <2>2 DEF FetchActive, MonitorDone, WorkTyped, WorkerPc
  <2> QED BY <2>1, <2>3, Untouched
<1>2. ASSUME NEW j \in Jobs, NEW g \in Gids, TellStatus(j, g) \/ TellStatusLost(j, g) PROVE Parts'
  <2>1. UNCHANGED <<row, ariaVars, diskVars, ops>> /\ (UNCHANGED used \/ Fault("rpc"))
    BY <1>2 DEF TellStatus, TellStatusLost, diskVars
  <2>2. WorkTyped'
    BY <1>2 DEF TellStatus, TellStatusLost, WorkTyped, WorkerPc, AriaTyped, AriaState
  <2> QED BY <2>1, <2>2, Untouched, FaultTyped
<1>3. ASSUME NEW j \in Jobs, NEW g \in Gids, NEW from \in WorkerPc, Settle(j, g, from), RowsTyped'
      PROVE  Parts'
  <2>1. UNCHANGED <<ariaVars, diskVars, ops, used>>
    BY <1>3 DEF Settle, diskVars
  <2>2. WorkTyped'
    BY <1>3 DEF Settle, WorkTyped, WorkerPc
  <2> QED BY <1>3, <2>1, <2>2, Untouched
<1>4. ASSUME NEW j \in Jobs, NEW g \in Gids,
             \/ RequeueForgotten(j, g) \/ FollowGid(j, g) \/ StillRunning(j, g)
             \/ DownloadFailed(j, g) \/ PublishFails(j, g) \/ MarkComplete(j, g)
      PROVE  Parts'
  <2>1. Settle(j, g, "apply") \/ Settle(j, g, "finish")
    BY <1>4 DEF RequeueForgotten, FollowGid, StillRunning, DownloadFailed, PublishFails, MarkComplete
  <2>2. RowsTyped'
    <3>1. CASE RequeueForgotten(j, g)
      BY <3>1, RequeueTyped DEF RequeueForgotten
    <3>2. CASE FollowGid(j, g)
      BY <3>2 DEF FollowGid, RowsTyped, RowType, AriaTyped
    <3>3. CASE StillRunning(j, g)
      BY <3>3, Untouched DEF StillRunning
    <3>4. CASE DownloadFailed(j, g) \/ PublishFails(j, g) \/ MarkComplete(j, g)
      BY <3>4, SetTyped DEF DownloadFailed, PublishFails, MarkComplete
    <3> QED BY <1>4, <3>1, <3>2, <3>3, <3>4
  <2>3. "apply" \in WorkerPc /\ "finish" \in WorkerPc
    BY DEF WorkerPc
  <2> QED BY <1>3, <2>1, <2>2, <2>3
<1>5. ASSUME NEW j \in Jobs, NEW g \in Gids, Publish(j, g) PROVE Parts'
  <2>1. UNCHANGED <<row, ariaVars, ops, used>>
    BY <1>5 DEF Publish
  <2>2. WorkTyped'
    BY <1>5 DEF Publish, WorkTyped, WorkerPc
  <2>3. DiskTyped'
    BY <1>5 DEF Publish, DiskTyped
  <2> QED BY <2>1, <2>2, <2>3, Untouched
<1>6. ASSUME NEW j \in Jobs, NEW g \in Gids, Purge(j, g) PROVE Parts'
  <2>1. UNCHANGED <<row, diskVars, ops, used>>
    BY <1>6 DEF Purge, diskVars
  <2>2. WorkTyped'
    BY <1>6 DEF Purge, WorkTyped, WorkerPc
  <2>3. AriaTyped'
    BY <1>6 DEF Purge, AriaTyped, AriaState
  <2> QED BY <2>1, <2>2, <2>3, Untouched
<1> QED BY <1>1, <1>2, <1>4, <1>5, <1>6 DEF Monitor

LEMMA TypeFaults == ASSUME Parts, PollError \/ Restart PROVE Parts'
<1> USE DEF Parts
<1>1. UNCHANGED <<row, ariaVars, diskVars, ops>> /\ \E f : Fault(f)
  BY DEF PollError, Restart
<1>2. WorkTyped'
  <2>1. CASE PollError
    BY <2>1 DEF PollError, WorkTyped, WorkerPc
  <2>2. CASE Restart
    BY <2>2 DEF Restart, WorkTyped, WorkerPc, AriaState
  <2> QED BY <2>1, <2>2
<1> QED BY <1>1, <1>2, Untouched, FaultTyped

LEMMA TypeAdmin == ASSUME Parts, Admin PROVE Parts'
<1> USE DEF Parts, NotWorker
<1>1. ASSUME NEW j \in Jobs, Create(j) \/ Retry(j) PROVE Parts'
  <2>1. UNCHANGED <<ariaVars, diskVars, workVars, ops>> /\ (UNCHANGED used \/ Use)
    BY <1>1 DEF Create, Retry, diskVars
  <2>2. RowsTyped'
    <3>1. CASE Create(j)
      BY <3>1 DEF Create, RowsTyped, RowType
    <3>2. CASE Retry(j)
      BY <3>2, RequeueTyped DEF Retry
    <3> QED BY <1>1, <3>1, <3>2
  <2> QED BY <2>1, <2>2, Untouched, UseTyped
<1>2. ASSUME NEW j \in Jobs, Delete(j) PROVE Parts'
  <2>1. Use /\ UNCHANGED <<ariaVars, diskVars, workVars>>
    BY <1>2 DEF Delete, diskVars
  <2>2. RowsTyped' /\ row[j].gid \in Gids \cup {None}
    BY <1>2 DEF Delete, RowsTyped, RowType, NoRow
  <2>3. \/ UNCHANGED ops \/ Ask("delete", j, row[j].gid, "call") \/ Ask("delete", j, None, "clean")
    BY <1>2 DEF Delete
  <2>4. AskTyped'
    BY <2>1, <2>2, <2>3, UseTyped, AskIsTyped, Untouched
  <2> QED BY <2>1, <2>2, <2>4, Untouched, UseTyped
<1>3. ASSUME NEW j \in Jobs, NEW op \in {"pause", "resume"}, ReadRow(op, j) PROVE Parts'
  <2>1. Use /\ UNCHANGED <<row, ariaVars, diskVars, workVars>>
    BY <1>3 DEF ReadRow, diskVars
  <2>2. row[j].gid \in Gids \cup {None}
    BY DEF RowsTyped, RowType
  <2>3. \/ Ask(op, j, row[j].gid, "call")
        \/ \E o \in {"pause", "requeue"} : Ask(o, j, None, "write")
    BY <1>3 DEF ReadRow
  <2>4. AskTyped'
    <3>1. CASE Ask(op, j, row[j].gid, "call")
      BY <2>1, <2>2, <3>1, UseTyped, AskIsTyped, ZenonT(30)
    <3>2. ASSUME NEW o \in {"pause", "requeue"}, Ask(o, j, None, "write") PROVE AskTyped'
      BY <2>1, <3>2, UseTyped, AskIsTyped, ZenonT(30)
    <3> QED BY <2>3, <3>1, <3>2
  <2> QED BY <2>1, <2>4, Untouched, UseTyped
<1>4. ASSUME NEW o \in ops,
             PauseCall(o) \/ ResumeCall(o) \/ RemoveCall(o) \/ RemoveResult(o)
      PROVE  Parts'
  <2>1. UNCHANGED <<row, diskVars, workVars, used>>
    BY <1>4 DEF PauseCall, ResumeCall, RemoveCall, RemoveResult, diskVars
  <2>2. AriaTyped'
    BY <1>4 DEF PauseCall, ResumeCall, RemoveCall, RemoveResult, AriaTyped, AriaState
  <2>3. \E op \in {"pause", "resume", "requeue", "delete"}, a \in {"call", "purge", "clean", "write"} :
            Advance(o, op, a)
    BY <1>4 DEF PauseCall, ResumeCall, RemoveCall, RemoveResult
  <2> QED BY <2>1, <2>2, <2>3, Untouched, AdvanceTyped
<1>5. ASSUME NEW o \in ops, CallLost(o) PROVE Parts'
  <2>1. UNCHANGED <<row, ariaVars, diskVars, workVars>> /\ Fault("rpc")
    BY <1>5 DEF CallLost, diskVars
  <2>2. o.op \in {"pause", "resume", "requeue", "delete"}
    BY DEF AskTyped, Request
  <2>3. \E op \in {"pause", "resume", "requeue", "delete"}, a \in {"call", "purge", "clean", "write"} :
            Advance(o, op, a)
    BY <1>5, <2>2 DEF CallLost
  <2> QED BY <2>1, <2>3, Untouched, AdvanceTyped, FaultTyped
<1>6. ASSUME NEW o \in ops, WriteRow(o) \/ CleanStaging(o) PROVE Parts'
  <2>1. UNCHANGED <<ariaVars, workVars, used, room, published>> /\ ops' = ops \ {o}
    BY <1>6 DEF WriteRow, CleanStaging
  <2>2. o.job \in Jobs
    BY DEF AskTyped, Request
  <2>3. RowsTyped'
    <3>1. CASE UNCHANGED row
      BY <3>1, Untouched
    <3>2. CASE Requeue(o.job)
      BY <2>2, <3>2, RequeueTyped
    <3>3. CASE Set(o.job, "paused") \/ Set(o.job, "active")
      BY <2>2, <3>3, SetTyped
    <3> QED BY <1>6, <3>1, <3>2, <3>3 DEF WriteRow, CleanStaging
  <2>4. DiskTyped'
    BY <1>6, <2>1 DEF WriteRow, CleanStaging, DiskTyped
  <2>5. AskTyped'
    BY <2>1 DEF AskTyped
  <2> QED BY <2>1, <2>3, <2>4, <2>5, Untouched
<1> QED BY <1>1, <1>2, <1>3, <1>4, <1>5, <1>6 DEF Admin

LEMMA TypeAria == ASSUME Parts, Aria PROVE Parts'
<1> USE DEF Parts, NotOurs
<1>1. UNCHANGED <<row, workVars, published, ops>> /\ (UNCHANGED used \/ \E f : Fault(f))
  BY DEF Aria, DataDone, MetaDone, DownloadError, Forget, RoomGone, RoomBack
<1>2. AriaTyped'
  BY DEF Aria, DataDone, MetaDone, DownloadError, Forget, RoomGone, RoomBack, AriaTyped,
         AriaState, ariaVars
<1>3. DiskTyped'
  <2>1. ASSUME NEW g \in Gids, DataDone(g) \/ \E h \in Gids : MetaDone(g, h) PROVE DiskTyped'
    <3>1. UNCHANGED <<published, room>>
      BY <2>1 DEF DataDone, MetaDone
    <3>2. staging' \in [Jobs -> {"none", "partial", "whole"}]
      BY <2>1 DEF DataDone, MetaDone, DiskTyped
    <3> QED BY <3>1, <3>2 DEF DiskTyped
  <2>2. CASE (\E g \in Gids : DownloadError(g)) \/ Forget \/ RoomGone \/ RoomBack
    BY <2>2 DEF DownloadError, Forget, RoomGone, RoomBack, DiskTyped
  <2> QED BY <2>1, <2>2 DEF Aria
<1> QED BY <1>1, <1>2, <1>3, Untouched, FaultTyped

LEMMA TypeNext == TypeOK /\ [Next]_vars => TypeOK'
<1>1. Parts /\ [Next]_vars => Parts'
  <2>1. Parts /\ UNCHANGED vars => Parts'
    BY Untouched DEF Parts, vars
  <2> QED BY <2>1, TypeSubmit, TypeMonitor, TypeFaults, TypeAdmin, TypeAria DEF Next, Worker
<1>2. TypeOK' <=> Parts'
  BY InParts, PTL
<1> QED BY <1>1, <1>2, InParts

\* Every variable of the queue and of its worker keeps its type, whatever aria2 answers and
\* whichever requests race the poll (manager.py, db.py).
THEOREM Typed == Spec => []TypeOK
  BY TypeInit, TypeNext, PTL DEF Spec

-----------------------------------------------------------------------------
(* Active rows have a gid.                                                 *)

\* A resume writes `active` only for a download that a pause had paused.
Unpaused ==
    /\ \A o \in ops : /\ o.op = "resume" => o.at = "call" /\ o.gid \in Gids /\ "resume" \in Ops
                      /\ o.op = "pause" => "pause" \in Ops
    /\ "pause" \notin Ops => \A g \in Gids : aria[g] # "paused"

\* The gid that mark_active is about to write is one that aria2 gave.
Given == pc = "mark" => newGid # None

Tracked == ActiveHasGid /\ Given /\ Unpaused

LEMMA KeptTracked ==
    ASSUME Tracked, UNCHANGED row, UNCHANGED aria, UNCHANGED ops, Given' PROVE Tracked'
  BY DEF Tracked, ActiveHasGid, HasStatus, Unpaused

\* A row that is requeued, or set to anything but `active`, is not active.
LEMMA SetTracked ==
    ASSUME Parts, ActiveHasGid, NEW j \in Jobs,
           Requeue(j) \/ \E s \in {"paused", "complete", "failed"} : Set(j, s)
    PROVE  ActiveHasGid'
  BY DEF Parts, RowsTyped, RowType, ActiveHasGid, HasStatus, Requeue, Set

LEMMA TrackedWorker == ASSUME Parts, Tracked, Worker \/ Restart PROVE Tracked'
<1> USE DEF Parts, Goto
<1>1. UNCHANGED ops
  BY DEF Worker, Submit, Monitor, CountActive, FetchPending, SubmitDone, Hold, AddUriRefused,
         MarkActive, SubmitFailed, AddUri, AddUriLost, FetchActive, MonitorDone, TellStatus,
         TellStatusLost, Settle, RequeueForgotten, FollowGid, StillRunning, DownloadFailed, Publish,
         PublishFails, Purge, MarkComplete, PollError, Restart
<1>2. Given'
  BY DEF Worker, Submit, Monitor, CountActive, FetchPending, SubmitDone, Hold, AddUriRefused,
         MarkActive, SubmitFailed, AddUri, AddUriLost, FetchActive, MonitorDone, TellStatus,
         TellStatusLost, Settle, RequeueForgotten, FollowGid, StillRunning, DownloadFailed, Publish,
         PublishFails, Purge, MarkComplete, PollError, Restart, Given, Tracked
<1>3. Unpaused'
  <2>1. \A g \in Gids : aria'[g] \in {aria[g], "active", "unknown"}
    BY DEF Worker, Submit, Monitor, CountActive, FetchPending, SubmitDone, Hold, AddUriRefused,
           MarkActive, SubmitFailed, AddUri, AddUriLost, Started, FetchActive, MonitorDone,
           TellStatus, TellStatusLost, Settle, RequeueForgotten, FollowGid, StillRunning,
           DownloadFailed, Publish, PublishFails, Purge, MarkComplete, PollError, Restart, ariaVars,
           AriaTyped
  <2> QED BY <1>1, <2>1 DEF Tracked, Unpaused
<1>4. ActiveHasGid'
  <2>1. CASE UNCHANGED row
    BY <2>1 DEF Tracked, ActiveHasGid, HasStatus
  <2>2. ASSUME NEW j \in Jobs, MarkActive(j) PROVE ActiveHasGid'
    BY <2>2 DEF MarkActive, Tracked, Given, ActiveHasGid, HasStatus, RowsTyped
  <2>3. ASSUME NEW j \in Jobs, NEW g \in Gids, FollowGid(j, g) PROVE ActiveHasGid'
    BY <2>3 DEF FollowGid, Tracked, ActiveHasGid, HasStatus, RowsTyped, RowType
  <2>4. ASSUME NEW j \in Jobs, NEW g \in Gids,
               \/ SubmitFailed(j) \/ RequeueForgotten(j, g) \/ DownloadFailed(j, g)
               \/ PublishFails(j, g) \/ MarkComplete(j, g)
        PROVE  ActiveHasGid'
    <3>1. Requeue(j) \/ \E s \in {"paused", "complete", "failed"} : Set(j, s)
      BY <2>4 DEF SubmitFailed, RequeueForgotten, DownloadFailed, PublishFails, MarkComplete
    <3> QED BY <3>1, SetTracked DEF Tracked
  <2>5. \/ UNCHANGED row \/ \E j \in Jobs : MarkActive(j) \/ SubmitFailed(j)
        \/ \E j \in Jobs, g \in Gids :
              \/ FollowGid(j, g) \/ RequeueForgotten(j, g) \/ DownloadFailed(j, g)
              \/ PublishFails(j, g) \/ MarkComplete(j, g)
    BY DEF Worker, Submit, Monitor, CountActive, FetchPending, SubmitDone, Hold, AddUriRefused,
           AddUri, AddUriLost, FetchActive, MonitorDone, TellStatus, TellStatusLost, StillRunning,
           Publish, Purge, PollError, Restart
  <2>6. Gids = {} => UNCHANGED row \/ \E j \in Jobs : MarkActive(j) \/ SubmitFailed(j)
    BY <2>5
  <2>7. ASSUME NEW j \in Jobs, SubmitFailed(j) PROVE ActiveHasGid'
    BY <2>7, SetTracked DEF SubmitFailed, Tracked
  <2> QED BY <2>1, <2>2, <2>3, <2>4, <2>5, <2>7
<1> QED BY <1>2, <1>3, <1>4 DEF Tracked

LEMMA TrackedAdmin ==
    ASSUME ~({"pause", "resume"} \subseteq Ops), Parts, Tracked, Admin PROVE Tracked'
<1> USE DEF Parts, NotWorker
<1>0. UNCHANGED <<pc, newGid>>
  BY DEF Admin, Create, Retry, Delete, ReadRow, PauseCall, ResumeCall, WriteRow, RemoveCall,
         RemoveResult, CleanStaging, CallLost, workVars
<1>1. Given'
  BY <1>0 DEF Tracked, Given
<1>2. Unpaused'
  <2>1. ASSUME NEW j \in Jobs, Create(j) \/ Retry(j) PROVE Unpaused'
    BY <2>1 DEF Create, Retry, ariaVars, Tracked, Unpaused
  <2>2. ASSUME NEW j \in Jobs, Delete(j) PROVE Unpaused'
    BY <2>2 DEF Delete, Ask, ariaVars, Tracked, Unpaused
  <2>3. ASSUME NEW j \in Jobs, NEW op \in {"pause", "resume"}, ReadRow(op, j) PROVE Unpaused'
    <3>1. row[j].gid \in Gids \cup {None}
      BY DEF RowsTyped, RowType
    <3> QED BY <2>3, <3>1 DEF ReadRow, Ask, ariaVars, Tracked, Unpaused
  <2>4. ASSUME NEW o \in ops, PauseCall(o) PROVE Unpaused'
    BY <2>4 DEF PauseCall, Advance, Tracked, Unpaused, AskTyped, Request, AriaTyped
  <2>5. ASSUME NEW o \in ops, ResumeCall(o) PROVE Unpaused'
    <3>1. aria[o.gid] # "paused"
      BY <2>5 DEF ResumeCall, Tracked, Unpaused
    <3>2. UNCHANGED aria /\ Advance(o, "requeue", "write") /\ o \in Request
      BY <2>5, <3>1 DEF ResumeCall, AskTyped
    <3>3. [o EXCEPT !.op = "requeue", !.at = "write"].op = "requeue"
      BY <3>2 DEF Request
    <3> QED BY <3>2, <3>3 DEF Advance, Tracked, Unpaused
  <2>6. ASSUME NEW o \in ops, RemoveCall(o) \/ RemoveResult(o) PROVE Unpaused'
    BY <2>6 DEF RemoveCall, RemoveResult, Advance, Tracked, Unpaused, AskTyped, Request, AriaTyped
  <2>7. ASSUME NEW o \in ops, CallLost(o) PROVE Unpaused'
    <3>1. o \in Request /\ UNCHANGED aria
      BY <2>7 DEF CallLost, AskTyped, ariaVars
    <3>2. \/ Advance(o, "requeue", "write")
          \/ o.op # "resume" /\ \E a \in {"write", "purge", "clean"} : Advance(o, o.op, a)
      BY <2>7 DEF CallLost
    <3>3. CASE Advance(o, "requeue", "write")
      <4>1. [o EXCEPT !.op = "requeue", !.at = "write"].op = "requeue"
        BY <3>1 DEF Request
      <4> QED BY <3>1, <3>3, <4>1 DEF Advance, Tracked, Unpaused
    <3>4. ASSUME o.op # "resume", NEW a, Advance(o, o.op, a) PROVE Unpaused'
      <4>1. [o EXCEPT !.op = o.op, !.at = a].op = o.op
        BY <3>1 DEF Request
      <4> QED BY <3>1, <3>4, <4>1 DEF Advance, Tracked, Unpaused
    <3> QED BY <3>2, <3>3, <3>4
  <2>8. ASSUME NEW o \in ops, WriteRow(o) \/ CleanStaging(o) PROVE Unpaused'
    BY <2>8 DEF WriteRow, CleanStaging, ariaVars, Tracked, Unpaused
  <2> QED BY <2>1, <2>2, <2>3, <2>4, <2>5, <2>6, <2>7, <2>8 DEF Admin
<1>3. ActiveHasGid'
  <2>1. CASE UNCHANGED row
    BY <2>1 DEF Tracked, ActiveHasGid, HasStatus
  <2>2. ASSUME NEW j \in Jobs, Create(j) \/ Delete(j) PROVE ActiveHasGid'
    BY <2>2 DEF Create, Delete, NoRow, Tracked, ActiveHasGid, HasStatus, RowsTyped, RowType
  <2>3. ASSUME NEW j \in Jobs, Retry(j) PROVE ActiveHasGid'
    BY <2>3, SetTracked DEF Retry, Tracked
  <2>4. ASSUME NEW o \in ops, WriteRow(o) PROVE ActiveHasGid'
    <3>1. o.job \in Jobs /\ o.op # "resume"
      BY <2>4 DEF WriteRow, AskTyped, Request, Tracked, Unpaused
    <3>2. Requeue(o.job) \/ Set(o.job, "paused")
      BY <2>4, <3>1 DEF WriteRow
    <3> QED BY <3>1, <3>2, SetTracked DEF Tracked
  <2>5. \/ UNCHANGED row \/ \E j \in Jobs : Create(j) \/ Delete(j) \/ Retry(j)
        \/ \E o \in ops : WriteRow(o)
    BY DEF Admin, ReadRow, PauseCall, ResumeCall, RemoveCall, RemoveResult, CleanStaging, CallLost
  <2> QED BY <2>1, <2>2, <2>3, <2>4, <2>5
<1> QED BY <1>1, <1>2, <1>3 DEF Tracked

LEMMA TrackedAria == ASSUME Parts, Tracked, Aria PROVE Tracked'
<1> USE DEF Parts, NotOurs
<1>1. UNCHANGED <<row, ops, pc, newGid>>
  BY DEF Aria, DataDone, MetaDone, DownloadError, Forget, RoomGone, RoomBack, workVars
<1>2. \A g \in Gids : aria'[g] \in {aria[g], "active", "complete", "error", "unknown"}
  BY DEF Aria, DataDone, MetaDone, DownloadError, Forget, RoomGone, RoomBack, ariaVars, AriaTyped
<1> QED BY <1>1, <1>2 DEF Tracked, ActiveHasGid, HasStatus, Given, Unpaused

\* An active row was handed to aria2 and has a gid, over any faults, deletions and retries, in
\* an installation whose admins do not both pause and resume: mark_active writes the status and
\* the gid together, and requeue takes both away.
THEOREM ActiveIsTracked ==
    ASSUME ~({"pause", "resume"} \subseteq Ops) PROVE Spec => []ActiveHasGid
<1>1. Init => Tracked
  BY DEF Init, Tracked, ActiveHasGid, HasStatus, Given, Unpaused, NoRow
<1>2. Parts /\ Tracked /\ [Next]_vars => Tracked'
  <2>1. Tracked /\ UNCHANGED vars => Tracked'
    BY DEF vars, ariaVars, workVars, Tracked, ActiveHasGid, HasStatus, Given, Unpaused
  <2> QED BY <2>1, TrackedWorker, TrackedAdmin, TrackedAria DEF Next
<1>3. Spec => []Parts
  BY Typed, InParts, PTL
<1>4. Tracked => ActiveHasGid
  BY DEF Tracked
<1> QED BY <1>1, <1>2, <1>3, <1>4, PTL DEF Spec

-----------------------------------------------------------------------------
(* One writer, and one publication, while every reply of aria2 arrives.    *)

\* No request but a pause or a deletion is under way.  A deletion's row is gone; the gid it
\* removes was that row's, and no submission of that row is under way.
OpsHold ==
    \A o \in ops :
        /\ o.op \in {"pause", "delete"}
        /\ o.op = "delete" =>
              /\ row[o.job].status = "none"
              /\ o.gid # None => owner[o.gid] = o.job /\ o.job \notin todo

\* What the poll fetched, in the phase that uses it: a row to submit has no gid, a row to
\* look at is still tied to the gid it was fetched with.
PollHolds ==
    /\ pc \notin {"submit", "mark", "fail"} => todo = {}
    /\ pc \notin {"monitor", "apply", "purge", "finish"} => watch = {}
    /\ \A j \in todo : row[j].status \in {"pending", "paused", "none"} /\ row[j].gid = None
    /\ \A j \in Jobs, g \in Gids : <<j, g>> \in watch =>
          /\ row[j].status \in {"active", "paused", "none"}
          /\ row[j].status # "none" => row[j].gid = g
          /\ owner[g] = j
          /\ \A h \in Gids : <<j, h>> \in watch => h = g

\* aria2's gids: a row's gid was given for it, a waiting row has none, and a hand-off keeps
\* the job.  Of a gid that was not given, aria2 knows nothing.
GidsHold ==
    /\ \A j \in Jobs : row[j].status \in {"new", "pending"} => row[j].gid = None
    /\ \A j \in Jobs : Exists(j) /\ row[j].gid # None => owner[row[j].gid] = j
    /\ \A g \in Gids : follows[g] # None =>
          aria[g] # "active" /\ owner[g] # None /\ owner[follows[g]] = owner[g]
    /\ \A g \in Gids : owner[g] = None => aria[g] = "unknown"

\* What a reply says of a download that has ended stays true while it is acted upon.
ReplyHolds ==
    \A j \in Jobs, g \in Gids : Watched(j, g) =>
        /\ pc = "apply" /\ reply \notin {"active", "paused"} => aria[g] # "active"
        /\ pc = "apply" /\ reply = "unknown" => aria[g] = "unknown"
        /\ pc \in {"purge", "finish"} => aria[g] # "active" /\ follows[g] = None

\* The one download of a job that may run is g, or the one that g has handed over to.
Current(j, g) ==
    \A h \in Running(j) : h = g \/ (h = follows[g] /\ aria[g] = "complete")

\* No two downloads of a job run; none before its row is submitted, and afterwards only the
\* row's own.
WritersHold ==
    /\ \A j \in Jobs : \A g, h \in Running(j) : g = h
    /\ \A j \in Jobs : /\ row[j].status \in {"new", "pending"} \/ j \in todo
                       /\ ~(pc = "mark" /\ First(j))
                       => Running(j) = {}
    /\ \A j \in Jobs : Exists(j) /\ row[j].gid # None => Current(j, row[j].gid)
    /\ \A j \in Jobs : pc = "mark" /\ First(j) =>
          newGid \in Gids /\ owner[newGid] = j /\ Current(j, newGid)

\* A payload that was moved is not moved again: no poll looks at its row any more, but for
\* the one that is about to write `complete`.
PublishHolds ==
    \A j \in Jobs : published[j] # 0 =>
        /\ published[j] = 1 /\ j \notin todo
        /\ \/ pc \in {"purge", "finish"} /\ \E g \in Gids : Watched(j, g)
           \/ /\ row[j].status \in {"none", "paused", "complete"}
              /\ \A g \in Gids : <<j, g>> \notin watch

Writers == OpsHold /\ PollHolds /\ GidsHold /\ ReplyHolds /\ WritersHold /\ PublishHolds

\* Replies and writes arrive, the worker lives, and nobody resumes or retries: aria2 may
\* restart, roots may fill up, and downloads may fail.
Calm == Ops \subseteq {"pause", "delete"} /\ Faults \subseteq {"forget", "full"}

\* What the poll does then.
Books(j, g) == \/ CountActive \/ FetchPending \/ SubmitDone \/ Hold(j) \/ AddUriRefused(j)
               \/ FetchActive \/ MonitorDone \/ TellStatus(j, g) \/ StillRunning(j, g)
Fails(j, g) == SubmitFailed(j) \/ DownloadFailed(j, g) \/ PublishFails(j, g)
RowStep(j, g) == \/ MarkActive(j) \/ RequeueForgotten(j, g) \/ FollowGid(j, g)
                 \/ MarkComplete(j, g) \/ Fails(j, g)

LEMMA NoFault == ASSUME Calm PROVE ~Fault("rpc") /\ ~Fault("db") /\ ~Fault("restart")
  BY DEF Calm, Fault

\* Steps of the poll that name no row have none: j and g are any.
PollStep(j, g) == Books(j, g) \/ RowStep(j, g) \/ AddUri(j, g) \/ Publish(j, g) \/ Purge(j, g)

LEMMA PollSteps ==
    ASSUME Calm, Worker \/ Restart
    PROVE  \/ \E j \in Jobs, g \in Gids \cup {None} : PollStep(j, g)
           \/ CountActive \/ FetchPending \/ SubmitDone \/ FetchActive \/ MonitorDone
<1>1. ASSUME NEW j \in Jobs, Hold(j) \/ AddUriRefused(j) \/ MarkActive(j) \/ SubmitFailed(j)
      PROVE  PollStep(j, None)
  BY <1>1 DEF PollStep, Books, RowStep, Fails
<1> QED BY <1>1, NoFault DEF Worker, Submit, Monitor, AddUriLost, TellStatusLost, PollError, Restart,
                             PollStep, Books, RowStep, Fails

\* The writes of one row, seen from every row.
LEMMA SetRow ==
    ASSUME RowsTyped, NEW j \in Jobs, NEW s, Set(j, s)
    PROVE  /\ \A i \in Jobs : i # j => row'[i] = row[i]
           /\ row'[j].gid = row[j].gid
           /\ row'[j].status = IF Exists(j) THEN s ELSE row[j].status
  BY DEF RowsTyped, RowType, Set

LEMMA RequeueRow ==
    ASSUME RowsTyped, NEW j \in Jobs, Requeue(j)
    PROVE  /\ \A i \in Jobs : i # j => row'[i] = row[i]
           /\ row'[j].gid = IF Exists(j) THEN None ELSE row[j].gid
           /\ row'[j].status = IF Exists(j) THEN "pending" ELSE row[j].status
<1>1. CASE ~Exists(j)
  BY <1>1 DEF Requeue
<1>2. CASE Exists(j)
  <2>1. row' = [row EXCEPT ![j] = [row[j] EXCEPT !.status = "pending", !.gid = None]]
    BY <1>2 DEF Requeue, RowsTyped
  <2>2. row[j] \in RowType
    BY DEF RowsTyped
  <2> QED BY <1>2, <2>1, <2>2 DEF RowsTyped, RowType
<1> QED BY <1>1, <1>2

\* The first of the rows to submit, and the row being looked at, are unique.
LEMMA OneFirst == ASSUME Parts, NEW i \in Jobs, NEW j \in Jobs, First(i), First(j) PROVE i = j
  BY DEF Parts, First

LEMMA OneWatched ==
    ASSUME Parts, NEW i \in Jobs, NEW j \in Jobs, NEW g \in Gids, NEW h \in Gids,
           Watched(i, g), Watched(j, h)
    PROVE  i = j
  BY DEF Parts, Watched

\* What one write of the poll does to the rows: the others stay, and the written one is
\* marked, requeued, moved on to the gid its metadata handed over to, or just set.
Marked(j, g) == row'[j].gid = newGid /\ row'[j].status = "active" /\ MarkActive(j)
Requeued(j, g) == row'[j].gid = None /\ row'[j].status = "pending" /\ RequeueForgotten(j, g)
Followed(j, g) == row'[j].gid = follows[g] /\ row'[j].status = row[j].status /\ FollowGid(j, g)
WasSet(j, g) == /\ row'[j].gid = row[j].gid
                /\ \/ row'[j].status = "failed" /\ Fails(j, g)
                   \/ row'[j].status = "complete" /\ MarkComplete(j, g)

LEMMA RowSteps ==
    ASSUME Parts, NEW j \in Jobs, NEW g \in Gids \cup {None}, RowStep(j, g)
    PROVE  /\ \A i \in Jobs : i # j => row'[i] = row[i]
           /\ IF Exists(j) THEN Marked(j, g) \/ Requeued(j, g) \/ Followed(j, g) \/ WasSet(j, g)
              ELSE row'[j] = row[j]
           /\ UNCHANGED <<ariaVars, published, ops, newGid, reply>>
<1> USE DEF Parts
<1>1. CASE MarkActive(j)
  BY <1>1 DEF MarkActive, Marked, RowsTyped, RowType, Goto
<1>2. CASE RequeueForgotten(j, g)
  BY <1>2, RequeueRow DEF RequeueForgotten, Requeued, Settle, Goto, Requeue
<1>3. CASE FollowGid(j, g)
  BY <1>3 DEF FollowGid, Followed, Settle, Goto, RowsTyped, RowType
<1>4. CASE MarkComplete(j, g)
  BY <1>4, SetRow DEF MarkComplete, WasSet, Settle, Goto, Set
<1>5. CASE Fails(j, g)
  BY <1>5, SetRow DEF Fails, SubmitFailed, DownloadFailed, PublishFails, WasSet, Settle, Goto, Set
<1> QED BY <1>1, <1>2, <1>3, <1>4, <1>5 DEF RowStep

\* What any step leaves of a row that is gone, of a gid that was given, of a download that
\* has ended, and of the rows to submit.
Lasting ==
    /\ \A j \in Jobs : row[j].status = "none" => row'[j].status = "none"
    /\ \A g \in Gids : /\ owner[g] # None => owner'[g] = owner[g]
                       /\ owner[g] # None /\ aria[g] # "active" => aria'[g] # "active"
                       /\ aria[g] = "unknown" =>
                              aria'[g] = "unknown" \/ (owner[g] = None /\ owner'[g] # None)
                       /\ aria[g] # "active" => follows'[g] = follows[g]
    /\ \A j \in todo' : j \in todo \/ row[j].status = "pending"

LEMMA PollLasts == ASSUME Calm, Parts, Worker \/ Restart PROVE Lasting /\ UNCHANGED ops
<1> USE DEF Parts, Goto
<1>1. ASSUME NEW j, NEW g,
             Books(j, g)
      PROVE  Lasting /\ UNCHANGED ops
  BY <1>1 DEF Books, CountActive, FetchPending, SubmitDone, Hold, AddUriRefused, FetchActive,
         MonitorDone, TellStatus, StillRunning, Settle, Lasting, ariaVars, Oldest, HasStatus
<1>2. ASSUME NEW j \in Jobs, NEW g \in Gids \cup {None}, RowStep(j, g)
      PROVE  Lasting /\ UNCHANGED ops
  <2>1. todo' \subseteq todo
    BY <1>2 DEF RowStep, Fails, MarkActive, RequeueForgotten, FollowGid, MarkComplete, SubmitFailed,
           DownloadFailed, PublishFails, Settle
  <2>2. \A i \in Jobs : row[i].status = "none" => row'[i].status = "none"
    BY <1>2, RowSteps DEF Exists
  <2> QED BY <1>2, <2>1, <2>2, RowSteps DEF Lasting, ariaVars
<1>3. ASSUME NEW j \in Jobs, NEW g, AddUri(j, g) PROVE Lasting /\ UNCHANGED ops
  BY <1>3 DEF AddUri, Started, NewGid, Fresh, Lasting, AriaTyped
<1>4. ASSUME NEW j, NEW g, Publish(j, g) PROVE Lasting /\ UNCHANGED ops
  BY <1>4 DEF Publish, Lasting, ariaVars
<1>5. ASSUME NEW j, NEW g, Purge(j, g) PROVE Lasting /\ UNCHANGED ops
  BY <1>5 DEF Purge, Lasting, AriaTyped
<1> QED BY <1>1, <1>2, <1>3, <1>4, <1>5, PollSteps DEF PollStep, Books

LEMMA AriaLasts == ASSUME Parts, Aria PROVE Lasting /\ UNCHANGED <<row, workVars, published, ops>>
<1> USE DEF Parts, NotOurs
<1>1. UNCHANGED <<row, workVars, published, ops>>
  BY DEF Aria, DataDone, MetaDone, DownloadError, Forget, RoomGone, RoomBack
<1>2. ASSUME NEW g \in Gids, NEW h \in Gids, MetaDone(g, h) PROVE Lasting
  <2>1. owner[g] # None /\ owner[h] = None /\ aria[g] = "active"
    BY <1>2 DEF MetaDone, IsMeta, NewGid, Fresh
  <2> QED BY <1>1, <1>2, <2>1 DEF MetaDone, Lasting, AriaTyped, workVars
<1>3. ASSUME NEW g \in Gids, DataDone(g) \/ DownloadError(g) PROVE Lasting
  BY <1>1, <1>3 DEF DataDone, DownloadError, Lasting, AriaTyped, workVars
<1>4. CASE Forget \/ RoomGone \/ RoomBack
  BY <1>1, <1>4 DEF Forget, RoomGone, RoomBack, Lasting, ariaVars, workVars
<1> QED BY <1>1, <1>2, <1>3, <1>4 DEF Aria

\* The requests: none but pauses and deletions.
AdminStep == \/ \E j \in Jobs : Create(j) \/ Delete(j) \/ ReadRow("pause", j)
             \/ \E o \in ops : \/ PauseCall(o) \/ RemoveCall(o) \/ RemoveResult(o)
                               \/ CleanStaging(o)
                               \/ o.op = "pause" /\ WriteRow(o)

LEMMA AdminSteps ==
    ASSUME Calm, Parts, OpsHold, Admin
    PROVE  AdminStep /\ UNCHANGED <<workVars, published, owner, follows>>
<1>1. AdminStep
  BY NoFault DEF Admin, AdminStep, Calm, OpsHold, Retry, ReadRow, ResumeCall, CallLost, WriteRow
<1>2. UNCHANGED <<workVars, published, owner, follows>>
  BY <1>1 DEF AdminStep, NotWorker, Create, Delete, ReadRow, PauseCall, RemoveCall, RemoveResult,
              CleanStaging, WriteRow, ariaVars
<1> QED BY <1>1, <1>2

\* What a request does to a row: it enters the queue, is paused, or goes.
LEMMA AdminRows ==
    ASSUME Parts, AdminStep, NEW j \in Jobs
    PROVE  \/ row'[j] = row[j]
           \/ row[j].status = "new" /\ row'[j].status = "pending" /\ row'[j].gid = row[j].gid
           \/ Exists(j) /\ row'[j].status = "paused" /\ row'[j].gid = row[j].gid
           \/ row'[j].status = "none" /\ row'[j].gid = None
<1> USE DEF Parts, RowsTyped, RowType
<1>1. ASSUME NEW i \in Jobs, Create(i) \/ Delete(i) \/ ReadRow("pause", i)
      PROVE  \/ row'[j] = row[j]
             \/ row[j].status = "new" /\ row'[j].status = "pending" /\ row'[j].gid = row[j].gid
             \/ row'[j].status = "none" /\ row'[j].gid = None
  BY <1>1 DEF Create, Delete, ReadRow, NoRow
<1>2. ASSUME NEW o \in ops, o.op = "pause", WriteRow(o)
      PROVE  \/ row'[j] = row[j]
             \/ Exists(j) /\ row'[j].status = "paused" /\ row'[j].gid = row[j].gid
  <2>1. o.job \in Jobs /\ Set(o.job, "paused")
    BY <1>2 DEF WriteRow, AskTyped, Request
  <2> QED BY <2>1, SetRow DEF Set
<1>3. ASSUME NEW o \in ops, PauseCall(o) \/ RemoveCall(o) \/ RemoveResult(o) \/ CleanStaging(o)
      PROVE  row'[j] = row[j]
  BY <1>3 DEF PauseCall, RemoveCall, RemoveResult, CleanStaging
<1> QED BY <1>1, <1>2, <1>3 DEF AdminStep

\* What a request does to a download: it is paused, removed or forgotten.
LEMMA AdminAria ==
    ASSUME Parts, AdminStep, NEW g \in Gids
    PROVE  /\ aria'[g] # "active" \/ aria'[g] = aria[g]
           /\ aria[g] = "unknown" => aria'[g] = "unknown"
  BY DEF Parts, AriaTyped, AskTyped, Request, AdminStep, Create, Delete, ReadRow, WriteRow, PauseCall,
         RemoveCall, RemoveResult, CleanStaging, ariaVars

LEMMA AdminLasts == ASSUME Calm, Parts, OpsHold, Admin PROVE Lasting
<1>1. UNCHANGED <<owner, follows, todo>>
  BY AdminSteps DEF workVars
<1>2. \A j \in Jobs : row[j].status = "none" => row'[j].status = "none"
  BY AdminSteps, AdminRows DEF Exists
<1>3. \A g \in Gids : /\ aria[g] # "active" => aria'[g] # "active"
                      /\ aria[g] = "unknown" => aria'[g] = "unknown"
  BY AdminSteps, AdminAria
<1> QED BY <1>1, <1>2, <1>3 DEF Lasting

\* One request is as OpsHold says.
OpHolds(o) ==
    /\ o.op \in {"pause", "delete"}
    /\ o.op = "delete" =>
          /\ row[o.job].status = "none"
          /\ o.gid # None => owner[o.gid] = o.job /\ o.job \notin todo

\* Requests stay what OpsHold says, whoever steps.
LEMMA KeptOp ==
    ASSUME Parts, Lasting, NEW o \in Request, OpHolds(o)
    PROVE  OpHolds(o)'
<1>1. o.job \in Jobs /\ o.gid \in Gids \cup {None} /\ None \notin Jobs
  BY GidsAssumption DEF Request
<1>2. ASSUME o.op = "delete" PROVE row'[o.job].status = "none"
  BY <1>1, <1>2 DEF OpHolds, Lasting
<1>3. ASSUME o.op = "delete", o.gid # None PROVE owner'[o.gid] = o.job
  BY <1>1, <1>3 DEF OpHolds, Lasting
<1>4. ASSUME o.op = "delete", o.gid # None PROVE o.job \notin todo'
  BY <1>1, <1>4 DEF OpHolds, Lasting
<1> QED BY <1>2, <1>3, <1>4 DEF OpHolds

LEMMA OpsAdmin == ASSUME Calm, Parts, OpsHold, PollHolds, GidsHold, Admin PROVE OpsHold'
<1> USE DEF Parts
<1>1. Lasting /\ AdminStep /\ UNCHANGED <<todo, owner>>
  BY AdminLasts, AdminSteps DEF workVars
<1>2. \A o \in ops : o \in Request /\ OpHolds(o) /\ OpHolds(o)'
  BY <1>1, KeptOp DEF OpsHold, OpHolds, AskTyped
<1>3. ASSUME NEW p \in ops', p \notin ops PROVE OpHolds(p)'
  <2>1. ASSUME NEW j \in Jobs, Delete(j) PROVE OpHolds(p)'
    <3>1. Exists(j) /\ row'[j].status = "none"
      BY <2>1 DEF Delete, RowsTyped, NoRow
    <3>2. p.op = "delete" /\ p.job = j /\ (p.gid = row[j].gid \/ p.gid = None)
      BY <1>3, <2>1 DEF Delete, Ask
    <3>3. row[j].gid # None => owner[row[j].gid] = j /\ j \notin todo
      BY <3>1 DEF GidsHold, PollHolds
    <3> QED BY <1>1, <3>1, <3>2, <3>3 DEF OpHolds
  <2>2. ASSUME NEW j \in Jobs, ReadRow("pause", j) PROVE OpHolds(p)'
    BY <1>3, <2>2 DEF ReadRow, Ask, OpHolds
  <2>3. ASSUME NEW o \in ops, PauseCall(o) \/ RemoveCall(o) \/ RemoveResult(o) PROVE OpHolds(p)'
    <3>1. \E a \in {"write", "purge", "clean"} : p = [o EXCEPT !.op = o.op, !.at = a]
      BY <1>3, <2>3 DEF PauseCall, RemoveCall, RemoveResult, Advance
    <3>2. p.op = o.op /\ p.job = o.job /\ p.gid = o.gid
      BY <1>2, <3>1 DEF Request
    <3> QED BY <1>2, <3>2 DEF OpHolds
  <2> QED
    BY <1>1, <1>3, <2>1, <2>2, <2>3 DEF AdminStep, Create, CleanStaging, WriteRow
<1> QED BY <1>2, <1>3 DEF OpsHold, OpHolds

LEMMA OpsNext == ASSUME Calm, Parts, OpsHold, PollHolds, GidsHold, Next PROVE OpsHold'
<1>1. CASE UNCHANGED ops /\ Lasting
  BY <1>1, KeptOp DEF Parts, AskTyped, OpsHold, OpHolds
<1> QED BY <1>1, OpsAdmin, PollLasts, AriaLasts DEF Next

-----------------------------------------------------------------------------
(* The poll's own state.                                                   *)

\* A row that the poll has fetched is in the watch list with the gid it still has.
InWatch(j, g) ==
    /\ row[j].status \in {"active", "paused", "none"}
    /\ row[j].status # "none" => row[j].gid = g
    /\ owner[g] = j
    /\ \A h \in Gids : <<j, h>> \in watch => h = g

LEMMA WatchHolds ==
    PollHolds <=> /\ pc \notin {"submit", "mark", "fail"} => todo = {}
                  /\ pc \notin {"monitor", "apply", "purge", "finish"} => watch = {}
                  /\ \A j \in todo : row[j].status \in {"pending", "paused", "none"} /\ row[j].gid = None
                  /\ \A j \in Jobs, g \in Gids : <<j, g>> \in watch => InWatch(j, g)
  BY DEF PollHolds, InWatch

LEMMA PollBooks ==
    ASSUME Parts, PollHolds, GidsHold, NEW j, NEW g, Books(j, g) PROVE PollHolds'
<1> USE DEF Parts, Goto
<1>1. CASE FetchActive
  <2>1. \A i \in Jobs, h \in Gids : <<i, h>> \in watch' =>
           row[i].status = "active" /\ row[i].gid = h /\ h # None
    BY <1>1 DEF FetchActive, HasStatus
  <2>2. ASSUME NEW i \in Jobs, NEW h \in Gids, <<i, h>> \in watch' PROVE owner[h] = i
    <3>1. row[i].status = "active" /\ row[i].gid = h /\ h # None
      BY <2>1, <2>2
    <3>2. Exists(i)
      BY <3>1 DEF Exists
    <3>3. Exists(i) /\ row[i].gid # None => owner[row[i].gid] = i
      BY DEF GidsHold
    <3> QED BY <3>1, <3>2, <3>3, SMTT(30)
  <2>3. UNCHANGED <<row, owner, todo>> /\ pc' = "monitor" /\ todo = {}
    BY <1>1 DEF FetchActive, PollHolds, ariaVars
  <2>4. \A i \in Jobs, h \in Gids : <<i, h>> \in watch' => InWatch(i, h)'
    BY <2>1, <2>2, <2>3 DEF InWatch
  <2> QED BY <2>3, <2>4 DEF PollHolds, InWatch
<1>2. CASE FetchPending
  <2>1. \A i \in todo' : row[i].status = "pending" /\ row[i].gid = None
    BY <1>2 DEF FetchPending, Oldest, HasStatus, GidsHold
  <2> QED BY <1>2, <2>1 DEF FetchPending, PollHolds, ariaVars
<1>3. CASE \/ CountActive \/ SubmitDone \/ Hold(j) \/ AddUriRefused(j) \/ MonitorDone
           \/ TellStatus(j, g)
  BY <1>3 DEF CountActive, SubmitDone, Hold, AddUriRefused, MonitorDone, TellStatus, PollHolds, ariaVars
<1>4. CASE StillRunning(j, g)
  BY <1>4 DEF StillRunning, Settle, PollHolds, ariaVars
<1> QED BY <1>1, <1>2, <1>3, <1>4 DEF Books

LEMMA PollRows ==
    ASSUME Parts, PollHolds, NEW j \in Jobs, NEW g \in Gids \cup {None}, RowStep(j, g)
    PROVE  PollHolds'
<1> USE DEF Parts, Goto
<1>1. /\ \A i \in Jobs : i # j => row'[i] = row[i]
      /\ row[j].status = "none" => row'[j] = row[j]
      /\ UNCHANGED owner
  BY RowSteps DEF ariaVars, Exists
<1>2. CASE \/ MarkActive(j) \/ SubmitFailed(j)
  <2>1. pc' = "submit" /\ watch = {} /\ watch' = {} /\ todo' = todo \ {j}
    BY <1>2 DEF MarkActive, SubmitFailed, PollHolds
  <2> QED BY <1>1, <2>1 DEF PollHolds, WorkTyped
<1>3. ASSUME NEW from, from \in {"apply", "finish"}, Settle(j, g, from)
      PROVE  PollHolds'
  <2>1. pc' = "monitor" /\ todo = {} /\ todo' = {} /\ watch' = watch \ {<<j, g>>} /\ <<j, g>> \in watch
    BY <1>3 DEF Settle, PollHolds, Watched
  <2>2. g \in Gids
    BY <2>1 DEF WorkTyped
  <2>3. \A h \in Gids : <<j, h>> \notin watch'
    BY <2>1, <2>2 DEF PollHolds
  <2>4. \A i \in Jobs, h \in Gids : <<i, h>> \in watch' => i # j /\ InWatch(i, h)
    BY <2>1, <2>3 DEF PollHolds, InWatch
  <2>5. \A i \in Jobs, h \in Gids : <<i, h>> \in watch' => InWatch(i, h)'
    <3>1. ASSUME NEW i \in Jobs, NEW h \in Gids, <<i, h>> \in watch' PROVE InWatch(i, h)'
      <4>1. i # j /\ InWatch(i, h) /\ row'[i] = row[i]
        BY <1>1, <2>4, <3>1
      <4> QED BY <1>1, <2>1, <4>1 DEF InWatch
    <3> QED BY <3>1
  <2> QED BY <2>1, <2>5 DEF PollHolds, InWatch
<1> QED BY <1>2, <1>3 DEF RowStep, Fails, RequeueForgotten, FollowGid, MarkComplete, DownloadFailed,
                          PublishFails

LEMMA PollOthers ==
    ASSUME Parts, PollHolds, NEW j \in Jobs, NEW g, AddUri(j, g) \/ Publish(j, g) \/ Purge(j, g)
    PROVE  PollHolds'
<1> USE DEF Parts, Goto
<1>1. CASE AddUri(j, g)
  BY <1>1 DEF AddUri, PollHolds
<1>2. CASE Publish(j, g) \/ Purge(j, g)
  <2>1. /\ UNCHANGED <<row, owner, todo, watch>> /\ todo = {}
        /\ pc' \in {"purge", "finish"} /\ pc \in {"apply", "purge"}
    BY <1>2 DEF Publish, Purge, PollHolds, ariaVars
  <2> QED BY <2>1 DEF PollHolds
<1> QED BY <1>1, <1>2

LEMMA PollNext ==
    ASSUME Calm, Parts, OpsHold, PollHolds, GidsHold, Next PROVE PollHolds'
<1> USE DEF Parts
<1>1. CASE Worker \/ Restart
  BY <1>1, PollSteps, PollBooks, PollRows, PollOthers DEF PollStep, Books
<1>2. CASE Aria
  <2>1. Lasting /\ UNCHANGED <<row, pc, todo, watch>>
    BY <1>2, AriaLasts DEF workVars
  <2>2. ASSUME NEW i \in Jobs, NEW h \in Gids, <<i, h>> \in watch PROVE InWatch(i, h)'
    <3>1. InWatch(i, h)
      BY <2>2, WatchHolds
    <3>2. owner'[h] = owner[h]
      BY <2>1, <3>1, GidsAssumption DEF InWatch, Lasting
    <3> QED BY <2>1, <3>1, <3>2 DEF InWatch
  <2> QED BY <2>1, <2>2 DEF PollHolds, InWatch
<1>3. CASE Admin
  <2>1. AdminStep /\ UNCHANGED <<pc, todo, watch, owner>>
    BY <1>3, AdminSteps DEF workVars
  <2>2. \A i \in Jobs :
           \/ row'[i] = row[i]
           \/ row[i].status = "new"
           \/ row[i].status # "none" /\ row'[i].status = "paused" /\ row'[i].gid = row[i].gid
           \/ row'[i].status = "none" /\ row'[i].gid = None
    BY <2>1, AdminRows DEF Exists
  <2>3. \A i \in todo : row'[i].status \in {"pending", "paused", "none"} /\ row'[i].gid = None
    BY <2>2 DEF PollHolds, WorkTyped
  <2>4. \A i \in Jobs, h \in Gids : <<i, h>> \in watch => InWatch(i, h)'
    BY <2>1, <2>2 DEF PollHolds, InWatch
  <2> QED BY <2>1, <2>3, <2>4 DEF PollHolds, InWatch
<1> QED BY <1>1, <1>2, <1>3 DEF Next

-----------------------------------------------------------------------------
(* The gids of aria2.                                                      *)

\* A gid that has handed over has ended, and the data has the job of its metadata.
HandOff == \A g \in Gids : follows[g] # None =>
               aria[g] # "active" /\ owner[g] # None /\ owner[follows[g]] = owner[g]

\* A step starts no download but a fresh one: a submitted row's, or a magnet's data.
Starts(g) == \/ aria'[g] # "active" \/ aria[g] = "active"
             \/ \E j \in Jobs : AddUri(j, g)
             \/ \E m \in Gids : MetaDone(m, g)

LEMMA Restarts ==
    ASSUME Calm, Parts, OpsHold, Next, NEW g \in Gids PROVE Starts(g)
<1> USE DEF Parts
<1>1. CASE Worker \/ Restart
  <2>1. ASSUME NEW j \in Jobs, NEW h \in Gids \cup {None}, PollStep(j, h) PROVE Starts(g)
    <3>1. CASE RowStep(j, h)
      BY <3>1, RowSteps DEF Starts, ariaVars
    <3>2. CASE Books(j, h)
      BY <3>2 DEF Starts, ariaVars, Books, CountActive, FetchPending, SubmitDone, Hold, AddUriRefused,
                  FetchActive, MonitorDone, TellStatus, StillRunning, Settle
    <3>3. CASE AddUri(j, h)
      BY <3>3 DEF Starts, AddUri, Started, AriaTyped
    <3>4. CASE Publish(j, h) \/ Purge(j, h)
      BY <3>4 DEF Starts, Publish, Purge, AriaTyped, ariaVars
    <3> QED BY <2>1, <3>1, <3>2, <3>3, <3>4 DEF PollStep
  <2>2. CASE CountActive \/ FetchPending \/ SubmitDone \/ FetchActive \/ MonitorDone
    BY <2>2 DEF CountActive, FetchPending, SubmitDone, FetchActive, MonitorDone, ariaVars, Starts
  <2> QED BY <1>1, <2>1, <2>2, PollSteps
<1>2. CASE Admin
  BY <1>2, AdminSteps, AdminAria DEF Starts
<1>3. CASE Aria
  BY <1>3 DEF Aria, DataDone, MetaDone, DownloadError, Forget, RoomGone, RoomBack, Starts, AriaTyped,
              ariaVars
<1> QED BY <1>1, <1>2, <1>3 DEF Next

LEMMA HandOffNext == ASSUME Calm, Parts, OpsHold, HandOff, Next PROVE HandOff'
<1> USE DEF Parts
<1>1. Lasting
  BY PollLasts, AriaLasts, AdminLasts DEF Next
<1>2. \A g \in Gids : follows'[g] # follows[g] => \E h \in Gids : MetaDone(g, h)
  <2>1. CASE Worker \/ Restart
    <3>1. ASSUME NEW j \in Jobs, NEW h \in Gids \cup {None}, PollStep(j, h) PROVE UNCHANGED follows
      BY <3>1, RowSteps DEF PollStep, ariaVars, Books, CountActive, FetchPending, SubmitDone, Hold,
             AddUriRefused, FetchActive, MonitorDone, TellStatus, StillRunning, Settle, AddUri,
             Started, Publish, Purge
    <3>2. UNCHANGED follows
      BY <2>1, <3>1, PollSteps DEF CountActive, FetchPending, SubmitDone, FetchActive, MonitorDone,
                                   ariaVars
    <3> QED BY <3>2
  <2>2. CASE Admin
    BY <2>2, AdminSteps
  <2>3. CASE Aria
    BY <2>3 DEF Aria, DataDone, MetaDone, DownloadError, Forget, RoomGone, RoomBack, AriaTyped, ariaVars
  <2> QED BY <2>1, <2>2, <2>3 DEF Next
<1>3. ASSUME NEW g \in Gids, follows'[g] # None
      PROVE  aria'[g] # "active" /\ owner'[g] # None /\ owner'[follows'[g]] = owner'[g]
  <2>1. CASE follows'[g] # follows[g]
    <3>1. PICK h \in Gids : MetaDone(g, h)
      BY <1>2, <2>1
    <3>2. g # h /\ owner[g] # None
      BY <3>1 DEF MetaDone, IsMeta, NewGid, Fresh
    <3>3. /\ aria'[g] = "complete" /\ follows'[g] = h
          /\ owner'[g] = owner[g] /\ owner'[h] = owner[g]
      BY <3>1, <3>2 DEF MetaDone, AriaTyped
    <3> QED BY <3>2, <3>3
  <2>2. CASE follows'[g] = follows[g]
    <3>1. follows[g] \in Gids /\ aria[g] # "active" /\ owner[g] # None /\ owner[follows[g]] = owner[g]
      BY <1>3, <2>2 DEF HandOff, AriaTyped
    <3> QED BY <1>1, <2>2, <3>1 DEF Lasting
  <2> QED BY <2>1, <2>2
<1> QED BY <1>3 DEF HandOff

\* A row keeps its gid with its job, whichever step is taken.
LEMMA RowGids ==
    ASSUME Calm, Parts, OpsHold, PollHolds, GidsHold, WritersHold, Next, NEW j \in Jobs
    PROVE  /\ row'[j].status \in {"new", "pending"} => row'[j].gid = None
           /\ Exists(j)' /\ row'[j].gid # None => owner'[row'[j].gid] = j
<1> DEFINE Fine == /\ row'[j].status \in {"new", "pending"} => row'[j].gid = None
                   /\ row'[j].status \notin {"new", "none"} /\ row'[j].gid # None => owner[row'[j].gid] = j
<1>1. Lasting /\ row[j].gid \in Gids \cup {None}
  BY PollLasts, AriaLasts, AdminLasts DEF Next, Parts, RowsTyped, RowType
<1>2. row'[j] = row[j] => Fine
  BY DEF GidsHold, Exists
<1>3. ASSUME Worker \/ Restart PROVE Fine
  <2>1. ASSUME NEW i \in Jobs, NEW g \in Gids \cup {None}, RowStep(i, g), row'[j] # row[j] PROVE Fine
    <3>1. i = j /\ Exists(j) /\ (Marked(j, g) \/ Requeued(j, g) \/ Followed(j, g) \/ WasSet(j, g))
      BY <2>1, RowSteps
    <3>2. CASE Marked(j, g)
      <4>1. pc = "mark" /\ First(j)
        BY <3>2 DEF Marked, MarkActive, Goto
      <4> QED BY <3>2, <4>1 DEF Marked, WritersHold
    <3>3. CASE Requeued(j, g)
      BY <3>3 DEF Requeued
    <3>4. CASE Followed(j, g)
      <4>1. Watched(j, g) /\ follows[g] # None
        BY <3>4 DEF Followed, FollowGid, Settle
      <4>2. <<j, g>> \in watch /\ g \in Gids
        BY <4>1 DEF Watched, Parts, WorkTyped
      <4>3. owner[g] = j /\ row[j].status \notin {"new", "pending"}
        BY <4>2 DEF PollHolds
      <4> QED BY <3>4, <4>1, <4>2, <4>3 DEF Followed, GidsHold
    <3>5. CASE WasSet(j, g)
      <4>1. row'[j].gid = row[j].gid /\ row'[j].status \in {"failed", "complete"}
        BY <3>5 DEF WasSet
      <4>2. row[j].gid # None => owner[row[j].gid] = j
        BY <3>1 DEF GidsHold
      <4> QED BY <4>1, <4>2
    <3> QED BY <3>1, <3>2, <3>3, <3>4, <3>5
  <2>2. ASSUME NEW i \in Jobs, NEW g \in Gids \cup {None}, PollStep(i, g), ~RowStep(i, g)
        PROVE  UNCHANGED row
    BY <2>2 DEF PollStep, Books, CountActive, FetchPending, SubmitDone, Hold, AddUriRefused,
           FetchActive, MonitorDone, TellStatus, StillRunning, AddUri, Publish, Purge
  <2>3. CASE CountActive \/ FetchPending \/ SubmitDone \/ FetchActive \/ MonitorDone
    BY <1>2, <2>3 DEF CountActive, FetchPending, SubmitDone, FetchActive, MonitorDone
  <2> HIDE DEF Fine
  <2>4. ASSUME NEW i \in Jobs, NEW g \in Gids \cup {None}, PollStep(i, g) PROVE Fine
    <3>1. CASE row'[j] = row[j]
      BY <1>2, <3>1
    <3>2. CASE row'[j] # row[j]
      BY <2>1, <2>2, <2>4, <3>2
    <3> QED BY <3>1, <3>2
  <2> QED BY <1>3, <2>3, <2>4, PollSteps
<1>4. ASSUME Admin PROVE Fine
  <2>1. \/ row'[j] = row[j]
        \/ row[j].status = "new" /\ row'[j].status = "pending" /\ row'[j].gid = row[j].gid
        \/ Exists(j) /\ row'[j].status = "paused" /\ row'[j].gid = row[j].gid
        \/ row'[j].status = "none" /\ row'[j].gid = None
    BY <1>4, AdminSteps, AdminRows
  <2>2. /\ row[j].status \in {"new", "pending"} => row[j].gid = None
        /\ Exists(j) /\ row[j].gid # None => owner[row[j].gid] = j
    BY DEF GidsHold
  <2> QED BY <1>2, <2>1, <2>2
<1>5. ASSUME Aria PROVE Fine
  BY <1>5, <1>2, AriaLasts
<1>6. Fine
  BY <1>3, <1>4, <1>5 DEF Next
<1>7. row'[j].gid \in Gids \cup {None}
  <2>1. RowsTyped'
    BY TypeSubmit, TypeMonitor, TypeFaults, TypeAdmin, TypeAria DEF Next, Worker, Parts
  <2> QED BY <2>1 DEF RowsTyped, RowType
<1> QED BY <1>1, <1>6, <1>7 DEF Lasting, Exists

LEMMA GidsNext ==
    ASSUME Calm, Parts, OpsHold, PollHolds, GidsHold, WritersHold, Next PROVE GidsHold'
<1>1. HandOff'
  BY HandOffNext DEF GidsHold, HandOff
<1>2. \A g \in Gids : owner'[g] = None => aria'[g] = "unknown"
  BY PollLasts, AriaLasts, AdminLasts DEF Next, Lasting, GidsHold
<1>3. \A j \in Jobs : /\ row'[j].status \in {"new", "pending"} => row'[j].gid = None
                      /\ Exists(j)' /\ row'[j].gid # None => owner'[row'[j].gid] = j
  BY RowGids
<1> QED BY <1>1, <1>2, <1>3 DEF GidsHold, HandOff, Exists

-----------------------------------------------------------------------------
(* The reply that the poll is acting upon.                                 *)

LEMMA ReplyNext ==
    ASSUME Calm, Parts, OpsHold, PollHolds, GidsHold, ReplyHolds, Next PROVE ReplyHolds'
<1> USE DEF Parts
<1>1. Lasting
  BY PollLasts, AriaLasts, AdminLasts DEF Next
<1>2. CASE UNCHANGED <<pc, watch, reply>>
  <2>1. ASSUME NEW j \in Jobs, NEW g \in Gids, Watched(j, g)
        PROVE  owner[g] # None
    BY <2>1 DEF PollHolds, Watched
  <2> QED BY <1>1, <1>2, <2>1 DEF ReplyHolds, Watched, Lasting
<1>3. CASE Worker \/ Restart
  <2>1. CASE pc' \notin {"apply", "purge", "finish"}
    BY <2>1 DEF ReplyHolds
  <2>2. CASE pc' \in {"apply", "purge", "finish"}
    <3>1. \E j \in Jobs, g \in Gids \cup {None} : TellStatus(j, g) \/ Publish(j, g) \/ Purge(j, g)
      BY <1>3, <2>2, PollSteps DEF PollStep, Books, RowStep, Fails, CountActive, FetchPending, SubmitDone,
             Hold, AddUriRefused, FetchActive, MonitorDone, StillRunning, Settle, MarkActive,
             RequeueForgotten, FollowGid, MarkComplete, SubmitFailed, DownloadFailed, PublishFails,
             AddUri, Goto
    <3>2. PICK j \in Jobs, g \in Gids \cup {None} : TellStatus(j, g) \/ Publish(j, g) \/ Purge(j, g)
      BY <3>1
    <3>3. Watched(j, g) /\ watch' = watch /\ g \in Gids
      BY <3>2 DEF TellStatus, Publish, Purge, Watched, WorkTyped
    <3>4. \A i \in Jobs, h \in Gids : Watched(i, h)' => i = j /\ h = g
      BY <3>3, OneWatched DEF Watched, PollHolds
    <3>5. CASE TellStatus(j, g)
      BY <3>4, <3>5 DEF TellStatus, Goto, ReplyHolds, ariaVars
    <3>6. CASE Publish(j, g)
      BY <3>3, <3>4, <3>6 DEF Publish, Goto, ReplyHolds, ariaVars
    <3>7. CASE Purge(j, g)
      BY <3>3, <3>4, <3>7 DEF Purge, Goto, ReplyHolds, AriaTyped
    <3> QED BY <3>2, <3>5, <3>6, <3>7
  <2> QED BY <2>1, <2>2
<1> QED BY <1>2, <1>3, AdminSteps, AriaLasts DEF Next, workVars

-----------------------------------------------------------------------------
(* The running downloads of a job.                                         *)

LEMMA InRunning ==
    ASSUME NEW j, NEW g
    PROVE  /\ g \in Running(j) <=> g \in Gids /\ owner[g] = j /\ aria[g] = "active"
           /\ g \in Running(j)' <=> g \in Gids /\ owner'[g] = j /\ aria'[g] = "active"
  BY DEF Running

\* A download that runs after a step ran before it, or is the one that the step started.
LEMMA NewRunning ==
    ASSUME Calm, Parts, OpsHold, GidsHold, Next, NEW j \in Jobs, NEW g \in Running(j)'
    PROVE  g \in Running(j) \/ AddUri(j, g) \/ \E m \in Running(j) : MetaDone(m, g)
<1>1. g \in Gids /\ owner'[g] = j /\ aria'[g] = "active"
  BY InRunning
<1>2. CASE aria[g] = "active"
  <2>1. owner[g] # None
    BY <1>1, <1>2 DEF GidsHold
  <2>2. owner'[g] = owner[g]
    BY <1>1, <2>1, PollLasts, AriaLasts, AdminLasts DEF Next, Lasting
  <2> QED BY <1>1, <1>2, <2>2, InRunning
<1>3. ASSUME NEW i \in Jobs, AddUri(i, g) PROVE AddUri(j, g)
  BY <1>1, <1>3 DEF AddUri, Started, Parts, AriaTyped
<1>4. ASSUME NEW m \in Gids, MetaDone(m, g) PROVE m \in Running(j)
  BY <1>1, <1>4, InRunning DEF MetaDone, Parts, AriaTyped
<1> QED BY <1>1, <1>2, <1>3, <1>4, Restarts DEF Starts

LEMMA OneNewGid == ASSUME Parts, NEW g \in Gids, NEW h \in Gids, NewGid(g), NewGid(h) PROVE g = h
  BY DEF NewGid, Fresh

\* A handed-over metadata download of a row that is there stays complete, as long as anything
\* runs: only a deletion of the row, or the end of its data, drops the result.
LEMMA StaysComplete ==
    ASSUME Calm, Parts, OpsHold, PollHolds, GidsHold, ReplyHolds, Next,
           NEW j \in Jobs, NEW g \in Gids, owner[g] = j, aria[g] = "complete", follows[g] # None,
           Exists(j) \/ j \in todo
    PROVE  aria'[g] = "complete" \/ \A h \in Gids : aria'[h] # "active"
<1> USE DEF Parts
<1>1. CASE Worker \/ Restart
  <2>1. ASSUME NEW i \in Jobs, NEW h \in Gids \cup {None}, PollStep(i, h) PROVE aria'[g] = "complete"
    <3>1. CASE Purge(i, h)
      <4>1. Watched(i, h) /\ h \in Gids /\ pc = "purge"
        BY <3>1 DEF Purge, Watched, WorkTyped, Goto
      <4>2. h # g
        BY <4>1 DEF ReplyHolds
      <4> QED BY <3>1, <4>2 DEF Purge, AriaTyped
    <3>2. CASE RowStep(i, h)
      BY <3>2, RowSteps DEF ariaVars
    <3>3. CASE AddUri(i, h)
      BY <3>3 DEF AddUri, Started, NewGid, Fresh, AriaTyped
    <3> QED BY <2>1, <3>1, <3>2, <3>3 DEF PollStep, Books, CountActive, FetchPending, SubmitDone, Hold,
               AddUriRefused, FetchActive, MonitorDone, TellStatus, StillRunning, Settle, Publish, ariaVars
  <2>2. CASE CountActive \/ FetchPending \/ SubmitDone \/ FetchActive \/ MonitorDone
    BY <2>2 DEF CountActive, FetchPending, SubmitDone, FetchActive, MonitorDone, ariaVars
  <2> QED BY <1>1, <2>1, <2>2, PollSteps
<1>2. CASE Admin
  <2>1. AdminStep
    BY <1>2, AdminSteps
  <2>2. ASSUME NEW o \in ops, RemoveResult(o) PROVE aria'[g] = "complete"
    <3>1. o.gid # g
      <4>1. SUFFICES ASSUME o.gid = g PROVE FALSE
        OBVIOUS
      <4>2. row[o.job].status = "none" /\ owner[g] = o.job /\ o.job \notin todo
        BY <2>2, <4>1 DEF RemoveResult, OpsHold
      <4> QED BY <4>2 DEF Exists
    <3> QED BY <2>2, <3>1 DEF RemoveResult, AriaTyped
  <2>3. ASSUME NEW o \in ops, PauseCall(o) \/ RemoveCall(o) PROVE aria'[g] = "complete"
    BY <2>3 DEF PauseCall, RemoveCall, AriaTyped
  <2> QED BY <2>1, <2>2, <2>3 DEF AdminStep, Create, Delete, ReadRow, CleanStaging, WriteRow, ariaVars
<1>3. CASE Aria
  <2>1. CASE Forget
    BY <2>1 DEF Forget
  <2>2. ASSUME NEW m \in Gids, NEW h \in Gids, MetaDone(m, h) PROVE aria'[g] = "complete"
    BY <2>2 DEF MetaDone, NewGid, Fresh, AriaTyped
  <2>3. ASSUME NEW m \in Gids, DataDone(m) \/ DownloadError(m) PROVE aria'[g] = "complete"
    BY <2>3 DEF DataDone, DownloadError, AriaTyped
  <2> QED BY <1>3, <2>1, <2>2, <2>3 DEF Aria, RoomGone, RoomBack, ariaVars
<1> QED BY <1>1, <1>2, <1>3 DEF Next

\* The gid that accounts for a job's downloads goes on accounting for them.
LEMMA CurrentKept ==
    ASSUME Calm, Parts, OpsHold, PollHolds, GidsHold, ReplyHolds, Next,
           NEW j \in Jobs, NEW g \in Gids, owner[g] = j, Current(j, g), Exists(j) \/ j \in todo,
           \A h \in Gids : ~AddUri(j, h)
    PROVE  Current(j, g)'
<1> SUFFICES ASSUME NEW h \in Running(j)'
             PROVE  h = g \/ (h = follows'[g] /\ aria'[g] = "complete")
  BY DEF Current
<1>1. h \in Gids /\ owner'[h] = j /\ aria'[h] = "active"
  BY InRunning
<1>2. CASE h \in Running(j)
  <2>1. CASE h # g
    <3>1. h = follows[g] /\ aria[g] = "complete" /\ follows[g] # None
      BY <1>1, <1>2, <2>1 DEF Current
    <3>2. aria'[g] = "complete"
      BY <1>1, <3>1, StaysComplete
    <3>3. follows'[g] = follows[g]
      BY <3>1, PollLasts, AriaLasts, AdminLasts DEF Next, Lasting
    <3> QED BY <3>1, <3>2, <3>3
  <2> QED BY <2>1
<1>3. ASSUME NEW m \in Running(j), MetaDone(m, h) PROVE h = follows'[g] /\ aria'[g] = "complete"
  <2>1. m = g
    <3>1. m # follows[g]
      BY <1>3 DEF MetaDone, IsMeta
    <3> QED BY <3>1 DEF Current
  <2>2. h # g
    BY <1>3 DEF MetaDone, NewGid, Fresh
  <2> QED BY <1>1, <1>3, <2>1, <2>2 DEF MetaDone, Parts, AriaTyped
<1> QED BY <1>1, <1>2, <1>3, NewRunning

\* A row waits to be handed to aria2, and nothing runs for it.
Waiting(j) == /\ row[j].status \in {"new", "pending"} \/ j \in todo
              /\ ~(pc = "mark" /\ First(j))

LEMMA WaitingNext ==
    ASSUME Calm, Parts, OpsHold, PollHolds, GidsHold, ReplyHolds, WritersHold, Next,
           NEW j \in Jobs, NEW g \in Running(j)', Waiting(j)'
    PROVE  FALSE
<1> USE DEF Parts
<1>1. g \in Gids /\ aria'[g] = "active"
  BY InRunning
<1>2. Waiting(j) => Running(j) = {}
  BY DEF Waiting, WritersHold
<1>3. CASE AddUri(j, g)
  BY <1>3 DEF AddUri, Goto, Waiting, First
<1>4. ASSUME NEW m \in Running(j), MetaDone(m, g) PROVE FALSE
  <2>1. UNCHANGED <<row, pc, todo>>
    BY <1>4 DEF MetaDone, NotOurs, workVars
  <2> QED BY <1>2, <1>4, <2>1 DEF Waiting, First
<1>5. CASE g \in Running(j)
  <2>1. ~Waiting(j)
    BY <1>2, <1>5
  <2>2. CASE pc = "mark" /\ First(j)
    <3>1. CASE UNCHANGED <<pc, todo>>
      BY <2>2, <3>1 DEF Waiting, First
    <3>2. CASE Worker \/ Restart
      <4>1. \E i \in Jobs : MarkActive(i)
        BY <2>2, <3>2, PollSteps DEF PollStep, Books, RowStep, Fails, CountActive, FetchPending,
           SubmitDone, Hold, AddUriRefused, FetchActive, MonitorDone, TellStatus, StillRunning, Settle,
           RequeueForgotten, FollowGid, MarkComplete, SubmitFailed, DownloadFailed, PublishFails,
           AddUri, Publish, Purge, Goto
      <4>2. MarkActive(j)
        BY <2>2, <4>1, OneFirst DEF MarkActive
      <4>3. j \in todo /\ row[j].status \in {"pending", "paused", "none"}
        BY <2>2 DEF First, PollHolds
      <4>4. j \notin todo' /\ row'[j].status \notin {"new", "pending"}
        BY <4>2, <4>3 DEF MarkActive, RowsTyped, Exists
      <4> QED BY <4>4 DEF Waiting
    <3> QED BY <3>1, <3>2, AdminSteps, AriaLasts DEF Next, workVars
  <2>3. CASE row[j].status \notin {"new", "pending"} /\ j \notin todo
    <3>1. j \notin todo'
      BY <2>3, PollLasts, AriaLasts, AdminLasts DEF Next, Lasting
    <3>2. row'[j].status \in {"new", "pending"}
      BY <3>1 DEF Waiting
    <3>3. CASE Worker \/ Restart
      <4>1. \E h \in Gids \cup {None} : Exists(j) /\ RequeueForgotten(j, h)
        <5>1. ASSUME NEW i \in Jobs, NEW h \in Gids \cup {None}, RowStep(i, h)
              PROVE  \E k \in Gids \cup {None} : Exists(j) /\ RequeueForgotten(j, k)
          BY <2>3, <3>2, <5>1, RowSteps DEF Marked, Requeued, Followed, WasSet
        <5>2. ASSUME NEW i \in Jobs, NEW h \in Gids \cup {None}, PollStep(i, h), ~RowStep(i, h)
              PROVE  UNCHANGED row
          BY <5>2 DEF PollStep, Books, CountActive, FetchPending, SubmitDone, Hold, AddUriRefused,
             FetchActive, MonitorDone, TellStatus, StillRunning, AddUri, Publish, Purge
        <5>3. row' # row
          BY <2>3, <3>2
        <5>4. ~(CountActive \/ FetchPending \/ SubmitDone \/ FetchActive \/ MonitorDone)
          BY <5>3 DEF CountActive, FetchPending, SubmitDone, FetchActive, MonitorDone
        <5> QED BY <3>3, <5>1, <5>2, <5>3, <5>4, PollSteps
      <4>2. PICK h \in Gids \cup {None} : Exists(j) /\ RequeueForgotten(j, h)
        BY <4>1
      <4>3. Watched(j, h) /\ pc = "apply" /\ reply = "unknown" /\ UNCHANGED aria
        BY <4>2 DEF RequeueForgotten, Settle, Goto, ariaVars
      <4>4. <<j, h>> \in watch /\ h \in Gids
        BY <4>3 DEF Watched, WorkTyped
      <4>5. row[j].gid = h /\ aria[h] = "unknown"
        BY <4>2, <4>3, <4>4 DEF PollHolds, ReplyHolds, Exists
      <4>6. Current(j, h)
        BY <4>2, <4>4, <4>5 DEF WritersHold
      <4> QED BY <1>1, <1>5, <4>3, <4>5, <4>6 DEF Current
    <3>4. CASE Admin
      BY <2>3, <3>2, <3>4, AdminSteps, AdminRows
    <3>5. CASE Aria
      BY <2>3, <3>2, <3>5, AriaLasts
    <3> QED BY <3>3, <3>4, <3>5 DEF Next
  <2> QED BY <2>1, <2>2, <2>3 DEF Waiting
<1> QED BY <1>3, <1>4, <1>5, NewRunning

LEMMA OneRuns ==
    ASSUME Calm, Parts, OpsHold, GidsHold, WritersHold, Next,
           NEW j \in Jobs, NEW g \in Running(j)', NEW h \in Running(j)'
    PROVE  g = h
<1>1. g \in Gids /\ h \in Gids /\ aria'[g] = "active" /\ aria'[h] = "active"
  BY InRunning
<1>2. ASSUME NEW f \in Gids, AddUri(j, f) PROVE Running(j) = {} /\ NewGid(f) /\ pc # pc'
  <2>1. pc = "submit" /\ j \in todo /\ NewGid(f) /\ pc' = "mark"
    BY <1>2 DEF AddUri, Goto, First, Started
  <2> QED BY <2>1 DEF WritersHold
<1>3. ASSUME NEW f \in Gids, NEW m \in Running(j), MetaDone(m, f)
      PROVE  aria'[m] # "active" /\ NewGid(f) /\ pc = pc'
  <2>1. m \in Gids /\ f # m
    BY <1>3, InRunning DEF MetaDone, NewGid, Fresh
  <2> QED BY <1>3, <2>1 DEF MetaDone, NotOurs, workVars, Parts, AriaTyped
<1>4. \A m, n \in Running(j) : m = n
  BY DEF WritersHold
<1>5. /\ g \in Running(j) \/ AddUri(j, g) \/ \E m \in Running(j) : MetaDone(m, g)
      /\ h \in Running(j) \/ AddUri(j, h) \/ \E m \in Running(j) : MetaDone(m, h)
  BY NewRunning
<1>6. CASE g \in Running(j) /\ h \in Running(j)
  BY <1>4, <1>6
<1>7. CASE AddUri(j, g) \/ AddUri(j, h)
  BY <1>1, <1>2, <1>5, <1>7, OneNewGid
<1>8. CASE (\E m \in Running(j) : MetaDone(m, g)) \/ (\E m \in Running(j) : MetaDone(m, h))
  BY <1>1, <1>2, <1>3, <1>4, <1>5, <1>8, OneNewGid
<1> QED BY <1>5, <1>6, <1>7, <1>8

LEMMA CurrentNext ==
    ASSUME Calm, Parts, OpsHold, PollHolds, GidsHold, ReplyHolds, WritersHold, Next,
           NEW j \in Jobs, Exists(j)', row'[j].gid # None
    PROVE  Current(j, row[j].gid)'
<1> USE DEF Parts
<1>0. PollHolds' /\ GidsHold' /\ row[j].gid \in Gids \cup {None}
  BY PollNext, GidsNext DEF RowsTyped, RowType
<1>1. Lasting
  BY PollLasts, AriaLasts, AdminLasts DEF Next
<1>2. CASE row'[j].gid = row[j].gid /\ Exists(j)
  <2>1. owner[row[j].gid] = j /\ Current(j, row[j].gid)
    BY <1>2 DEF GidsHold, WritersHold
  <2>2. j \notin todo
    BY <1>2 DEF PollHolds
  <2>3. \A h \in Gids : ~AddUri(j, h)
    BY <2>2 DEF AddUri, First
  <2>4. \A k \in Gids : k = row[j].gid => Current(j, k)'
    BY <1>2, <2>1, <2>3, CurrentKept
  <2> QED BY <1>0, <1>2, <2>4 DEF Current
<1>3. CASE Worker \/ Restart
  <2>1. ASSUME NEW i \in Jobs, NEW h \in Gids \cup {None}, RowStep(i, h), row'[j].gid # row[j].gid
        PROVE  Current(j, row[j].gid)'
    <3>1. i = j /\ Exists(j) /\ (Marked(j, h) \/ Followed(j, h)) /\ UNCHANGED ariaVars
      BY <2>1, RowSteps DEF Requeued, WasSet
    <3>2. Running(j)' = Running(j)
      BY <3>1 DEF Running, ariaVars
    <3>3. CASE Marked(j, h)
      <4>1. pc = "mark" /\ First(j) /\ row'[j].gid = newGid
        BY <3>3 DEF Marked, MarkActive, Goto
      <4>2. Current(j, newGid)
        BY <4>1 DEF WritersHold
      <4> QED BY <3>1, <3>2, <4>1, <4>2 DEF Current, ariaVars
    <3>4. CASE Followed(j, h)
      <4>1. Watched(j, h) /\ pc = "apply" /\ reply = "complete" /\ row'[j].gid = follows[h]
        BY <3>4 DEF Followed, FollowGid, Settle, Goto
      <4>2. <<j, h>> \in watch /\ h \in Gids
        BY <4>1 DEF Watched, WorkTyped
      <4>3. aria[h] # "active" /\ row[j].gid = h
        BY <3>1, <4>1, <4>2 DEF ReplyHolds, PollHolds, Exists
      <4>4. Current(j, h)
        BY <3>1, <4>2, <4>3 DEF WritersHold
      <4>5. \A k \in Running(j) : k = follows[h]
        BY <4>3, <4>4, InRunning DEF Current
      <4> QED BY <3>1, <3>2, <4>1, <4>5 DEF Current, ariaVars
    <3> QED BY <3>1, <3>3, <3>4
  <2>2. ASSUME NEW i \in Jobs, NEW h \in Gids \cup {None}, PollStep(i, h), ~RowStep(i, h)
        PROVE  UNCHANGED row
    BY <2>2 DEF PollStep, Books, CountActive, FetchPending, SubmitDone, Hold, AddUriRefused,
       FetchActive, MonitorDone, TellStatus, StillRunning, AddUri, Publish, Purge
  <2>3. CASE UNCHANGED row
    BY <1>2, <2>3 DEF Exists
  <2>4. CASE CountActive \/ FetchPending \/ SubmitDone \/ FetchActive \/ MonitorDone
    BY <2>3, <2>4 DEF CountActive, FetchPending, SubmitDone, FetchActive, MonitorDone
  <2>5. ASSUME NEW i \in Jobs, NEW h \in Gids \cup {None}, RowStep(i, h), row'[j].gid = row[j].gid
        PROVE  Current(j, row[j].gid)'
    <3>1. Exists(j)
      <4>1. row[j].status = "new" => row'[j] = row[j]
        BY <2>5, RowSteps DEF Exists
      <4> QED BY <1>1, <4>1 DEF Lasting, Exists
    <3> QED BY <1>2, <2>5, <3>1
  <2> QED BY <1>3, <2>1, <2>2, <2>3, <2>4, <2>5, PollSteps
<1>4. CASE Admin
  <2>1. row'[j].gid = row[j].gid /\ (Exists(j) \/ row[j].status = "new")
    BY <1>4, AdminSteps, AdminRows DEF Exists
  <2>2. row[j].status # "new"
    BY <2>1 DEF GidsHold
  <2> QED BY <1>2, <2>1, <2>2
<1>5. CASE Aria
  <2>1. UNCHANGED row
    BY <1>5, AriaLasts
  <2> QED BY <1>2, <2>1 DEF Exists
<1> QED BY <1>3, <1>4, <1>5 DEF Next

LEMMA MarkNext ==
    ASSUME Calm, Parts, OpsHold, PollHolds, GidsHold, ReplyHolds, WritersHold, Next,
           NEW j \in Jobs, pc' = "mark", First(j)'
    PROVE  newGid' \in Gids /\ owner'[newGid'] = j /\ Current(j, newGid)'
<1> USE DEF Parts
<1>1. CASE UNCHANGED <<pc, todo, newGid>> /\ \A h \in Gids : ~AddUri(j, h)
  <2>1. pc = "mark" /\ First(j)
    BY <1>1 DEF First
  <2>2. newGid \in Gids /\ owner[newGid] = j /\ Current(j, newGid) /\ j \in todo
    BY <2>1 DEF WritersHold, First
  <2>3. Current(j, newGid)' /\ owner'[newGid] = j
    <3>1. \A k \in Gids : k = newGid => Current(j, k)' 
      BY <1>1, <2>2, CurrentKept
    <3>2. owner'[newGid] = j
      BY <2>2, PollLasts, AriaLasts, AdminLasts DEF Next, Lasting
    <3> QED BY <1>1, <2>2, <3>1, <3>2 DEF Current
  <2> QED BY <1>1, <2>2, <2>3
<1>2. CASE Worker \/ Restart
  <2>1. \E i \in Jobs, g \in Gids \cup {None} : AddUri(i, g)
    BY <1>2, PollSteps DEF PollStep, Books, RowStep, Fails, CountActive, FetchPending, SubmitDone, Hold,
       AddUriRefused, FetchActive, MonitorDone, TellStatus, StillRunning, Settle, MarkActive,
       RequeueForgotten, FollowGid, MarkComplete, SubmitFailed, DownloadFailed, PublishFails, Publish,
       Purge, Goto
  <2>2. PICK i \in Jobs, g \in Gids \cup {None} : AddUri(i, g)
    BY <2>1
  <2>3. i = j
    BY <2>2 DEF AddUri, First
  <2>4. g \in Gids /\ newGid' = g /\ owner'[g] = j /\ j \in todo /\ pc = "submit" /\ NewGid(g)
    BY <2>2, <2>3 DEF AddUri, Started, NewGid, Fresh, First, Goto, AriaTyped
  <2>5. Running(j) = {}
    BY <2>4 DEF WritersHold
  <2>6. \A h \in Running(j)' : h = g
    <3>1. ASSUME NEW h \in Running(j)' PROVE AddUri(j, h) /\ h \in Gids
      BY <2>5, NewRunning, InRunning
    <3> QED BY <2>4, <3>1, OneNewGid DEF AddUri, Started
  <2> QED BY <2>4, <2>6 DEF Current
<1>3. CASE Admin \/ Aria
  <2>1. UNCHANGED <<pc, todo, newGid>>
    BY <1>3, AdminSteps, AriaLasts DEF workVars
  <2> QED BY <1>1, <2>1 DEF AddUri, Goto
<1> QED BY <1>2, <1>3 DEF Next

LEMMA WritersNext ==
    ASSUME Calm, Parts, OpsHold, PollHolds, GidsHold, ReplyHolds, WritersHold, Next
    PROVE  WritersHold'
<1>1. \A j \in Jobs : \A g, h \in Running(j)' : g = h
  BY OneRuns
<1>2. \A j \in Jobs : Waiting(j)' => Running(j)' = {}
  BY WaitingNext
<1>3. \A j \in Jobs : Exists(j)' /\ row'[j].gid # None => Current(j, row[j].gid)'
  BY CurrentNext
<1>4. \A j \in Jobs : pc' = "mark" /\ First(j)' =>
          newGid' \in Gids /\ owner'[newGid'] = j /\ Current(j, newGid)'
  BY MarkNext
<1> QED BY <1>1, <1>2, <1>3, <1>4 DEF WritersHold, Waiting

-----------------------------------------------------------------------------
(* The payload that is moved once.                                         *)

\* The row of a payload that was moved: no poll will move it again.
Moved(j) ==
    /\ published[j] = 1 /\ j \notin todo
    /\ \/ pc \in {"purge", "finish"} /\ \E g \in Gids : Watched(j, g)
       \/ /\ row[j].status \in {"none", "paused", "complete"}
          /\ \A g \in Gids : <<j, g>> \notin watch

LEMMA MovedPoll ==
    ASSUME Calm, Parts, PollHolds, NEW j \in Jobs, Moved(j), UNCHANGED published, Worker \/ Restart
    PROVE  Moved(j)'
<1> USE DEF Parts, Goto
<1>1. Lasting /\ PollHolds
  BY PollLasts
<1>2. j \notin todo'
  <2>1. row[j].status # "pending"
    <3>1. ASSUME NEW g \in Gids, Watched(j, g) PROVE row[j].status # "pending"
      BY <3>1 DEF Watched, PollHolds
    <3> QED BY <3>1 DEF Moved
  <2> QED BY <1>1, <2>1 DEF Lasting, Moved
<1>3. CASE pc \in {"purge", "finish"} /\ \E g \in Gids : Watched(j, g)
  <2>1. \E i \in Jobs, h \in Gids \cup {None} : Purge(i, h) \/ MarkComplete(i, h)
    BY <1>3, PollSteps DEF PollStep, Books, RowStep, Fails, CountActive, FetchPending, SubmitDone, Hold,
       AddUriRefused, FetchActive, MonitorDone, TellStatus, StillRunning, Settle, MarkActive, AddUri,
       RequeueForgotten, FollowGid, SubmitFailed, DownloadFailed, PublishFails, Publish
  <2>2. PICK i \in Jobs, h \in Gids \cup {None} : Purge(i, h) \/ MarkComplete(i, h)
    BY <2>1
  <2>3. Watched(i, h) /\ h \in Gids
    BY <2>2 DEF Purge, MarkComplete, Settle, Watched, WorkTyped
  <2>4. i = j
    BY <1>3, <2>3, OneWatched
  <2>5. CASE Purge(i, h)
    BY <1>2, <1>3, <2>5 DEF Purge, Moved, Watched
  <2>6. CASE MarkComplete(i, h)
    <3>1. <<j, h>> \in watch /\ watch' = watch \ {<<j, h>>}
      BY <2>3, <2>4, <2>6 DEF Watched, MarkComplete, Settle
    <3>2. /\ row[j].status \in {"active", "paused", "none"}
          /\ \A g \in Gids : <<j, g>> \notin watch'
      BY <2>3, <3>1 DEF PollHolds
    <3>3. row'[j].status \in {"none", "complete"}
      BY <2>4, <2>6, <3>2, SetRow DEF MarkComplete, Exists
    <3> QED BY <1>2, <3>2, <3>3 DEF Moved
  <2> QED BY <2>2, <2>5, <2>6
<1>4. CASE row[j].status \in {"none", "paused", "complete"} /\ \A g \in Gids : <<j, g>> \notin watch
  <2>1. ASSUME NEW i \in Jobs, NEW h \in Gids \cup {None}, RowStep(i, h)
        PROVE  row'[j] = row[j] /\ watch' \subseteq watch
    <3>1. watch' \subseteq watch
      BY <2>1 DEF RowStep, Fails, MarkActive, RequeueForgotten, FollowGid, MarkComplete, SubmitFailed,
         DownloadFailed, PublishFails, Settle
    <3>2. i # j
      <4>1. First(i) \/ Watched(i, h)
        BY <2>1 DEF RowStep, Fails, MarkActive, RequeueForgotten, FollowGid, MarkComplete, SubmitFailed,
           DownloadFailed, PublishFails, Settle
      <4>2. j \notin todo /\ <<j, h>> \notin watch
        BY <1>4 DEF Moved, WorkTyped
      <4> QED BY <4>1, <4>2 DEF First, Watched
    <3> QED BY <2>1, <3>1, <3>2, RowSteps
  <2>2. ASSUME NEW i \in Jobs, NEW h \in Gids \cup {None}, PollStep(i, h), ~RowStep(i, h)
        PROVE  row'[j] = row[j] /\ \A g \in Gids : <<j, g>> \notin watch'
    BY <1>4, <2>2 DEF PollStep, Books, CountActive, FetchPending, SubmitDone, Hold, AddUriRefused,
       FetchActive, MonitorDone, TellStatus, StillRunning, Settle, AddUri, Publish, Purge, HasStatus
  <2>3. CASE CountActive \/ FetchPending \/ SubmitDone \/ FetchActive \/ MonitorDone
    <3>1. row'[j] = row[j] /\ \A g \in Gids : <<j, g>> \notin watch'
      BY <1>4, <2>3 DEF CountActive, FetchPending, SubmitDone, FetchActive, MonitorDone, HasStatus
    <3> QED BY <1>2, <1>4, <3>1 DEF Moved
  <2>4. ASSUME NEW i \in Jobs, NEW h \in Gids \cup {None}, PollStep(i, h)
        PROVE  row'[j] = row[j] /\ \A g \in Gids : <<j, g>> \notin watch'
    <3>1. CASE RowStep(i, h)
      BY <1>4, <2>1, <3>1
    <3> QED BY <2>2, <2>4, <3>1
  <2> QED BY <1>2, <1>4, <2>3, <2>4, PollSteps DEF Moved
<1> QED BY <1>3, <1>4 DEF Moved

LEMMA MovedOthers ==
    ASSUME Parts, NEW j \in Jobs, Moved(j),
           (Calm /\ OpsHold /\ Admin) \/ Aria
    PROVE  Moved(j)'
<1>1. UNCHANGED <<pc, todo, watch, published>>
  BY AdminSteps, AriaLasts DEF workVars
<1>2. row[j].status \in {"none", "paused", "complete"} => row'[j].status \in {"none", "paused", "complete"}
  BY AdminSteps, AdminRows, AriaLasts DEF Exists
<1> QED BY <1>1, <1>2 DEF Moved, Watched

\* The move: the row was being looked at, so nothing had been moved.
LEMMA MovedNow ==
    ASSUME Parts, PollHolds, PublishHolds, NEW i \in Jobs, NEW g, Publish(i, g), NEW j \in Jobs,
           published'[j] # 0
    PROVE  Moved(j)'
<1> USE DEF Parts, Goto
<1>1. Watched(i, g) /\ g \in Gids /\ <<i, g>> \in watch /\ pc = "apply" /\ todo = {}
  BY DEF Publish, Watched, WorkTyped, PollHolds
<1>2. /\ UNCHANGED <<row, todo, watch>> /\ pc' = "purge"
      /\ published' = [published EXCEPT ![i] = @ + 1] /\ published \in [Jobs -> Nat]
  BY DEF Publish, DiskTyped
<1>3. published[i] = 0
  BY <1>1 DEF PublishHolds
<1>4. CASE j = i
  BY <1>1, <1>2, <1>3, <1>4 DEF Moved, Watched
<1>5. CASE j # i
  <2>1. published'[j] = published[j] /\ published[j] # 0
    BY <1>2, <1>5
  <2>2. row[j].status \in {"none", "paused", "complete"} /\ \A h \in Gids : <<j, h>> \notin watch
    BY <1>1, <2>1 DEF PublishHolds
  <2> QED BY <1>1, <1>2, <2>1, <2>2 DEF Moved, PublishHolds
<1> QED BY <1>4, <1>5

LEMMA PublishNext ==
    ASSUME Calm, Parts, OpsHold, PollHolds, PublishHolds, Next PROVE PublishHolds'
<1>1. SUFFICES ASSUME NEW j \in Jobs, published'[j] # 0 PROVE Moved(j)'
  BY DEF PublishHolds, Moved
<1>2. published[j] # 0 => Moved(j)
  BY DEF PublishHolds, Moved
<1>3. CASE Worker \/ Restart
  <2>1. ASSUME NEW i \in Jobs, NEW g \in Gids \cup {None}, PollStep(i, g), ~Publish(i, g)
        PROVE  UNCHANGED published
    BY <2>1, RowSteps DEF PollStep, Books, CountActive, FetchPending, SubmitDone, Hold, AddUriRefused,
       FetchActive, MonitorDone, TellStatus, StillRunning, Settle, AddUri, Started, Purge, diskVars
  <2>2. CASE UNCHANGED published
    BY <1>1, <1>2, <1>3, <2>2, MovedPoll
  <2>3. CASE CountActive \/ FetchPending \/ SubmitDone \/ FetchActive \/ MonitorDone
    BY <2>2, <2>3 DEF CountActive, FetchPending, SubmitDone, FetchActive, MonitorDone, diskVars
  <2> QED BY <1>1, <1>3, <2>1, <2>2, <2>3, PollSteps, MovedNow
<1>4. CASE Admin \/ Aria
  <2>1. UNCHANGED published
    BY <1>4, AdminSteps, AriaLasts
  <2> QED BY <1>1, <1>2, <1>4, <2>1, MovedOthers
<1> QED BY <1>3, <1>4 DEF Next

-----------------------------------------------------------------------------
(* The theorem.                                                            *)

LEMMA AtMostOne ==
    ASSUME NEW S, \A a, b \in S : a = b PROVE Cardinality(S) <= 1
<1>1. CASE S = {}
  BY <1>1, FS_EmptySet
<1>2. CASE S # {}
  <2>1. PICK a \in S : TRUE
    BY <1>2
  <2>2. S = {a}
    BY <2>1
  <2>3. Cardinality({a}) = 1
    BY FS_Singleton
  <2> QED BY <2>2, <2>3
<1> QED BY <1>1, <1>2

LEMMA WritersInit == Init => Writers
<1> SUFFICES ASSUME Init PROVE Writers
  OBVIOUS
<1>1. /\ ops = {} /\ pc = "count" /\ todo = {} /\ watch = {}
      /\ \A j \in Jobs : row[j].status = "new" /\ row[j].gid = None /\ published[j] = 0
      /\ \A g \in Gids : aria[g] = "unknown" /\ owner[g] = None /\ follows[g] = None
  BY DEF Init, NoRow
<1>2. OpsHold /\ PollHolds /\ GidsHold /\ PublishHolds
  BY <1>1 DEF OpsHold, PollHolds, GidsHold, PublishHolds, Exists
<1>3. ReplyHolds
  BY <1>1 DEF ReplyHolds, Watched
<1>4. \A j \in Jobs : Running(j) = {}
  BY <1>1 DEF Running
<1>5. WritersHold
  BY <1>1, <1>4 DEF WritersHold, Exists
<1> QED BY <1>2, <1>3, <1>5 DEF Writers

LEMMA WritersStuttered == Writers /\ UNCHANGED vars => Writers'
<1> SUFFICES ASSUME Writers, UNCHANGED vars PROVE Writers'
  OBVIOUS
<1>1. UNCHANGED <<row, aria, owner, follows, published, pc, todo, watch, newGid, reply, ops>>
  BY DEF vars, ariaVars, diskVars, workVars
<1>2. OpsHold' /\ PollHolds' /\ GidsHold'
  BY <1>1 DEF Writers, OpsHold, PollHolds, GidsHold, Exists
<1>3. ReplyHolds'
  BY <1>1 DEF Writers, ReplyHolds, Watched
<1>4. WritersHold'
  BY <1>1 DEF Writers, WritersHold, First, Current, Running, Exists
<1>5. PublishHolds'
  BY <1>1 DEF Writers, PublishHolds, Watched
<1> QED BY <1>2, <1>3, <1>4, <1>5 DEF Writers

\* A file is never written twice at once and is moved into the library once, for any number of
\* rows and aria2 downloads: over aria2's restarts and errors, magnet hand-offs, full disks,
\* pauses and deletions in any order with the poll (manager.py, aria2.py, admin_routes.py).
\* The hypothesis is what makes it true: no reply of aria2 is lost, no database call of the
\* worker raises and the worker is not restarted, and nobody resumes or retries.
THEOREM WrittenByOne ==
    ASSUME Ops \subseteq {"pause", "delete"}, Faults \subseteq {"forget", "full"}
    PROVE  Spec => []WrittenOnce
<1>1. Calm
  BY DEF Calm
<1>2. Parts /\ Writers /\ [Next]_vars => Writers'
  BY <1>1, WritersStuttered, OpsNext, PollNext, GidsNext, ReplyNext, WritersNext, PublishNext
     DEF Writers
<1>3. Writers => WrittenOnce
  <2>1. WritersHold => OneWriter
    BY AtMostOne DEF WritersHold, OneWriter
  <2>2. PublishHolds => PublishedOnce
    <3>1. \A j \in Jobs : published[j] = 0 \/ published[j] = 1 => published[j] <= 1
      OBVIOUS
    <3> QED BY <3>1 DEF PublishHolds, PublishedOnce
  <2> QED BY <2>1, <2>2 DEF Writers, WrittenOnce
<1>4. Spec => []Parts
  BY Typed, InParts, PTL
<1> QED BY <1>2, <1>3, <1>4, WritersInit, PTL DEF Spec

============
