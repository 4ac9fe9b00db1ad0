-------------------------- MODULE CacheQueueProofs --------------------------
(***************************************************************************)
(* Theorems about the cache queue, for any number of episodes, targets,    *)
(* replicas and slots, and any bounds.                                     *)
(***************************************************************************)
EXTENDS CacheQueue, FiniteSetTheorems, WellFoundedInduction, TLAPS

\* An id that was issued names a key and a target; one that was not is nowhere.
Issued ==
    \A i \in Ids :
        IF i <= lastId THEN keyOf[i] \in Keys /\ tgtOf[i] \in Targets
        ELSE status[i] = "none" /\ job[i] = "idle" /\ i \notin drops /\ i \notin batch

\* A worker that is down runs nothing; one that stops was allowed to.
Process ==
    /\ phase # "up" => restarts < MaxRestart /\ batch = {}
    /\ phase = "down" => \A i \in Ids : job[i] = "idle"

\* The part of the invariant the others rest on.
Base == TypeOK /\ Issued /\ Process

LEMMA BaseInit == Init => Base
  BY SlotsAssumption, BoundsAssumption, NoneAssumption
     DEF Init, Base, TypeOK, Issued, Process, Ids, Paths, Status, JobPc

\* The rows of Ids named by an id in range.
LEMMA PathTyped ==
  ASSUME TypeOK, Issued, NEW i \in Ids, i <= lastId
  PROVE  Path(i) \in Paths
  BY DEF Issued, Path, Paths

LEMMA TypeRequest == Base /\ Request => TypeOK'
<1> SUFFICES ASSUME Base, Request PROVE TypeOK'
  OBVIOUS
<1> USE BoundsAssumption DEF Base, TypeOK, rowVars, targetVars, viewVars, apiVars, workerVars, diskVars, boundVars,
        histVars
<1>1. ASSUME NEW r \in Replicas, NEW k \in Keys, Confirm(r, k) PROVE TypeOK'
  BY <1>1 DEF Confirm
<1>2. ASSUME NEW k \in Keys, NEW t \in Targets, ClaimInsert(k, t) PROVE TypeOK'
  BY <1>2 DEF ClaimInsert, Ids, Status
<1>3. ASSUME NEW k \in Keys, NEW t \in Targets, ClaimRevive(k, t) PROVE TypeOK'
  BY <1>3 DEF ClaimRevive, Ids, Status, RowsFor
<1>4. ASSUME NEW k \in Keys, NEW t \in Targets, ClaimRefused(k, t) PROVE TypeOK'
  BY <1>4 DEF ClaimRefused
<1> QED BY <1>1, <1>2, <1>3, <1>4 DEF Request

LEMMA TypeAdmin == Base /\ Admin => TypeOK'
<1> SUFFICES ASSUME Base, Admin PROVE TypeOK'
  OBVIOUS
<1> USE BoundsAssumption DEF Base, TypeOK, rowVars, targetVars, viewVars, apiVars, workerVars, diskVars, boundVars, histVars
<1>1. ASSUME NEW r \in Replicas, RefreshReplica(r) PROVE TypeOK'
  BY <1>1 DEF RefreshReplica
<1>2. ASSUME NEW r \in Replicas, SetSwitch(r) PROVE TypeOK'
  BY <1>2 DEF SetSwitch, Bumped
<1>3. ASSUME NEW r \in Replicas, NEW t \in Targets, ToggleTarget(r, t) PROVE TypeOK'
  BY <1>3 DEF ToggleTarget, Bumped
<1>4. ASSUME NEW r \in Replicas, NEW t \in Targets, AddTarget(r, t) PROVE TypeOK'
  BY <1>4 DEF AddTarget, Bumped
<1>5. ASSUME NEW r \in Replicas, NEW t \in Targets, DeleteTarget(r, t) PROVE TypeOK'
  BY <1>5 DEF DeleteTarget, Bumped, Status
<1>6. ASSUME NEW i \in Ids, DropRow(i) PROVE TypeOK'
  BY <1>6 DEF DropRow, Live, Status
<1>7. ASSUME NEW i \in Ids, DropFile(i) PROVE TypeOK'
  BY <1>7, PathTyped DEF DropFile, Issued
<1> QED BY <1>1, <1>2, <1>3, <1>4, <1>5, <1>6, <1>7 DEF Admin

LEMMA TypePoll == Base /\ Poll => TypeOK'
<1> SUFFICES ASSUME Base, Poll PROVE TypeOK'
  OBVIOUS
<1> USE BoundsAssumption DEF Base, TypeOK, rowVars, targetVars, viewVars, apiVars, workerVars, diskVars, boundVars, histVars
<1>1. CASE RefreshWorker
  BY <1>1 DEF RefreshWorker
<1>2. CASE Fetch
  BY <1>2 DEF Fetch, Oldest, Fetchable
<1>3. ASSUME NEW i \in Ids, Begin(i) PROVE TypeOK'
  BY <1>3 DEF Begin, Status, JobPc
<1>4. ASSUME NEW i \in Ids, Skip(i) PROVE TypeOK'
  BY <1>4 DEF Skip
<1>5. ASSUME NEW i \in Ids, BeginError(i) PROVE TypeOK'
  BY <1>5 DEF BeginError, Status
<1> QED BY <1>1, <1>2, <1>3, <1>4, <1>5 DEF Poll

LEMMA TypeLifecycle == Base /\ Lifecycle => TypeOK'
<1> SUFFICES ASSUME Base, Lifecycle PROVE TypeOK'
  OBVIOUS
<1> USE BoundsAssumption DEF Base, TypeOK, rowVars, targetVars, viewVars, apiVars, workerVars, diskVars, boundVars, histVars
<1>1. CASE Drain
  BY <1>1 DEF Drain
<1>2. CASE Die
  BY <1>2 DEF Die, JobPc
<1>3. CASE Start
  BY <1>3 DEF Start, Requeued, Status, Process
<1>4. CASE StartNoReset
  BY <1>4 DEF StartNoReset, Process
<1> QED BY <1>1, <1>2, <1>3, <1>4 DEF Lifecycle

LEMMA TypeJob == ASSUME Base, NEW i \in Ids, JobRun(i) PROVE TypeOK'
<1> USE BoundsAssumption DEF Base, TypeOK, JobStep, JobPc, rowVars, targetVars, viewVars, apiVars, diskVars, histVars
<1>1. CASE Prepare(i)
  BY <1>1 DEF Prepare
<1>2. CASE PrepareFails(i)
  BY <1>2 DEF PrepareFails
<1>3. CASE Write(i)
  BY <1>3 DEF Write
<1>4. CASE RemuxDone(i)
  BY <1>4 DEF RemuxDone
<1>5. CASE RemuxFails(i)
  BY <1>5 DEF RemuxFails
<1>6. CASE Measure(i)
  BY <1>6 DEF Measure
<1>7. CASE MeasureEmpty(i)
  BY <1>7 DEF MeasureEmpty
<1>8. CASE Discard(i)
  BY <1>8 DEF Discard
<1>9. CASE Replace(i)
  BY <1>9 DEF Replace
<1>10. CASE ReplaceFails(i)
  BY <1>10 DEF ReplaceFails
<1>11. CASE MarkReady(i)
  BY <1>11 DEF MarkReady, Marked, Status
<1>12. CASE MarkFailed(i)
  BY <1>12 DEF MarkFailed, Marked, Status
<1>13. CASE MarkError(i)
  BY <1>13 DEF MarkError, Marked, Status
<1>14. CASE Pop(i)
  BY <1>14 DEF Pop
<1> QED BY <1>1, <1>2, <1>3, <1>4, <1>5, <1>6, <1>7, <1>8, <1>9, <1>10, <1>11, <1>12, <1>13, <1>14 DEF JobRun

LEMMA SoundRequest == Base /\ Request => (Issued /\ Process)'
<1> SUFFICES ASSUME Base, Request PROVE (Issued /\ Process)'
  OBVIOUS
<1> USE BoundsAssumption DEF Base, TypeOK, Issued, Process, rowVars, targetVars, viewVars, apiVars, workerVars, diskVars, boundVars, histVars
<1>1. ASSUME NEW r \in Replicas, NEW k \in Keys, Confirm(r, k) PROVE (Issued /\ Process)'
  BY <1>1 DEF Confirm
<1>2. ASSUME NEW k \in Keys, NEW t \in Targets, ClaimInsert(k, t) PROVE (Issued /\ Process)'
  BY <1>2 DEF ClaimInsert, Ids
<1>3. ASSUME NEW k \in Keys, NEW t \in Targets, ClaimRevive(k, t) PROVE (Issued /\ Process)'
  BY <1>3 DEF ClaimRevive, Ids, RowsFor, Live
<1>4. ASSUME NEW k \in Keys, NEW t \in Targets, ClaimRefused(k, t) PROVE (Issued /\ Process)'
  BY <1>4 DEF ClaimRefused
<1> QED BY <1>1, <1>2, <1>3, <1>4 DEF Request

LEMMA SoundAdmin == Base /\ Admin => (Issued /\ Process)'
<1> SUFFICES ASSUME Base, Admin PROVE (Issued /\ Process)'
  OBVIOUS
<1> USE BoundsAssumption DEF Base, TypeOK, Issued, Process, rowVars, targetVars, viewVars, apiVars, workerVars, diskVars, boundVars, histVars
<1>1. ASSUME NEW r \in Replicas, RefreshReplica(r) PROVE (Issued /\ Process)'
  BY <1>1 DEF RefreshReplica
<1>2. ASSUME NEW r \in Replicas, SetSwitch(r) PROVE (Issued /\ Process)'
  BY <1>2 DEF SetSwitch
<1>3. ASSUME NEW r \in Replicas, NEW t \in Targets, ToggleTarget(r, t) PROVE (Issued /\ Process)'
  BY <1>3 DEF ToggleTarget
<1>4. ASSUME NEW r \in Replicas, NEW t \in Targets, AddTarget(r, t) PROVE (Issued /\ Process)'
  BY <1>4 DEF AddTarget
<1>5. ASSUME NEW r \in Replicas, NEW t \in Targets, DeleteTarget(r, t) PROVE (Issued /\ Process)'
  BY <1>5 DEF DeleteTarget
<1>6. ASSUME NEW i \in Ids, DropRow(i) PROVE (Issued /\ Process)'
  BY <1>6 DEF DropRow, Live
<1>7. ASSUME NEW i \in Ids, DropFile(i) PROVE (Issued /\ Process)'
  BY <1>7 DEF DropFile
<1> QED BY <1>1, <1>2, <1>3, <1>4, <1>5, <1>6, <1>7 DEF Admin

LEMMA SoundPoll == Base /\ Poll => (Issued /\ Process)'
<1> SUFFICES ASSUME Base, Poll PROVE (Issued /\ Process)'
  OBVIOUS
<1> USE BoundsAssumption DEF Base, TypeOK, Issued, Process, rowVars, targetVars, viewVars, apiVars, workerVars, diskVars, boundVars, histVars
<1>1. CASE RefreshWorker
  BY <1>1 DEF RefreshWorker
<1>2. CASE Fetch
  BY <1>2 DEF Fetch, Oldest, Fetchable
<1>3. ASSUME NEW i \in Ids, Begin(i) PROVE (Issued /\ Process)'
  BY <1>3 DEF Begin
<1>4. ASSUME NEW i \in Ids, Skip(i) PROVE (Issued /\ Process)'
  BY <1>4 DEF Skip
<1>5. ASSUME NEW i \in Ids, BeginError(i) PROVE (Issued /\ Process)'
  BY <1>5 DEF BeginError
<1> QED BY <1>1, <1>2, <1>3, <1>4, <1>5 DEF Poll

LEMMA SoundLifecycle == Base /\ Lifecycle => (Issued /\ Process)'
<1> SUFFICES ASSUME Base, Lifecycle PROVE (Issued /\ Process)'
  OBVIOUS
<1> USE BoundsAssumption DEF Base, TypeOK, Issued, Process, rowVars, targetVars, viewVars, apiVars, workerVars, diskVars, boundVars, histVars
<1>1. CASE Drain
  BY <1>1 DEF Drain
<1>2. CASE Die
  BY <1>2 DEF Die
<1>3. CASE Start
  BY <1>3 DEF Start, Requeued
<1>4. CASE StartNoReset
  BY <1>4 DEF StartNoReset
<1> QED BY <1>1, <1>2, <1>3, <1>4 DEF Lifecycle

LEMMA SoundJob == ASSUME Base, NEW i \in Ids, JobRun(i) PROVE (Issued /\ Process)'
<1> USE BoundsAssumption DEF Base, TypeOK, Issued, Process, JobStep, JobPc, rowVars, targetVars, viewVars, apiVars, workerVars, diskVars, boundVars, histVars
<1>1. CASE Prepare(i)
  BY <1>1 DEF Prepare
<1>2. CASE PrepareFails(i)
  BY <1>2 DEF PrepareFails
<1>3. CASE Write(i)
  BY <1>3 DEF Write
<1>4. CASE RemuxDone(i)
  BY <1>4 DEF RemuxDone
<1>5. CASE RemuxFails(i)
  BY <1>5 DEF RemuxFails
<1>6. CASE Measure(i)
  BY <1>6 DEF Measure
<1>7. CASE MeasureEmpty(i)
  BY <1>7 DEF MeasureEmpty
<1>8. CASE Discard(i)
  BY <1>8 DEF Discard
<1>9. CASE Replace(i)
  BY <1>9 DEF Replace
<1>10. CASE ReplaceFails(i)
  BY <1>10 DEF ReplaceFails
<1>11. CASE MarkReady(i)
  BY <1>11 DEF MarkReady, Marked, Live
<1>12. CASE MarkFailed(i)
  BY <1>12 DEF MarkFailed, Marked, Live
<1>13. CASE MarkError(i)
  BY <1>13 DEF MarkError, Marked, Live
<1>14. CASE Pop(i)
  BY <1>14 DEF Pop
<1> QED BY <1>1, <1>2, <1>3, <1>4, <1>5, <1>6, <1>7, <1>8, <1>9, <1>10, <1>11, <1>12, <1>13, <1>14 DEF JobRun

\* Nothing in the base invariant depends on a variable the step leaves alone.
LEMMA BaseNext == Base /\ [Next]_vars => Base'
<1> SUFFICES ASSUME Base, [Next]_vars PROVE Base'
  OBVIOUS
<1>1. CASE Request
  BY <1>1, TypeRequest, SoundRequest DEF Base
<1>2. CASE Admin
  BY <1>2, TypeAdmin, SoundAdmin DEF Base
<1>3. CASE Poll
  BY <1>3, TypePoll, SoundPoll DEF Base
<1>4. CASE Lifecycle
  BY <1>4, TypeLifecycle, SoundLifecycle DEF Base
<1>5. ASSUME NEW i \in Ids, JobRun(i) PROVE Base'
  BY <1>5, TypeJob, SoundJob DEF Base
<1>6. CASE UNCHANGED vars
  BY <1>6 DEF vars, Base, TypeOK, Issued, Process, rowVars, targetVars, viewVars, apiVars,
              workerVars, diskVars, boundVars, histVars
<1> QED BY <1>1, <1>2, <1>3, <1>4, <1>5, <1>6 DEF Next

\* Every state of the queue is typed: ids beyond the last one issued are in no table,
\* no queue and on no disk, and a worker stops only while it may start again.
THEOREM Typed == Spec => []TypeOK
<1>1. Spec => []Base
  BY BaseInit, BaseNext, PTL DEF Spec
<1> QED BY <1>1, PTL DEF Base

-----------------------------------------------------------------------------
(* Rows and their jobs.                                                    *)

\* The row of a job that has not answered yet is its own: it is still downloading,
\* unless it was deleted.
JobRows ==
    \A i \in Ids : job[i] \notin {"idle", "pop", "report"} => status[i] \in {"downloading", "none"}

\* The unique index: two rows never have the same key.
UniqueKeys == \A i, j \in Ids : Live(i) /\ Live(j) /\ keyOf[i] = keyOf[j] => i = j

\* The row goes before the file.
DropsGone == \A i \in drops : ~Live(i)

Rows == JobRows /\ UniqueKeys /\ DropsGone

RowsInv == Base /\ Rows

LEMMA RowsInit == Init => RowsInv
  BY BaseInit DEF Init, RowsInv, Rows, JobRows, UniqueKeys, DropsGone, Live

LEMMA RowsRequest == RowsInv /\ Request => Rows'
<1> SUFFICES ASSUME RowsInv, Request PROVE Rows'
  OBVIOUS
<1> USE BoundsAssumption DEF Base, TypeOK, Issued, Process, RowsInv, Rows, JobRows, UniqueKeys, DropsGone, Live, rowVars, targetVars, viewVars, apiVars, workerVars, diskVars, boundVars, histVars
<1>1. ASSUME NEW r \in Replicas, NEW k \in Keys, Confirm(r, k) PROVE Rows'
  BY <1>1 DEF Confirm
<1>2. ASSUME NEW k \in Keys, NEW t \in Targets, ClaimInsert(k, t) PROVE Rows'
  <2>1. lastId' \in Ids /\ status[lastId'] = "none" /\ lastId' \notin drops /\ job[lastId'] = "idle"
    BY <1>2 DEF ClaimInsert, Ids
  <2>2. \A i \in Ids : status[i] # "none" => keyOf[i] # k
    BY <1>2 DEF ClaimInsert, RowsFor
  <2>3. \A i \in Ids \ {lastId'} : status'[i] = status[i] /\ keyOf'[i] = keyOf[i]
    BY <1>2 DEF ClaimInsert
  <2>4. status'[lastId'] = "pending" /\ keyOf'[lastId'] = k /\ drops' = drops /\ job' = job
    BY <1>2, <2>1 DEF ClaimInsert
  <2>5. UniqueKeys'
    BY <2>2, <2>3, <2>4
  <2>6. JobRows' /\ DropsGone'
    BY <2>1, <2>3, <2>4
  <2> QED BY <2>5, <2>6
<1>3. ASSUME NEW k \in Keys, NEW t \in Targets, ClaimRevive(k, t) PROVE Rows'
  BY <1>3 DEF ClaimRevive, Ids, RowsFor
<1>4. ASSUME NEW k \in Keys, NEW t \in Targets, ClaimRefused(k, t) PROVE Rows'
  BY <1>4 DEF ClaimRefused
<1> QED BY <1>1, <1>2, <1>3, <1>4 DEF Request

LEMMA RowsAdmin == RowsInv /\ Admin => Rows'
<1> SUFFICES ASSUME RowsInv, Admin PROVE Rows'
  OBVIOUS
<1> USE BoundsAssumption DEF Base, TypeOK, Issued, Process, RowsInv, Rows, JobRows, UniqueKeys, DropsGone, Live, rowVars, targetVars, viewVars, apiVars, workerVars, diskVars, boundVars, histVars
<1>1. ASSUME NEW r \in Replicas, RefreshReplica(r) PROVE Rows'
  BY <1>1 DEF RefreshReplica
<1>2. ASSUME NEW r \in Replicas, SetSwitch(r) PROVE Rows'
  BY <1>2 DEF SetSwitch
<1>3. ASSUME NEW r \in Replicas, NEW t \in Targets, ToggleTarget(r, t) PROVE Rows'
  BY <1>3 DEF ToggleTarget
<1>4. ASSUME NEW r \in Replicas, NEW t \in Targets, AddTarget(r, t) PROVE Rows'
  BY <1>4 DEF AddTarget
<1>5. ASSUME NEW r \in Replicas, NEW t \in Targets, DeleteTarget(r, t) PROVE Rows'
  BY <1>5 DEF DeleteTarget
<1>6. ASSUME NEW i \in Ids, DropRow(i) PROVE Rows'
  BY <1>6 DEF DropRow
<1>7. ASSUME NEW i \in Ids, DropFile(i) PROVE Rows'
  BY <1>7 DEF DropFile
<1> QED BY <1>1, <1>2, <1>3, <1>4, <1>5, <1>6, <1>7 DEF Admin

LEMMA RowsPoll == RowsInv /\ Poll => Rows'
<1> SUFFICES ASSUME RowsInv, Poll PROVE Rows'
  OBVIOUS
<1> USE BoundsAssumption DEF Base, TypeOK, Issued, Process, RowsInv, Rows, JobRows, UniqueKeys, DropsGone, Live, rowVars, targetVars, viewVars, apiVars, workerVars, diskVars, boundVars, histVars
<1>1. CASE RefreshWorker
  BY <1>1 DEF RefreshWorker
<1>2. CASE Fetch
  BY <1>2 DEF Fetch, Oldest, Fetchable
<1>3. ASSUME NEW i \in Ids, Begin(i) PROVE Rows'
  BY <1>3 DEF Begin
<1>4. ASSUME NEW i \in Ids, Skip(i) PROVE Rows'
  BY <1>4 DEF Skip
<1>5. ASSUME NEW i \in Ids, BeginError(i) PROVE Rows'
  BY <1>5 DEF BeginError
<1> QED BY <1>1, <1>2, <1>3, <1>4, <1>5 DEF Poll

LEMMA RowsLifecycle == RowsInv /\ Lifecycle => Rows'
<1> SUFFICES ASSUME RowsInv, Lifecycle PROVE Rows'
  OBVIOUS
<1> USE BoundsAssumption DEF Base, TypeOK, Issued, Process, RowsInv, Rows, JobRows, UniqueKeys, DropsGone, Live, rowVars, targetVars, viewVars, apiVars, workerVars, diskVars, boundVars, histVars
<1>1. CASE Drain
  BY <1>1 DEF Drain
<1>2. CASE Die
  BY <1>2 DEF Die
<1>3. CASE Start
  BY <1>3 DEF Start, Requeued
<1>4. CASE StartNoReset
  BY <1>4 DEF StartNoReset
<1> QED BY <1>1, <1>2, <1>3, <1>4 DEF Lifecycle

LEMMA RowsJob == ASSUME RowsInv, NEW i \in Ids, JobRun(i) PROVE Rows'
<1> USE BoundsAssumption DEF Base, TypeOK, Issued, Process, RowsInv, Rows, JobRows, UniqueKeys, DropsGone, Live, JobStep, JobPc, rowVars, targetVars, viewVars, apiVars, workerVars, diskVars, boundVars, histVars
<1>1. CASE Prepare(i)
  BY <1>1 DEF Prepare
<1>2. CASE PrepareFails(i)
  BY <1>2 DEF PrepareFails
<1>3. CASE Write(i)
  BY <1>3 DEF Write
<1>4. CASE RemuxDone(i)
  BY <1>4 DEF RemuxDone
<1>5. CASE RemuxFails(i)
  BY <1>5 DEF RemuxFails
<1>6. CASE Measure(i)
  BY <1>6 DEF Measure
<1>7. CASE MeasureEmpty(i)
  BY <1>7 DEF MeasureEmpty
<1>8. CASE Discard(i)
  BY <1>8 DEF Discard
<1>9. CASE Replace(i)
  BY <1>9 DEF Replace
<1>10. CASE ReplaceFails(i)
  BY <1>10 DEF ReplaceFails
<1>11. CASE MarkReady(i)
  BY <1>11 DEF MarkReady, Marked
<1>12. CASE MarkFailed(i)
  BY <1>12 DEF MarkFailed, Marked
<1>13. CASE MarkError(i)
  BY <1>13 DEF MarkError, Marked
<1>14. CASE Pop(i)
  BY <1>14 DEF Pop
<1> QED BY <1>1, <1>2, <1>3, <1>4, <1>5, <1>6, <1>7, <1>8, <1>9, <1>10, <1>11, <1>12, <1>13, <1>14 DEF JobRun

LEMMA RowsNext == RowsInv /\ [Next]_vars => RowsInv'
<1> SUFFICES ASSUME RowsInv, [Next]_vars PROVE RowsInv'
  OBVIOUS
<1>1. Base'
  BY BaseNext DEF RowsInv
<1>2. CASE UNCHANGED vars
  BY <1>1, <1>2 DEF vars, RowsInv, Rows, JobRows, UniqueKeys, DropsGone, Live, rowVars, apiVars, workerVars
<1>3. CASE Next
  BY <1>1, <1>3, RowsRequest, RowsAdmin, RowsPoll, RowsLifecycle, RowsJob DEF Next, RowsInv
<1> QED BY <1>2, <1>3

LEMMA RowsAlways == Spec => []RowsInv
  BY RowsInit, RowsNext, PTL DEF Spec

-----------------------------------------------------------------------------
(* A cached episode stays served.                                          *)

\* What one step may do to a row that is ready.
Kept == \A i \in Ids : status[i] = "ready" => status'[i] \in {"ready", "none"} \/ job[i] = "report"

LEMMA KeptRequest == RowsInv /\ Request => Kept
<1> SUFFICES ASSUME RowsInv, Request PROVE Kept
  OBVIOUS
<1> USE BoundsAssumption DEF Base, TypeOK, Issued, RowsInv, Rows, JobRows, Live, Kept, rowVars, targetVars, viewVars, apiVars, workerVars, diskVars, boundVars, histVars
<1>1. ASSUME NEW r \in Replicas, NEW k \in Keys, Confirm(r, k) PROVE Kept
  BY <1>1 DEF Confirm
<1>2. ASSUME NEW k \in Keys, NEW t \in Targets, ClaimInsert(k, t) PROVE Kept
  BY <1>2 DEF ClaimInsert, Ids
<1>3. ASSUME NEW k \in Keys, NEW t \in Targets, ClaimRevive(k, t) PROVE Kept
  BY <1>3 DEF ClaimRevive, RowsFor
<1>4. ASSUME NEW k \in Keys, NEW t \in Targets, ClaimRefused(k, t) PROVE Kept
  BY <1>4 DEF ClaimRefused
<1> QED BY <1>1, <1>2, <1>3, <1>4 DEF Request

LEMMA KeptAdmin == RowsInv /\ Admin => Kept
<1> SUFFICES ASSUME RowsInv, Admin PROVE Kept
  OBVIOUS
<1> USE BoundsAssumption DEF Base, TypeOK, Issued, RowsInv, Rows, JobRows, Live, Kept, rowVars, targetVars, viewVars, apiVars, workerVars, diskVars, boundVars, histVars
<1>1. ASSUME NEW r \in Replicas, RefreshReplica(r) PROVE Kept
  BY <1>1 DEF RefreshReplica
<1>2. ASSUME NEW r \in Replicas, SetSwitch(r) PROVE Kept
  BY <1>2 DEF SetSwitch
<1>3. ASSUME NEW r \in Replicas, NEW t \in Targets, ToggleTarget(r, t) PROVE Kept
  BY <1>3 DEF ToggleTarget
<1>4. ASSUME NEW r \in Replicas, NEW t \in Targets, AddTarget(r, t) PROVE Kept
  BY <1>4 DEF AddTarget
<1>5. ASSUME NEW r \in Replicas, NEW t \in Targets, DeleteTarget(r, t) PROVE Kept
  BY <1>5 DEF DeleteTarget
<1>6. ASSUME NEW i \in Ids, DropRow(i) PROVE Kept
  BY <1>6 DEF DropRow
<1>7. ASSUME NEW i \in Ids, DropFile(i) PROVE Kept
  BY <1>7 DEF DropFile
<1> QED BY <1>1, <1>2, <1>3, <1>4, <1>5, <1>6, <1>7 DEF Admin

LEMMA KeptPoll == RowsInv /\ Poll => Kept
<1> SUFFICES ASSUME RowsInv, Poll PROVE Kept
  OBVIOUS
<1> USE BoundsAssumption DEF Base, TypeOK, Issued, RowsInv, Rows, JobRows, Live, Kept, rowVars, targetVars, viewVars, apiVars, workerVars, diskVars, boundVars, histVars
<1>1. CASE RefreshWorker
  BY <1>1 DEF RefreshWorker
<1>2. CASE Fetch
  BY <1>2 DEF Fetch
<1>3. ASSUME NEW i \in Ids, Begin(i) PROVE Kept
  BY <1>3 DEF Begin
<1>4. ASSUME NEW i \in Ids, Skip(i) PROVE Kept
  BY <1>4 DEF Skip
<1>5. ASSUME NEW i \in Ids, BeginError(i) PROVE Kept
  BY <1>5 DEF BeginError
<1> QED BY <1>1, <1>2, <1>3, <1>4, <1>5 DEF Poll

LEMMA KeptLifecycle == RowsInv /\ Lifecycle => Kept
<1> SUFFICES ASSUME RowsInv, Lifecycle PROVE Kept
  OBVIOUS
<1> USE BoundsAssumption DEF Base, TypeOK, Issued, RowsInv, Rows, JobRows, Live, Kept, rowVars, targetVars, viewVars, apiVars, workerVars, diskVars, boundVars, histVars
<1>1. CASE Drain
  BY <1>1 DEF Drain
<1>2. CASE Die
  BY <1>2 DEF Die
<1>3. CASE Start
  BY <1>3 DEF Start, Requeued
<1>4. CASE StartNoReset
  BY <1>4 DEF StartNoReset
<1> QED BY <1>1, <1>2, <1>3, <1>4 DEF Lifecycle

LEMMA KeptJob == ASSUME RowsInv, NEW i \in Ids, JobRun(i) PROVE Kept
<1> USE BoundsAssumption DEF Base, TypeOK, Issued, RowsInv, Rows, JobRows, Live, Kept, JobStep, JobPc, rowVars, targetVars, viewVars, apiVars, workerVars, diskVars, boundVars, histVars
<1>1. CASE Prepare(i)
  BY <1>1 DEF Prepare
<1>2. CASE PrepareFails(i)
  BY <1>2 DEF PrepareFails
<1>3. CASE Write(i)
  BY <1>3 DEF Write
<1>4. CASE RemuxDone(i)
  BY <1>4 DEF RemuxDone
<1>5. CASE RemuxFails(i)
  BY <1>5 DEF RemuxFails
<1>6. CASE Measure(i)
  BY <1>6 DEF Measure
<1>7. CASE MeasureEmpty(i)
  BY <1>7 DEF MeasureEmpty
<1>8. CASE Discard(i)
  BY <1>8 DEF Discard
<1>9. CASE Replace(i)
  BY <1>9 DEF Replace
<1>10. CASE ReplaceFails(i)
  BY <1>10 DEF ReplaceFails
<1>11. CASE MarkReady(i)
  BY <1>11 DEF MarkReady, Marked
<1>12. CASE MarkFailed(i)
  BY <1>12 DEF MarkFailed, Marked
<1>13. CASE MarkError(i)
  BY <1>13 DEF MarkError, Marked
<1>14. CASE Pop(i)
  BY <1>14 DEF Pop
<1> QED BY <1>1, <1>2, <1>3, <1>4, <1>5, <1>6, <1>7, <1>8, <1>9, <1>10, <1>11, <1>12, <1>13, <1>14 DEF JobRun

\* No worker, no restart and no late answer of a job takes a row out of `ready`: only
\* a deletion does, or the mark_failed after a mark_ready that raised.
THEOREM ReadyKept == Spec => ReadyIsKept
<1>1. RowsInv /\ [Next]_vars => [Kept]_vars
  BY KeptRequest, KeptAdmin, KeptPoll, KeptLifecycle, KeptJob DEF Next
<1> QED BY <1>1, RowsAlways, PTL DEF Spec, ReadyIsKept, Kept

-----------------------------------------------------------------------------
(* A downloading row has its task.                                         *)

HeldInv == Base /\ DownloadingIsHeld

LEMMA HeldRequest == HeldInv /\ Request => DownloadingIsHeld'
<1> SUFFICES ASSUME HeldInv, Request PROVE DownloadingIsHeld'
  OBVIOUS
<1> USE BoundsAssumption DEF Base, TypeOK, Issued, Process, HeldInv, DownloadingIsHeld, rowVars, targetVars, viewVars, apiVars, workerVars, diskVars, boundVars, histVars
<1>1. ASSUME NEW r \in Replicas, NEW k \in Keys, Confirm(r, k) PROVE DownloadingIsHeld'
  BY <1>1 DEF Confirm
<1>2. ASSUME NEW k \in Keys, NEW t \in Targets, ClaimInsert(k, t) PROVE DownloadingIsHeld'
  BY <1>2 DEF ClaimInsert, Ids
<1>3. ASSUME NEW k \in Keys, NEW t \in Targets, ClaimRevive(k, t) PROVE DownloadingIsHeld'
  BY <1>3 DEF ClaimRevive, RowsFor
<1>4. ASSUME NEW k \in Keys, NEW t \in Targets, ClaimRefused(k, t) PROVE DownloadingIsHeld'
  BY <1>4 DEF ClaimRefused
<1> QED BY <1>1, <1>2, <1>3, <1>4 DEF Request

LEMMA HeldAdmin == HeldInv /\ Admin => DownloadingIsHeld'
<1> SUFFICES ASSUME HeldInv, Admin PROVE DownloadingIsHeld'
  OBVIOUS
<1> USE BoundsAssumption DEF Base, TypeOK, Issued, Process, HeldInv, DownloadingIsHeld, rowVars, targetVars, viewVars, apiVars, workerVars, diskVars, boundVars, histVars
<1>1. ASSUME NEW r \in Replicas, RefreshReplica(r) PROVE DownloadingIsHeld'
  BY <1>1 DEF RefreshReplica
<1>2. ASSUME NEW r \in Replicas, SetSwitch(r) PROVE DownloadingIsHeld'
  BY <1>2 DEF SetSwitch
<1>3. ASSUME NEW r \in Replicas, NEW t \in Targets, ToggleTarget(r, t) PROVE DownloadingIsHeld'
  BY <1>3 DEF ToggleTarget
<1>4. ASSUME NEW r \in Replicas, NEW t \in Targets, AddTarget(r, t) PROVE DownloadingIsHeld'
  BY <1>4 DEF AddTarget
<1>5. ASSUME NEW r \in Replicas, NEW t \in Targets, DeleteTarget(r, t) PROVE DownloadingIsHeld'
  BY <1>5 DEF DeleteTarget
<1>6. ASSUME NEW i \in Ids, DropRow(i) PROVE DownloadingIsHeld'
  BY <1>6 DEF DropRow
<1>7. ASSUME NEW i \in Ids, DropFile(i) PROVE DownloadingIsHeld'
  BY <1>7 DEF DropFile
<1> QED BY <1>1, <1>2, <1>3, <1>4, <1>5, <1>6, <1>7 DEF Admin

LEMMA HeldPoll == HeldInv /\ Poll => DownloadingIsHeld'
<1> SUFFICES ASSUME HeldInv, Poll PROVE DownloadingIsHeld'
  OBVIOUS
<1> USE BoundsAssumption DEF Base, TypeOK, Issued, Process, HeldInv, DownloadingIsHeld, rowVars, targetVars, viewVars, apiVars, workerVars, diskVars, boundVars, histVars
<1>1. CASE RefreshWorker
  BY <1>1 DEF RefreshWorker
<1>2. CASE Fetch
  BY <1>2 DEF Fetch, Oldest, Fetchable
<1>3. ASSUME NEW i \in Ids, Begin(i) PROVE DownloadingIsHeld'
  BY <1>3 DEF Begin
<1>4. ASSUME NEW i \in Ids, Skip(i) PROVE DownloadingIsHeld'
  BY <1>4 DEF Skip
<1>5. ASSUME NEW i \in Ids, BeginError(i) PROVE DownloadingIsHeld'
  BY <1>5 DEF BeginError
<1> QED BY <1>1, <1>2, <1>3, <1>4, <1>5 DEF Poll

LEMMA HeldLifecycle == HeldInv /\ Lifecycle => DownloadingIsHeld'
<1> SUFFICES ASSUME HeldInv, Lifecycle PROVE DownloadingIsHeld'
  OBVIOUS
<1> USE BoundsAssumption DEF Base, TypeOK, Issued, Process, HeldInv, DownloadingIsHeld, rowVars, targetVars, viewVars, apiVars, workerVars, diskVars, boundVars, histVars
<1>1. CASE Drain
  BY <1>1 DEF Drain
<1>2. CASE Die
  BY <1>2 DEF Die
<1>3. CASE Start
  BY <1>3 DEF Start, Requeued
<1>4. CASE StartNoReset
  BY <1>4 DEF StartNoReset
<1> QED BY <1>1, <1>2, <1>3, <1>4 DEF Lifecycle

LEMMA HeldJob == ASSUME HeldInv, NEW i \in Ids, JobRun(i) PROVE DownloadingIsHeld'
<1> USE BoundsAssumption DEF Base, TypeOK, Issued, Process, HeldInv, DownloadingIsHeld, JobStep, JobPc, rowVars, targetVars, viewVars, apiVars, workerVars, diskVars, boundVars, histVars
<1>1. CASE Prepare(i)
  BY <1>1 DEF Prepare
<1>2. CASE PrepareFails(i)
  BY <1>2 DEF PrepareFails
<1>3. CASE Write(i)
  BY <1>3 DEF Write
<1>4. CASE RemuxDone(i)
  BY <1>4 DEF RemuxDone
<1>5. CASE RemuxFails(i)
  BY <1>5 DEF RemuxFails
<1>6. CASE Measure(i)
  BY <1>6 DEF Measure
<1>7. CASE MeasureEmpty(i)
  BY <1>7 DEF MeasureEmpty
<1>8. CASE Discard(i)
  BY <1>8 DEF Discard
<1>9. CASE Replace(i)
  BY <1>9 DEF Replace
<1>10. CASE ReplaceFails(i)
  BY <1>10 DEF ReplaceFails
<1>11. CASE MarkReady(i)
  BY <1>11 DEF MarkReady, Marked, Live
<1>12. CASE MarkFailed(i)
  BY <1>12 DEF MarkFailed, Marked, Live
<1>13. CASE MarkError(i)
  BY <1>13 DEF MarkError, Marked, Live
<1>14. CASE Pop(i)
  BY <1>14 DEF Pop
<1> QED BY <1>1, <1>2, <1>3, <1>4, <1>5, <1>6, <1>7, <1>8, <1>9, <1>10, <1>11, <1>12, <1>13, <1>14 DEF JobRun

\* While no database call of the worker fails, a row never waits in `downloading`
\* without a task of the running worker that will settle it.
THEOREM DownloadingHeld == Spec => []DownloadingIsHeld
<1>1. Init => HeldInv
  BY BaseInit DEF Init, HeldInv, DownloadingIsHeld
<1>2. HeldInv /\ [Next]_vars => HeldInv'
  <2> SUFFICES ASSUME HeldInv, [Next]_vars PROVE HeldInv'
    OBVIOUS
  <2>1. Base'
    BY BaseNext DEF HeldInv
  <2>2. CASE UNCHANGED vars
    BY <2>1, <2>2 DEF HeldInv, DownloadingIsHeld, vars, rowVars, workerVars, boundVars
  <2>3. CASE Next
    BY <2>1, <2>3, HeldRequest, HeldAdmin, HeldPoll, HeldLifecycle, HeldJob DEF Next, HeldInv
  <2> QED BY <2>2, <2>3
<1> QED BY <1>1, <1>2, PTL DEF Spec, HeldInv

-----------------------------------------------------------------------------
(* The slots.                                                              *)

LEMMA IdsFinite ==
  ASSUME NEW T \in SUBSET Ids
  PROVE  IsFiniteSet(T) /\ Cardinality(T) \in Nat
<1>1. IsFiniteSet(Ids)
  BY BoundsAssumption, FS_Interval DEF Ids
<1>2. IsFiniteSet(T)
  BY <1>1, FS_Subset
<1> QED BY <1>2, FS_CardinalityType

\* A set of ids has a last one.
LEMMA LastExists ==
  ASSUME NEW T \in SUBSET Ids, T # {}
  PROVE  \E m \in T : \A x \in T : x <= m
<1> DEFINE U == {MaxRow - x : x \in T}
<1>1. U \subseteq Nat /\ U # {}
  <2>1. \A x \in T : x \in 1..MaxRow /\ MaxRow - x \in Nat
    BY BoundsAssumption DEF Ids
  <2> QED BY <2>1
<1>2. PICK u \in U : \A y \in U : ~(<<y, u>> \in OpToRel(<, Nat))
  BY <1>1, WFMin, NatLessThanWellFounded, Zenon
<1>3. ASSUME NEW y \in U PROVE u <= y
  <2>1. y \in Nat /\ u \in Nat
    BY <1>1
  <2>2. ~(y < u)
    BY <1>2, <2>1 DEF OpToRel
  <2> QED BY <2>1, <2>2
<1>4. PICK m \in T : u = MaxRow - m
  BY <1>2
<1>5. \A x \in T : MaxRow - m <= MaxRow - x
  BY <1>3, <1>4
<1> QED BY <1>5, BoundsAssumption DEF Ids

\* ORDER BY ... LIMIT n returns at most n rows.
LEMMA OldestBound ==
  ASSUME NEW S \in SUBSET Ids, NEW n \in Nat
  PROVE  Cardinality(Oldest(S, n)) <= n
<1> DEFINE T == Oldest(S, n)
<1>1. T \in SUBSET Ids
  BY DEF Oldest
<1>2. CASE T = {}
  BY <1>2, FS_EmptySet
<1>3. CASE T # {}
  <2>1. PICK m \in T : \A x \in T : x <= m
    BY <1>1, <1>3, LastExists
  <2>2. T \ {m} \subseteq Smaller(S, m)
    BY <1>1, <2>1, BoundsAssumption DEF Oldest, Smaller, Ids
  <2>3. Cardinality(Smaller(S, m)) < n
    BY <2>1 DEF Oldest
  <2>4. Smaller(S, m) \in SUBSET Ids
    BY DEF Smaller
  <2>5. IsFiniteSet(Smaller(S, m)) /\ Cardinality(Smaller(S, m)) \in Nat
    BY <2>4, IdsFinite
  <2>6. Cardinality(T \ {m}) <= Cardinality(Smaller(S, m))
    BY <2>2, <2>5, FS_Subset
  <2>7. IsFiniteSet(T) /\ Cardinality(T) \in Nat
    BY <1>1, IdsFinite
  <2>8. Cardinality(T \ {m}) = Cardinality(T) - 1
    BY <2>1, <2>7, FS_RemoveElement
  <2> QED BY <2>3, <2>5, <2>6, <2>7, <2>8
<1> QED BY <1>2, <1>3

\* Fetched rows count too: a slot is spoken for from the fetch to the pop.
Room == Cardinality(Jobs) + Cardinality(batch) <= Slots

RoomInv == Base /\ Room

LEMMA JobsFinite ==
  ASSUME TypeOK
  PROVE  /\ Jobs \in SUBSET Ids /\ IsFiniteSet(Jobs) /\ Cardinality(Jobs) \in Nat
         /\ IsFiniteSet(batch) /\ Cardinality(batch) \in Nat
  BY IdsFinite DEF Jobs, TypeOK

\* Fewer jobs and fewer fetched rows leave room.
LEMMA RoomShrinks ==
  ASSUME RoomInv, TypeOK', Jobs' \subseteq Jobs, batch' \subseteq batch
  PROVE  Room'
<1>1. Cardinality(Jobs') <= Cardinality(Jobs) /\ Cardinality(batch') <= Cardinality(batch)
  BY JobsFinite, FS_Subset DEF RoomInv, Base
<1>2. Cardinality(Jobs') \in Nat /\ Cardinality(batch') \in Nat
  BY IdsFinite DEF TypeOK, Jobs
<1> QED BY <1>1, <1>2, JobsFinite, SlotsAssumption DEF RoomInv, Room, Base

LEMMA RoomFetch == RoomInv /\ Fetch => Room'
<1> SUFFICES ASSUME RoomInv, Fetch PROVE Room'
  OBVIOUS
<1>1. Free \in Nat
  BY JobsFinite, SlotsAssumption DEF Fetch, Free, RoomInv, Base
<1>2. Fetchable \in SUBSET Ids
  BY DEF Fetchable
<1>3. Cardinality(batch') <= Free
  BY <1>1, <1>2, OldestBound DEF Fetch
<1>4. Jobs' = Jobs
  BY DEF Fetch, Jobs
<1>5. batch' \in SUBSET Ids
  BY <1>2 DEF Fetch, Oldest
<1>6. Cardinality(batch') \in Nat
  BY <1>5, IdsFinite
<1> QED BY <1>3, <1>4, <1>6, JobsFinite, SlotsAssumption DEF Free, Room, RoomInv, Base

LEMMA RoomBegin == ASSUME RoomInv, NEW i \in Ids, Begin(i) PROVE Room'
<1>1. Jobs' = Jobs \cup {i} /\ i \notin Jobs
  BY DEF Begin, Jobs, RoomInv, Base, TypeOK, JobPc
<1>2. batch' = batch \ {i} /\ i \in batch
  BY DEF Begin, NextInBatch
<1>3. Cardinality(Jobs') = Cardinality(Jobs) + 1
  BY <1>1, JobsFinite, FS_AddElement DEF RoomInv, Base
<1>4. Cardinality(batch') = Cardinality(batch) - 1
  BY <1>2, JobsFinite, FS_RemoveElement DEF RoomInv, Base
<1> QED BY <1>3, <1>4, JobsFinite, SlotsAssumption DEF Room, RoomInv, Base

LEMMA RoomNext == RoomInv /\ [Next]_vars => RoomInv'
<1> SUFFICES ASSUME RoomInv, [Next]_vars PROVE RoomInv'
  OBVIOUS
<1>1. Base'
  BY BaseNext DEF RoomInv
<1>2. ASSUME Jobs' \subseteq Jobs, batch' \subseteq batch PROVE RoomInv'
  BY <1>1, <1>2, RoomShrinks DEF RoomInv, Base
<1>3. CASE Request \/ Admin \/ UNCHANGED vars
  <2>1. UNCHANGED <<job, batch>>
    BY <1>3 DEF Request, Admin, Confirm, ClaimInsert, ClaimRevive, ClaimRefused, RefreshReplica,
                SetSwitch, ToggleTarget, AddTarget, DeleteTarget, DropRow, DropFile, vars, workerVars
  <2> QED BY <1>2, <2>1 DEF Jobs
<1>4. CASE RefreshWorker
  BY <1>2, <1>4 DEF RefreshWorker, workerVars, Jobs
<1>5. CASE Fetch
  BY <1>1, <1>5, RoomFetch DEF RoomInv
<1>6. ASSUME NEW i \in Ids, Begin(i) PROVE RoomInv'
  BY <1>1, <1>6, RoomBegin DEF RoomInv
<1>7. ASSUME NEW i \in Ids, Skip(i) \/ BeginError(i) PROVE RoomInv'
  BY <1>2, <1>7 DEF Skip, BeginError, Jobs
<1>8. ASSUME NEW i \in Ids, JobRun(i) PROVE RoomInv'
  <2>1. batch' = batch /\ \A j \in Ids \ {i} : job'[j] = job[j]
    BY <1>8 DEF JobRun, JobStep, Prepare, PrepareFails, Write, RemuxDone, RemuxFails, Measure,
                MeasureEmpty, Discard, Replace, ReplaceFails, MarkReady, MarkFailed, MarkError,
                Pop, RoomInv, Base, TypeOK
  <2>2. job[i] # "idle"
    BY <1>8 DEF JobRun, JobStep, Prepare, PrepareFails, Write, RemuxDone, RemuxFails, Measure,
                MeasureEmpty, Discard, Replace, ReplaceFails, MarkReady, MarkFailed, MarkError, Pop
  <2> QED BY <1>2, <2>1, <2>2 DEF Jobs
<1>9. CASE Lifecycle
  BY <1>2, <1>9 DEF Lifecycle, Drain, Die, Start, StartNoReset, Jobs
<1> QED BY <1>3, <1>4, <1>5, <1>6, <1>7, <1>8, <1>9 DEF Next, Poll

LEMMA RoomAlways == Spec => []RoomInv
<1>1. Init => RoomInv
  <2> SUFFICES ASSUME Init PROVE RoomInv
    OBVIOUS
  <2>1. Jobs = {} /\ batch = {}
    BY DEF Init, Jobs
  <2> QED BY <2>1, BaseInit, FS_EmptySet, SlotsAssumption DEF RoomInv, Room
<1> QED BY <1>1, RoomNext, PTL DEF Spec

\* There are never more remuxes than cache_max_concurrent, for any number of slots and
\* rows: the fetch takes only as many rows as there is room for and nothing else
\* starts a task before the batch is used up.
THEOREM SlotsKept == Spec => []WithinSlots
<1>1. RoomInv => WithinSlots
  BY JobsFinite, SlotsAssumption DEF RoomInv, Room, Base, WithinSlots
<1> QED BY <1>1, RoomAlways, PTL

-----------------------------------------------------------------------------
(* With one slot, a ready row has its file.                                *)

\* With one slot there is one job at most.
OneJob == \A i, j \in Ids : job[i] # "idle" /\ job[j] # "idle" => i = j

\* Where a job may still put something under its final name.
MayPublish == {"prepare", "remux", "measure", "discard", "replace"}

\* From ffmpeg's start to the rename, the .part is the job's own.
OwnPart == \A i \in Ids : job[i] \in {"remux", "measure", "replace"} => part[Path(i)] \subseteq {i}

\* From the rename on, so is the file of a row that is still there.
OwnFile ==
    \A i \in Ids : status[i] = "ready" \/ (job[i] = "markReady" /\ Live(i)) =>
        file[Path(i)] = {i} \/ i \in stolen

\* No job of an earlier row with the same key is still at work when a row is ready.
NoRival ==
    \A i, j \in Ids : status[i] = "ready" /\ i # j /\ keyOf[i] = keyOf[j] => job[j] \notin MayPublish

FileInv == RowsInv /\ OneJob /\ OwnPart /\ OwnFile /\ NoRival

LEMMA OneJobAlways == ASSUME Slots = 1 PROVE RoomInv => OneJob
<1> SUFFICES ASSUME RoomInv, NEW i \in Ids, NEW j \in Ids, job[i] # "idle", job[j] # "idle", i # j
             PROVE  FALSE
  BY DEF OneJob
<1>1. Cardinality(Jobs) <= 1
  BY JobsFinite DEF RoomInv, Room, Base
<1>2. {i, j} \in SUBSET Jobs
  BY DEF Jobs
<1>3. Cardinality({i, j}) = 2
  <2>1. IsFiniteSet({i}) /\ Cardinality({i}) = 1
    BY FS_Singleton
  <2>2. {i} \cup {j} = {i, j} /\ j \notin {i}
    OBVIOUS
  <2>3. Cardinality({i} \cup {j}) = Cardinality({i}) + 1
    BY <2>1, <2>2, FS_AddElement
  <2> QED BY <2>1, <2>2, <2>3
<1> QED BY <1>1, <1>2, <1>3, JobsFinite, FS_Subset DEF RoomInv, Base

LEMMA FileInit == Init => OneJob /\ OwnPart /\ OwnFile /\ NoRival
  BY DEF Init, OneJob, OwnPart, OwnFile, NoRival, Live, MayPublish

LEMMA FileRequest == FileInv /\ Request => (OwnPart /\ OwnFile /\ NoRival)'
<1> SUFFICES ASSUME FileInv, Request PROVE (OwnPart /\ OwnFile /\ NoRival)'
  OBVIOUS
<1> USE BoundsAssumption DEF Base, TypeOK, Issued, Process, RowsInv, Rows, JobRows, UniqueKeys, DropsGone, Live, FileInv, OneJob, OwnPart, OwnFile, NoRival, MayPublish, Path, Paths, rowVars, targetVars, viewVars, apiVars, workerVars, diskVars, boundVars, histVars
<1>1. ASSUME NEW r \in Replicas, NEW k \in Keys, Confirm(r, k) PROVE (OwnPart /\ OwnFile /\ NoRival)'
  BY <1>1 DEF Confirm
<1>2. ASSUME NEW k \in Keys, NEW t \in Targets, ClaimInsert(k, t) PROVE (OwnPart /\ OwnFile /\ NoRival)'
  BY <1>2 DEF ClaimInsert, Ids, RowsFor
<1>3. ASSUME NEW k \in Keys, NEW t \in Targets, ClaimRevive(k, t) PROVE (OwnPart /\ OwnFile /\ NoRival)'
  <2>1. PICK i \in Ids : /\ status[i] = "failed"
                         /\ status' = [status EXCEPT ![i] = "pending"]
                         /\ tgtOf' = [tgtOf EXCEPT ![i] = t]
    BY <1>3 DEF ClaimRevive, RowsFor
  <2>2. UNCHANGED <<keyOf, drops, job, part, file, stolen>>
    BY <1>3 DEF ClaimRevive
  <2>3. job[i] \in {"idle", "pop", "report"}
    BY <2>1
  <2>4. \A j \in Ids \ {i} : status'[j] = status[j] /\ tgtOf'[j] = tgtOf[j]
    BY <2>1
  <2>5. status'[i] = "pending"
    BY <2>1
  <2>6. OwnPart'
    BY <2>2, <2>3, <2>4
  <2>7. OwnFile'
    BY <2>2, <2>3, <2>4, <2>5
  <2>8. NoRival'
    BY <2>2, <2>4, <2>5
  <2> QED BY <2>6, <2>7, <2>8
<1>4. ASSUME NEW k \in Keys, NEW t \in Targets, ClaimRefused(k, t) PROVE (OwnPart /\ OwnFile /\ NoRival)'
  BY <1>4 DEF ClaimRefused
<1> QED BY <1>1, <1>2, <1>3, <1>4 DEF Request

LEMMA FileAdmin == FileInv /\ Admin => (OwnPart /\ OwnFile /\ NoRival)'
<1> SUFFICES ASSUME FileInv, Admin PROVE (OwnPart /\ OwnFile /\ NoRival)'
  OBVIOUS
<1> USE BoundsAssumption DEF Base, TypeOK, Issued, Process, RowsInv, Rows, JobRows, UniqueKeys, DropsGone, Live, FileInv, OneJob, OwnPart, OwnFile, NoRival, MayPublish, Path, Paths, rowVars, targetVars, viewVars, apiVars, workerVars, diskVars, boundVars, histVars
<1>1. ASSUME NEW r \in Replicas, RefreshReplica(r) PROVE (OwnPart /\ OwnFile /\ NoRival)'
  BY <1>1 DEF RefreshReplica
<1>2. ASSUME NEW r \in Replicas, SetSwitch(r) PROVE (OwnPart /\ OwnFile /\ NoRival)'
  BY <1>2 DEF SetSwitch
<1>3. ASSUME NEW r \in Replicas, NEW t \in Targets, ToggleTarget(r, t) PROVE (OwnPart /\ OwnFile /\ NoRival)'
  BY <1>3 DEF ToggleTarget
<1>4. ASSUME NEW r \in Replicas, NEW t \in Targets, AddTarget(r, t) PROVE (OwnPart /\ OwnFile /\ NoRival)'
  BY <1>4 DEF AddTarget
<1>5. ASSUME NEW r \in Replicas, NEW t \in Targets, DeleteTarget(r, t) PROVE (OwnPart /\ OwnFile /\ NoRival)'
  BY <1>5 DEF DeleteTarget
<1>6. ASSUME NEW i \in Ids, DropRow(i) PROVE (OwnPart /\ OwnFile /\ NoRival)'
  BY <1>6 DEF DropRow
<1>7. ASSUME NEW i \in Ids, DropFile(i) PROVE (OwnPart /\ OwnFile /\ NoRival)'
  BY <1>7 DEF DropFile
<1> QED BY <1>1, <1>2, <1>3, <1>4, <1>5, <1>6, <1>7 DEF Admin

\* What os.replace publishes is the job's own.
LEMMA ReplacesOwn == ASSUME OwnPart, NEW i \in Ids, Replace(i) PROVE part[Path(i)] = {i}
<1>1. job[i] = "replace" /\ part[Path(i)] # {}
  BY DEF Replace, JobStep
<1>2. part[Path(i)] \subseteq {i}
  BY <1>1 DEF OwnPart
<1> QED BY <1>1, <1>2

LEMMA FilePoll == FileInv /\ Poll => (OwnPart /\ OwnFile /\ NoRival)'
<1> SUFFICES ASSUME FileInv, Poll PROVE (OwnPart /\ OwnFile /\ NoRival)'
  OBVIOUS
<1> USE BoundsAssumption DEF Base, TypeOK, Issued, Process, RowsInv, Rows, JobRows, UniqueKeys, DropsGone, Live, FileInv, OneJob, OwnPart, OwnFile, NoRival, MayPublish, Path, Paths, rowVars, targetVars, viewVars, apiVars, workerVars, diskVars, boundVars, histVars
<1>1. CASE RefreshWorker
  BY <1>1 DEF RefreshWorker
<1>2. CASE Fetch
  BY <1>2 DEF Fetch, Oldest, Fetchable
<1>3. ASSUME NEW i \in Ids, Begin(i) PROVE (OwnPart /\ OwnFile /\ NoRival)'
  BY <1>3 DEF Begin
<1>4. ASSUME NEW i \in Ids, Skip(i) PROVE (OwnPart /\ OwnFile /\ NoRival)'
  BY <1>4 DEF Skip
<1>5. ASSUME NEW i \in Ids, BeginError(i) PROVE (OwnPart /\ OwnFile /\ NoRival)'
  BY <1>5 DEF BeginError
<1> QED BY <1>1, <1>2, <1>3, <1>4, <1>5 DEF Poll

LEMMA FileLifecycle == FileInv /\ Lifecycle => (OwnPart /\ OwnFile /\ NoRival)'
<1> SUFFICES ASSUME FileInv, Lifecycle PROVE (OwnPart /\ OwnFile /\ NoRival)'
  OBVIOUS
<1> USE BoundsAssumption DEF Base, TypeOK, Issued, Process, RowsInv, Rows, JobRows, UniqueKeys, DropsGone, Live, FileInv, OneJob, OwnPart, OwnFile, NoRival, MayPublish, Path, Paths, rowVars, targetVars, viewVars, apiVars, workerVars, diskVars, boundVars, histVars
<1>1. CASE Drain
  BY <1>1 DEF Drain
<1>2. CASE Die
  BY <1>2 DEF Die
<1>3. CASE Start
  BY <1>3 DEF Start, Requeued
<1>4. CASE StartNoReset
  BY <1>4 DEF StartNoReset
<1> QED BY <1>1, <1>2, <1>3, <1>4 DEF Lifecycle

LEMMA FileJob == ASSUME FileInv, NEW i \in Ids, JobRun(i) PROVE (OwnPart /\ OwnFile /\ NoRival)'
<1> USE BoundsAssumption DEF Base, TypeOK, Issued, Process, RowsInv, Rows, JobRows, UniqueKeys, DropsGone, Live, FileInv, OneJob, OwnPart, OwnFile, NoRival, MayPublish, Path, Paths, JobStep, JobPc, rowVars, targetVars, viewVars, apiVars, workerVars, diskVars, boundVars, histVars
<1>1. CASE Prepare(i)
  BY <1>1 DEF Prepare
<1>2. CASE PrepareFails(i)
  BY <1>2 DEF PrepareFails
<1>3. CASE Write(i)
  BY <1>3 DEF Write
<1>4. CASE RemuxDone(i)
  BY <1>4 DEF RemuxDone
<1>5. CASE RemuxFails(i)
  BY <1>5 DEF RemuxFails
<1>6. CASE Measure(i)
  BY <1>6 DEF Measure
<1>7. CASE MeasureEmpty(i)
  BY <1>7 DEF MeasureEmpty
<1>8. CASE Discard(i)
  BY <1>8 DEF Discard
<1>9. CASE Replace(i)
  <2>1. part[Path(i)] = {i}
    BY <1>9, ReplacesOwn
  <2>2. file' = [file EXCEPT ![Path(i)] = {i}]
    BY <1>9, <2>1 DEF Replace
  <2>3. job' = [job EXCEPT ![i] = "markReady"] /\ \A j \in Ids \ {i} : job[j] = "idle"
    BY <1>9 DEF Replace
  <2>4. UNCHANGED <<status, keyOf, tgtOf, stolen>>
    BY <1>9 DEF Replace
  <2>5. Path(i) \in Paths
    BY <1>9 DEF Replace
  <2>6. \A j \in Ids : status[j] = "ready" => keyOf[j] # keyOf[i]
    BY <1>9 DEF Replace
  <2>7. OwnPart'
    BY <2>3, <2>4
  <2>8. OwnFile'
    BY <2>2, <2>3, <2>4, <2>5, <2>6
  <2>9. NoRival'
    BY <2>3, <2>4
  <2> QED BY <2>7, <2>8, <2>9
<1>10. CASE ReplaceFails(i)
  BY <1>10 DEF ReplaceFails
<1>11. CASE MarkReady(i)
  BY <1>11 DEF MarkReady, Marked
<1>12. CASE MarkFailed(i)
  BY <1>12 DEF MarkFailed, Marked
<1>13. CASE MarkError(i)
  BY <1>13 DEF MarkError, Marked
<1>14. CASE Pop(i)
  BY <1>14 DEF Pop
<1> QED BY <1>1, <1>2, <1>3, <1>4, <1>5, <1>6, <1>7, <1>8, <1>9, <1>10, <1>11, <1>12, <1>13, <1>14 DEF JobRun

\* With one slot, a `ready` row is backed by the file its own ffmpeg wrote, unless the
\* drop of an older entry of the same path took it: over any sequence of claims, drops,
\* target changes, errors, crashes and restarts.
THEOREM ReadyFile == ASSUME Slots = 1 PROVE Spec => []ReadyHasItsFile
<1>1. Init => FileInv
  BY RowsInit, FileInit DEF FileInv
<1>2. FileInv /\ OneJob' /\ [Next]_vars => FileInv'
  <2> SUFFICES ASSUME FileInv, OneJob', [Next]_vars PROVE FileInv'
    OBVIOUS
  <2>1. RowsInv'
    BY RowsNext DEF FileInv
  <2>2. CASE UNCHANGED vars
    BY <2>1, <2>2 DEF FileInv, OwnPart, OwnFile, NoRival, Path, Live, vars, rowVars, workerVars,
                      diskVars, histVars
  <2>3. CASE Next
    BY <2>1, <2>3, FileRequest, FileAdmin, FilePoll, FileLifecycle, FileJob DEF Next, FileInv
  <2> QED BY <2>2, <2>3
<1>3. RoomInv => OneJob
  BY OneJobAlways
<1>4. FileInv => ReadyHasItsFile
  BY DEF FileInv, OwnFile, ReadyHasItsFile
<1> QED BY <1>1, <1>2, <1>3, <1>4, RoomAlways, PTL DEF Spec

=============================================================================
