------------------------------ MODULE MusicProofs ------------------------------
(***************************************************************************)
(* Proofs about the music library's worker and the playlists, each part by *)
(* itself and in the composition: a ready track's file is its own and what *)
(* a member picked, its copy at the CDN is that file, and a playlist that  *)
(* may be skipped as unchanged has the tracks of its snapshot.             *)
(***************************************************************************)
EXTENDS MCMusic, SequenceTheorems, FiniteSetTheorems, TLAPS

-----------------------------------------------------------------------------
(* The operators.                                                          *)

\* A strict order of S, any two elements of which compare.
Orders(Before, S) ==
    /\ \A t \in S : <<t, t>> \notin Before
    /\ \A t, u \in S : t # u => <<t, u>> \in Before \/ <<u, t>> \in Before
    /\ \A t, u, v \in S : <<t, u>> \in Before /\ <<u, v>> \in Before => <<t, v>> \in Before

\* As many as come before t in S.
Rank(S, Before, t) == Cardinality({u \in S : <<u, t>> \in Before})

LEMMA RankRises ==
    ASSUME NEW S, IsFiniteSet(S), NEW Before, Orders(Before, S), NEW t \in S, NEW u \in S,
           <<t, u>> \in Before
    PROVE  Rank(S, Before, t) < Rank(S, Before, u)
<1> DEFINE T == {v \in S : <<v, t>> \in Before}
           U == {v \in S : <<v, u>> \in Before}
<1>1. IsFiniteSet(T) /\ IsFiniteSet(U)
  BY FS_Subset
<1>2. t \notin T /\ T \cup {t} \subseteq U
  BY DEF Orders
<1> HIDE DEF T, U
<1>3. Cardinality(T \cup {t}) = Cardinality(T) + 1 /\ IsFiniteSet(T \cup {t})
  BY <1>1, <1>2, FS_AddElement
<1>4. Cardinality(T \cup {t}) <= Cardinality(U)
  BY <1>1, <1>2, FS_Subset
<1>5. Cardinality(T) \in Nat /\ Cardinality(U) \in Nat
  BY <1>1, FS_CardinalityType
<1>6. Cardinality(T) < Cardinality(U)
  BY <1>3, <1>4, <1>5
<1> QED BY <1>6 DEF Rank, T, U

LEMMA RankIsSmall ==
    ASSUME NEW S, IsFiniteSet(S), NEW Before, Orders(Before, S), NEW t \in S
    PROVE  Rank(S, Before, t) \in 0..(Cardinality(S) - 1)
<1> DEFINE T == {v \in S : <<v, t>> \in Before}
<1>1. IsFiniteSet(T) /\ IsFiniteSet(S \ {t}) /\ Cardinality(S \ {t}) = Cardinality(S) - 1
  BY FS_Subset, FS_RemoveElement
<1>2. T \subseteq S \ {t}
  BY DEF Orders
<1> HIDE DEF T
<1>3. Cardinality(T) <= Cardinality(S \ {t})
  BY <1>1, <1>2, FS_Subset
<1>4. Cardinality(T) \in Nat /\ Cardinality(S) \in Nat
  BY <1>1, FS_CardinalityType
<1>5. Cardinality(T) \in 0..(Cardinality(S) - 1)
  BY <1>1, <1>3, <1>4
<1> QED BY <1>5 DEF Rank, T

\* Every place up to the number of elements is the rank of one.
LEMMA EveryPlaceIsTaken ==
    ASSUME NEW S, IsFiniteSet(S), NEW Before, Orders(Before, S), NEW i \in 1..Cardinality(S)
    PROVE  \E t \in S : Rank(S, Before, t) = i - 1
<1> DEFINE n == Cardinality(S)
           f == [t \in S |-> Rank(S, Before, t)]
<1>1. n \in Nat
  BY FS_CardinalityType
<1>2. IsFiniteSet(0..(n - 1)) /\ Cardinality(0..(n - 1)) = n
  <2>1. 0 \in Int /\ n - 1 \in Int
    BY <1>1
  <2>2. IsFiniteSet(0..(n - 1)) /\ Cardinality(0..(n - 1)) = IF 0 > n - 1 THEN 0 ELSE n - 1 - 0 + 1
    BY <2>1, FS_Interval
  <2> QED BY <2>2, <1>1
<1>3. f \in [S -> 0..(n - 1)]
  BY RankIsSmall
<1>4. \A t, u \in S : t # u => f[t] # f[u]
  <2>1. SUFFICES ASSUME NEW t \in S, NEW u \in S, t # u PROVE f[t] # f[u]
    OBVIOUS
  <2>2. \/ Rank(S, Before, t) < Rank(S, Before, u)
        \/ Rank(S, Before, u) < Rank(S, Before, t)
    BY <2>1, RankRises DEF Orders
  <2>3. f[t] \in Int /\ f[u] \in Int
    BY <1>3
  <2> QED BY <2>2, <2>3
<1> HIDE DEF f, n
<1>5. f \in Injection(S, 0..(n - 1))
  BY <1>3, <1>4 DEF Injection, IsInjective
<1>6. f \in Surjection(S, 0..(n - 1))
  BY <1>2, <1>5, FS_Injection DEF n
<1>7. i - 1 \in 0..(n - 1)
  BY <1>1 DEF n
<1>8. \E t \in S : f[t] = i - 1
  BY <1>6, <1>7 DEF Surjection
<1> QED BY <1>8 DEF f

\* The ordered set is a sequence of its elements, each once.
LEMMA InOrderIs ==
    ASSUME NEW S, IsFiniteSet(S), NEW Before, Orders(Before, S)
    PROVE  /\ InOrder(S, Before) \in Seq(S)
           /\ Len(InOrder(S, Before)) = Cardinality(S)
           /\ \A i, j \in 1..Cardinality(S) : InOrder(S, Before)[i] = InOrder(S, Before)[j] => i = j
<1> DEFINE n == Cardinality(S)
           s == InOrder(S, Before)
<1>1. n \in Nat
  BY FS_CardinalityType
<1>2. ASSUME NEW i \in 1..n PROVE s[i] \in S /\ Rank(S, Before, s[i]) = i - 1
  <2>1. \E t \in S : Rank(S, Before, t) = i - 1
    BY EveryPlaceIsTaken
  <2>2. s[i] = CHOOSE t \in S : Rank(S, Before, t) = i - 1
    BY DEF InOrder, Rank
  <2> QED BY <2>1, <2>2
<1>3. s \in [1..n -> S]
  <2> DEFINE e(i) == CHOOSE t \in S : Cardinality({u \in S : <<u, t>> \in Before}) = i - 1
  <2>1. \A i \in 1..n : s[i] = e(i)
    BY DEF InOrder
  <2>2. \A i \in 1..n : e(i) \in S
    BY <1>2, <2>1
  <2>3. s = [i \in 1..n |-> e(i)]
    BY DEF InOrder
  <2> HIDE DEF s, e
  <2> QED BY <2>2, <2>3
<1> HIDE DEF s, n
<1>4. s \in Seq(S)
  BY <1>1, <1>3
<1>5. Len(s) = n
  BY <1>1, <1>3, <1>4
<1>6. \A i, j \in 1..n : s[i] = s[j] => i = j
  <2>1. SUFFICES ASSUME NEW i \in 1..n, NEW j \in 1..n, s[i] = s[j] PROVE i = j
    OBVIOUS
  <2>2. i - 1 = j - 1
    BY <2>1, <1>2
  <2> QED BY <2>2, <1>1
<1> QED BY <1>4, <1>5, <1>6 DEF s, n

\* The first elements of a sequence.
LEMMA FirstOfIs ==
    ASSUME NEW S, NEW s \in Seq(S), NEW n \in Nat
    PROVE  /\ FirstOf(s, n) \in Seq(S)
           /\ Len(FirstOf(s, n)) <= n /\ Len(FirstOf(s, n)) <= Len(s)
           /\ \A i \in 1..Len(FirstOf(s, n)) : FirstOf(s, n)[i] = s[i]
<1> DEFINE m == IF n < Len(s) THEN n ELSE Len(s)
           f == SubSeq(s, 1, m)
<1>1. m \in Nat /\ m <= n /\ m <= Len(s) /\ Len(s) \in Nat
  OBVIOUS
<1> HIDE DEF m
<1>2. \A i \in 1..m : s[i] \in S
  BY <1>1
<1>3. /\ f \in Seq(S) /\ Len(f) = IF 1 <= m THEN m - 1 + 1 ELSE 0
      /\ \A i \in 1..(m - 1 + 1) : f[i] = s[1 + i - 1]
  BY <1>1, <1>2, SubSeqProperties
<1> HIDE DEF f
<1>4. Len(f) = m
  BY <1>1, <1>3
<1>5. \A i \in 1..m : f[i] = s[i]
  BY <1>1, <1>3
<1> QED BY <1>1, <1>3, <1>4, <1>5 DEF FirstOf, f, m

\* The least of a set of numbers is in it.
LEMMA Least == ASSUME NEW S \in SUBSET Nat, S # {} PROVE Lowest(S) \in S
<1> DEFINE below == OpToRel(<, Nat)
<1>1. IsWellFoundedOn(below, Nat)
  BY NatLessThanWellFounded
<1>2. \A x, y \in Nat : <<y, x>> \in below <=> y < x
  BY DEF OpToRel
<1> HIDE DEF below
<1>3. PICK x \in S : \A y \in S : ~(<<y, x>> \in below)
  BY <1>1, WFMin
<1>4. ASSUME NEW y \in S PROVE x <= y
  <2>1. x \in Nat /\ y \in Nat /\ ~(y < x)
    BY <1>2, <1>3
  <2> QED BY <2>1
<1>5. \E n \in S : \A m \in S : n <= m
  BY <1>4
<1> QED BY <1>5 DEF Lowest

\* There are more numbers to try than names in use.
LEMMA FreePathIs ==
    ASSUME NEW name, IsFiniteSet(DOMAIN share)
    PROVE  /\ FreePath(name) \notin DOMAIN share
           /\ \E k \in Nat : FreePath(name) = <<name, k>>
<1> DEFINE D == DOMAIN share
           n == Cardinality(D) + 1
           free == {k \in 1..n : <<name, k>> \notin D}
           f == [k \in 1..n |-> <<name, k>>]
<1>1. Cardinality(D) \in Nat /\ n \in Nat /\ Cardinality(D) < n
  BY FS_CardinalityType
<1>2. Cardinality(1..n) = n /\ IsFiniteSet(1..n)
  <2>1. 1 \in Int /\ n \in Int
    BY <1>1
  <2>2. IsFiniteSet(1..n) /\ Cardinality(1..n) = IF 1 > n THEN 0 ELSE n - 1 + 1
    BY <2>1, FS_Interval
  <2> QED BY <2>2, <1>1
<1>3. free # {}
  <2>1. SUFFICES ASSUME \A k \in 1..n : <<name, k>> \in D PROVE FALSE
    OBVIOUS
  <2>2. f \in [1..n -> D]
    BY <2>1
  <2>3. \A x, y \in 1..n : f[x] = f[y] => x = y
    OBVIOUS
  <2> HIDE DEF f, n
  <2>4. \E x, y \in 1..n : x # y /\ f[x] = f[y]
    BY <1>1, <1>2, <2>2, FS_PigeonHole
  <2> QED BY <2>3, <2>4
<1>4. free \in SUBSET Nat
  BY <1>1
<1>5. Lowest(free) \in free
  BY <1>3, <1>4, Least
<1>6. FreePath(name) = <<name, Lowest(free)>>
  BY DEF FreePath
<1> QED BY <1>4, <1>5, <1>6

-----------------------------------------------------------------------------
(* The worker: the inductive invariant.                                    *)

\* The stages of a task that will still write to its row's status.
Busy == {"match", "fetch", "tag", "mark"}

\* A process that is down has no task and no batch; a batch belongs to its stage of the poll loop,
\* and so does what is being sent.
PollHolds ==
    /\ ~up => poll = "idle" /\ \A t \in Tracks : jobs[t].at = "none"
    /\ poll # "claim" => todo = <<>>
    /\ poll \in {"idle", "claim"} => copying = <<>>
    /\ poll \in {"copy", "put", "mark"} => copying # <<>>
    /\ poll = "put" => sending \in Audio

\* The tasks and the rows that were fetched for claiming fit the slots together.
SlotsHold == Cardinality(Running) + Len(todo) <= Slots

\* A working row has a task that has not written its outcome, a ready row has none and leads to a
\* path; a task that fetches has a recording, and one that has fetched it a path;
\* there is no task of a row nobody inserted.
TaskHolds(t) ==
    /\ up /\ row[t].status = "working" => jobs[t].at \in Busy
    /\ row[t].status = "ready" => jobs[t].at \notin Busy /\ row[t].path \in Paths
    /\ jobs[t].at \in {"fetch", "tag", "mark"} => jobs[t].url \in Urls
    /\ jobs[t].at \in {"tag", "mark"} => jobs[t].path \in Paths
    /\ row[t].status = "absent" => row[t].url = NoUrl /\ jobs[t].at = "none"

\* Nor is a row worked on that is being copied, for as long as the copying lasts.
CopyingHolds == \A i \in 1..Len(copying) : jobs[copying[i].id].at \notin Busy

\* A ready row's own audio at path p of the share.
Owns(t, p) == row[t].status = "ready" /\ row[t].path = p /\ p \in DOMAIN share /\ share[p][1] = t

\* What is on its way to the CDN is what the row leads to, and what any row marked as mirrored at
\* that path leads to; once it is there, the same holds of the object.
MirrorHolds(t) ==
    row[t].mirrored /\ Owns(t, row[t].path) =>
        row[t].path \in DOMAIN cdn /\ cdn[row[t].path] = share[row[t].path]

SendingHolds(t, h) ==
    Owns(t, h.path) /\ (row[t].mirrored \/ t = h.id) => sending = share[h.path]

SentHolds(h) == Owns(h.id, h.path) => h.path \in DOMAIN cdn /\ cdn[h.path] = share[h.path]

CdnHolds ==
    /\ \A t \in Tracks : MirrorHolds(t)
    /\ poll = "put" => \A t \in Tracks : SendingHolds(t, Head(copying))
    /\ poll = "mark" => SentHolds(Head(copying))

WorkerInv ==
    /\ TypeOK /\ IsFiniteSet(DOMAIN share)
    /\ PollHolds /\ SlotsHold /\ \A t \in Tracks : TaskHolds(t)
    /\ CopyingHolds /\ CdnHolds

\* There are no more tasks than tracks.
LEMMA RunningIsFinite ==
    /\ IsFiniteSet(Running) /\ Cardinality(Running) \in Nat
    /\ IsFiniteSet(Running') /\ Cardinality(Running') \in Nat
<1>1. Running \subseteq Tracks /\ Running' \subseteq Tracks
  BY DEF Running
<1>2. IsFiniteSet(Running) /\ IsFiniteSet(Running')
  BY <1>1, TracksAssumption, FS_Subset
<1> QED BY <1>2, FS_CardinalityType

\* The tasks that ran are those that run, or more.
LEMMA FewerRun ==
    ASSUME Running' \subseteq Running
    PROVE  Cardinality(Running') <= Cardinality(Running)
  BY RunningIsFinite, FS_Subset

\* Sequences of fetched rows, and what is left of them.
LEMMA BatchIs ==
    ASSUME NEW S, NEW s \in Seq(S), s # <<>>
    PROVE  /\ Head(s) \in S /\ Head(s) = s[1] /\ Tail(s) \in Seq(S)
           /\ Len(s) \in Nat \ {0} /\ Len(Tail(s)) = Len(s) - 1
           /\ \A i \in 1..Len(Tail(s)) : i + 1 \in 1..Len(s) /\ Tail(s)[i] = s[i + 1]
<1>1. Len(s) \in Nat \ {0}
  BY EmptySeq
<1>2. Len(Tail(s)) = Len(s) - 1 /\ Tail(s) \in Seq(S) /\ Head(s) \in S
  BY HeadTailProperties
<1>3. \A i \in 1..Len(Tail(s)) : Tail(s)[i] = s[i + 1]
  BY HeadTailProperties
<1> QED BY <1>1, <1>2, <1>3

LEMMA CopyingTyped ==
    ASSUME WorkerInv
    PROVE  /\ Len(copying) \in Nat
           /\ \A i \in 1..Len(copying) : copying[i].id \in Tracks /\ copying[i].path \in Paths
           /\ copying # <<>> =>
                 /\ 1 \in 1..Len(copying) /\ Head(copying) = copying[1]
                 /\ Head(copying).id \in Tracks /\ Head(copying).path \in Paths
<1> DEFINE C == [id : Tracks, path : Paths]
<1>1. copying \in Seq(C)
  BY DEF WorkerInv, TypeOK
<1>2. \A c \in C : c.id \in Tracks /\ c.path \in Paths
  OBVIOUS
<1> HIDE DEF C
<1>3. Len(copying) \in Nat /\ \A i \in 1..Len(copying) : copying[i] \in C
  BY <1>1
<1>4. ASSUME copying # <<>> PROVE 1 \in 1..Len(copying) /\ Head(copying) = copying[1] /\ Head(copying) \in C
  BY <1>1, <1>4, BatchIs
<1> QED BY <1>2, <1>3, <1>4

\* A step of one track's row or task that leaves the share and the poll loop alone.
LEMMA OneTrack ==
    ASSUME WorkerInv, NEW t \in Tracks, NEW q \in Row, NEW j \in Job,
           row' = [row EXCEPT ![t] = q], jobs' = [jobs EXCEPT ![t] = j],
           held' \subseteq {u \in Tracks : row'[u].status # "absent"},
           paused' \in BOOLEAN, edits' \in 0..MaxEdit,
           UNCHANGED <<fileVars, up, pollVars, stops, vanished>>,
           jobs[t].at = "none" => j.at = "none",
           j.at \in Busy => jobs[t].at \in Busy,
           TaskHolds(t)',
           q.status = "ready" => q = row[t] \/ (~q.mirrored /\ jobs[t].at \in Busy)
    PROVE  WorkerInv'
<1>1. /\ row \in [Tracks -> Row] /\ jobs \in [Tracks -> Job]
      /\ row' \in [Tracks -> Row] /\ jobs' \in [Tracks -> Job]
      /\ row'[t] = q /\ jobs'[t] = j
      /\ \A u \in Tracks \ {t} : row'[u] = row[u] /\ jobs'[u] = jobs[u]
  BY DEF WorkerInv, TypeOK
<1>2. UNCHANGED <<share, cdn, up, poll, todo, copying, sending, stops, vanished>>
  BY DEF fileVars, pollVars
<1>3. TypeOK'
  BY <1>1, <1>2 DEF WorkerInv, TypeOK
<1>4. IsFiniteSet(DOMAIN share)'
  BY <1>2 DEF WorkerInv
<1>5. PollHolds'
  BY <1>1, <1>2 DEF WorkerInv, PollHolds
<1>6. SlotsHold'
  <2>1. Running' \subseteq Running
    BY <1>1 DEF Running
  <2>2. Len(todo) \in Nat
    BY DEF WorkerInv, TypeOK
  <2> QED BY <1>2, <2>1, <2>2, FewerRun, RunningIsFinite, NumbersAssumption DEF WorkerInv, SlotsHold
<1>7. \A u \in Tracks : TaskHolds(u)'
  BY <1>1, <1>2 DEF WorkerInv, TaskHolds
<1>8. CopyingHolds'
  <2>1. SUFFICES ASSUME NEW i \in 1..Len(copying) PROVE jobs'[copying[i].id].at \notin Busy
    BY <1>2 DEF CopyingHolds
  <2>2. copying[i].id \in Tracks
    BY CopyingTyped
  <2> QED BY <1>1, <2>2 DEF WorkerInv, CopyingHolds
<1>9. CdnHolds'
  <2>2. ASSUME NEW u \in Tracks PROVE MirrorHolds(u)'
    <3>1. SUFFICES ASSUME row'[u].mirrored, Owns(u, row[u].path)' PROVE MirrorHolds(u)'
      BY DEF MirrorHolds, Owns
    <3>2. row'[u].status = "ready"
      BY <3>1 DEF Owns
    <3>3. row'[u] = row[u]
      BY <1>1, <3>1, <3>2
    <3> QED BY <3>3, <1>2, <1>1 DEF WorkerInv, CdnHolds, MirrorHolds, Owns
  <2>3. ASSUME poll = "put" \/ poll = "mark"
        PROVE  /\ Head(copying).id \in Tracks /\ Head(copying).path \in Paths
               /\ jobs[Head(copying).id].at \notin Busy
    <3>1. copying # <<>>
      BY <2>3 DEF WorkerInv, PollHolds
    <3> QED BY <3>1, CopyingTyped DEF WorkerInv, CopyingHolds
  <2>4. ASSUME poll = "put", NEW u \in Tracks PROVE SendingHolds(u, Head(copying))'
    <3>1. SUFFICES ASSUME Owns(u, Head(copying).path)', row'[u].mirrored \/ u = Head(copying).id
                   PROVE  sending = share[Head(copying).path]
      BY <1>2 DEF SendingHolds
    <3>2. row'[u] = row[u]
      BY <1>1, <2>3, <2>4, <3>1 DEF Owns
    <3> QED BY <1>2, <2>4, <3>1, <3>2 DEF WorkerInv, CdnHolds, SendingHolds, Owns
  <2>5. ASSUME poll = "mark" PROVE SentHolds(Head(copying))'
    <3> DEFINE h == Head(copying)
    <3>1. SUFFICES ASSUME Owns(h.id, h.path)' PROVE h.path \in DOMAIN cdn /\ cdn[h.path] = share[h.path]
      BY <1>2 DEF SentHolds
    <3>2. h.id \in Tracks /\ row'[h.id] = row[h.id]
      BY <1>1, <1>2, <2>3, <2>5, <3>1 DEF Owns
    <3> QED BY <1>2, <2>5, <3>1, <3>2 DEF WorkerInv, CdnHolds, SentHolds, Owns
  <2> QED BY <1>2, <2>2, <2>4, <2>5 DEF CdnHolds
<1> QED BY <1>3, <1>4, <1>5, <1>6, <1>7, <1>8, <1>9 DEF WorkerInv
-----------------------------------------------------------------------------
(* The invariant of a worker whose files nobody deletes.                   *)

\* A task's row is working and has the recording that the task fetches; a task that is done has
\* left its row ready, or picked again.
RowHolds(t) ==
    /\ jobs[t].at \in Busy => row[t].status = "working"
    /\ jobs[t].at \in {"fetch", "tag", "mark"} => jobs[t].url = row[t].url
    /\ jobs[t].at = "dirty" =>
          row[t].status = "ready" \/ (row[t].status = "pending" /\ row[t].attempts = 0)

\* A path is free until its task publishes, and afterwards it holds that task's recording; so does
\* the path of a ready row.
PathHolds(t) ==
    /\ jobs[t].at = "tag" => jobs[t].path \notin DOMAIN share /\ jobs[t].path[1] = NameOf[t]
    /\ jobs[t].at = "mark" =>
          jobs[t].path \in DOMAIN share /\ share[jobs[t].path] = <<t, jobs[t].url>>
    /\ row[t].status = "ready" =>
          row[t].path \in DOMAIN share /\ share[row[t].path] = <<t, row[t].url>>

\* Rows that were fetched for claiming are as they were read, and different ones.
TodoHolds ==
    /\ \A i \in 1..Len(todo) :
          row[todo[i].id].status = "pending" /\ row[todo[i].id].url = todo[i].url
    /\ \A i, j \in 1..Len(todo) : todo[i].id = todo[j].id => i = j

\* The files of a batch to copy are there.
FilesHold == \A i \in 1..Len(copying) : copying[i].path \in DOMAIN share

Undisturbed ==
    vanished = 0 =>
        (\A t \in Tracks : RowHolds(t) /\ PathHolds(t)) /\ TodoHolds /\ FilesHold

\* Two tasks cannot choose the same path at the same time.
Apart == Slots = 1 \/ \A t, u \in Tracks : NameOf[t] = NameOf[u] => t = u

\* Members pick recordings only for tracks that no task works on, or is about to.
Settling == PickStatuses \subseteq Settled

\* What every step keeps: the first part whatever the constants are.
Kept == WorkerInv' /\ (Apart /\ Settling /\ Undisturbed => Undisturbed')

LEMMA TodoTyped ==
    ASSUME WorkerInv
    PROVE  /\ Len(todo) \in Nat
           /\ \A i \in 1..Len(todo) : todo[i].id \in Tracks /\ todo[i].url \in Urls \cup {NoUrl}
           /\ todo # <<>> =>
                 /\ 1 \in 1..Len(todo) /\ Head(todo) = todo[1]
                 /\ Head(todo).id \in Tracks /\ Head(todo).url \in Urls \cup {NoUrl}
<1> DEFINE C == [id : Tracks, url : Urls \cup {NoUrl}]
<1>1. todo \in Seq(C)
  BY DEF WorkerInv, TypeOK
<1>2. \A c \in C : c.id \in Tracks /\ c.url \in Urls \cup {NoUrl}
  OBVIOUS
<1> HIDE DEF C
<1>3. Len(todo) \in Nat /\ \A i \in 1..Len(todo) : todo[i] \in C
  BY <1>1
<1>4. ASSUME todo # <<>> PROVE 1 \in 1..Len(todo) /\ Head(todo) = todo[1] /\ Head(todo) \in C
  BY <1>1, <1>4, BatchIs
<1> QED BY <1>2, <1>3, <1>4

\* A step of one track's row or task, again.
LEMMA OneTrackRests ==
    ASSUME WorkerInv, Undisturbed, NEW t \in Tracks, NEW q \in Row, NEW j \in Job,
           row' = [row EXCEPT ![t] = q], jobs' = [jobs EXCEPT ![t] = j],
           UNCHANGED <<fileVars, pollVars, vanished>>,
           vanished = 0 =>
              /\ RowHolds(t)' /\ PathHolds(t)'
              /\ row[t].status = "pending" => q.status = "pending" /\ q.url = row[t].url
    PROVE  Undisturbed'
<1>1. /\ row'[t] = q /\ jobs'[t] = j
      /\ \A u \in Tracks \ {t} : row'[u] = row[u] /\ jobs'[u] = jobs[u]
  BY DEF WorkerInv, TypeOK
<1>2. UNCHANGED <<share, todo, copying, vanished>>
  BY DEF fileVars, pollVars
<1>3. SUFFICES ASSUME vanished = 0
               PROVE  (\A u \in Tracks : RowHolds(u)' /\ PathHolds(u)') /\ TodoHolds' /\ FilesHold'
  BY <1>2 DEF Undisturbed
<1>4. \A u \in Tracks \ {t} : RowHolds(u)' /\ PathHolds(u)'
  BY <1>1, <1>2, <1>3 DEF Undisturbed, RowHolds, PathHolds
<1>5. FilesHold'
  BY <1>2, <1>3 DEF Undisturbed, FilesHold
<1>6. TodoHolds'
  <2>1. ASSUME NEW i \in 1..Len(todo)
        PROVE  row'[todo[i].id].status = "pending" /\ row'[todo[i].id].url = todo[i].url
    <3>1. todo[i].id \in Tracks
      BY TodoTyped
    <3>2. row[todo[i].id].status = "pending" /\ row[todo[i].id].url = todo[i].url
      BY <1>3 DEF Undisturbed, TodoHolds
    <3> QED BY <1>1, <1>3, <3>1, <3>2
  <2> QED BY <1>2, <1>3, <2>1 DEF Undisturbed, TodoHolds
<1> QED BY <1>3, <1>4, <1>5, <1>6

-----------------------------------------------------------------------------
(* The steps of a task.                                                    *)

LEMMA TrackIs ==
    ASSUME WorkerInv, NEW t \in Tracks
    PROVE  /\ row[t] \in Row /\ jobs[t] \in Job /\ TaskHolds(t)
           /\ row[t].status \in Statuses /\ row[t].url \in Urls \cup {NoUrl}
           /\ row[t].manual \in BOOLEAN /\ row[t].attempts \in Nat
           /\ row[t].path \in Paths \cup {NoPath} /\ row[t].mirrored \in BOOLEAN
           /\ jobs[t].at \in {"none", "match", "fetch", "tag", "mark", "dirty", "end"}
           /\ jobs[t].url \in Urls \cup {NoUrl} /\ jobs[t].path \in Paths \cup {NoPath}
           /\ edits \in 0..MaxEdit /\ paused \in BOOLEAN
           /\ held \subseteq {u \in Tracks : row[u].status # "absent"}
<1>1. /\ row[t] \in Row /\ jobs[t] \in Job /\ TaskHolds(t)
      /\ edits \in 0..MaxEdit /\ paused \in BOOLEAN
      /\ held \subseteq {u \in Tracks : row[u].status # "absent"}
  BY DEF WorkerInv, TypeOK
<1> QED BY <1>1 DEF Row, Job

\* Rows that are there stay so when one of them gets another status.
LEMMA HeldStays ==
    ASSUME WorkerInv, NEW t \in Tracks, NEW q \in Row, row' = [row EXCEPT ![t] = q],
           held' = held, row[t].status # "absent" => q.status # "absent"
    PROVE  held' \subseteq {u \in Tracks : row'[u].status # "absent"}
<1>1. /\ row'[t] = q /\ \A u \in Tracks \ {t} : row'[u] = row[u]
      /\ held \subseteq {u \in Tracks : row[u].status # "absent"}
  BY DEF WorkerInv, TypeOK
<1> QED BY <1>1

\* The task ends, and the row gets a status that says why.
LEMMA Drops ==
    ASSUME WorkerInv, NEW t \in Tracks, NEW s \in {"review", "unmatched", "failed", "pending"},
           jobs[t].at \in Busy \cup {"dirty"},
           jobs[t].at = "dirty" => s = IF row[t].attempts >= MaxAttempts THEN "failed" ELSE "pending",
           SetStatus(t, s), JobAt(t, "end"), paused' \in BOOLEAN,
           UNCHANGED <<held, fileVars, up, pollVars, boundVars>>
    PROVE  Kept
<1> DEFINE q == [row[t] EXCEPT !.status = s]
           j == [jobs[t] EXCEPT !.at = "end"]
<1>1. TaskHolds(t) /\ row[t].attempts \in Nat /\ edits \in 0..MaxEdit
  BY TrackIs
<1>2. /\ q \in Row /\ q.status = s /\ q.url = row[t].url
      /\ j \in Job /\ j.at = "end"
  BY TrackIs DEF Row, Job, Statuses, Settled
<1>3. row' = [row EXCEPT ![t] = q] /\ jobs' = [jobs EXCEPT ![t] = j]
  BY DEF SetStatus, JobAt, WorkerInv, TypeOK
<1>4. row \in [Tracks -> Row] /\ jobs \in [Tracks -> Job]
  BY DEF WorkerInv, TypeOK
<1> HIDE DEF q, j
<1>5. row'[t] = q /\ jobs'[t] = j
  BY <1>3, <1>4
<1>6. TaskHolds(t)'
  BY <1>2, <1>5 DEF TaskHolds, Busy
<1>7. UNCHANGED <<held, up, edits, stops, vanished>>
  BY DEF boundVars
<1>8. held' \subseteq {u \in Tracks : row'[u].status # "absent"}
  BY <1>2, <1>3, <1>7, HeldStays
<1>9. jobs[t].at # "none" /\ j.at \notin Busy /\ q.status # "ready"
  BY <1>2 DEF Busy
<1>10. WorkerInv'
  BY <1>1, <1>2, <1>3, <1>6, <1>7, <1>8, <1>9, OneTrack
<1>11. ASSUME Undisturbed PROVE Undisturbed'
  <2>1. SUFFICES ASSUME vanished = 0
                 PROVE  /\ RowHolds(t)' /\ PathHolds(t)'
                        /\ row[t].status = "pending" => q.status = "pending"
    BY <1>2, <1>3, <1>7, <1>11, OneTrackRests
  <2>2. RowHolds(t)' /\ PathHolds(t)'
    BY <1>2, <1>5 DEF RowHolds, PathHolds, Busy
  <2>3. ASSUME row[t].status = "pending" PROVE s = "pending"
    <3>1. jobs[t].at \notin Busy /\ row[t].attempts = 0
      BY <1>11, <2>1, <2>3 DEF Undisturbed, RowHolds
    <3> QED BY <3>1, NumbersAssumption
  <2> QED BY <1>2, <2>2, <2>3
<1> QED BY <1>10, <1>11 DEF Kept

LEMMA RequeueIs ==
    ASSUME NEW t \in Tracks, Requeue(t)
    PROVE  \E s \in {"failed", "pending"} :
              SetStatus(t, s) /\ s = IF row[t].attempts >= MaxAttempts THEN "failed" ELSE "pending"
  BY DEF Requeue

LEMMA MatchUnsureKeeps == ASSUME WorkerInv, NEW t \in Tracks, MatchUnsure(t) PROVE Kept
<1>1. PICK s \in {"review", "unmatched"} : SetStatus(t, s)
  BY DEF MatchUnsure
<1>2. /\ jobs[t].at = "match" /\ JobAt(t, "end") /\ paused' = paused
      /\ UNCHANGED <<held, fileVars, up, pollVars, boundVars>>
  BY DEF MatchUnsure
<1>3. paused \in BOOLEAN
  BY TrackIs
<1> QED BY <1>1, <1>2, <1>3, Drops DEF Busy

LEMMA GivesUpKeeps == ASSUME WorkerInv, NEW t \in Tracks, GivesUp(t) PROVE Kept
<1>1. /\ jobs[t].at \in {"match", "fetch", "tag"} /\ JobAt(t, "end") /\ paused' = paused
      /\ SetStatus(t, "failed")
      /\ UNCHANGED <<held, fileVars, up, pollVars, boundVars>>
  BY DEF GivesUp
<1>2. paused \in BOOLEAN
  BY TrackIs
<1> QED BY <1>1, <1>2, Drops DEF Busy

LEMMA RateLimitedKeeps == ASSUME WorkerInv, NEW t \in Tracks, RateLimited(t) PROVE Kept
<1>1. /\ jobs[t].at \in {"match", "fetch"} /\ JobAt(t, "end") /\ paused' = TRUE
      /\ Requeue(t)
      /\ UNCHANGED <<held, fileVars, up, pollVars, boundVars>>
  BY DEF RateLimited
<1>2. PICK s \in {"failed", "pending"} :
        SetStatus(t, s) /\ s = IF row[t].attempts >= MaxAttempts THEN "failed" ELSE "pending"
  BY <1>1, RequeueIs
<1> QED BY <1>1, <1>2, Drops DEF Busy

LEMMA CrashesKeeps == ASSUME WorkerInv, NEW t \in Tracks, Crashes(t) PROVE Kept
<1>1. /\ jobs[t].at \in {"match", "fetch", "tag", "mark", "dirty"} /\ JobAt(t, "end")
      /\ Requeue(t) /\ paused' = paused
      /\ UNCHANGED <<held, fileVars, up, pollVars, boundVars>>
  BY DEF Crashes
<1>2. PICK s \in {"failed", "pending"} :
        SetStatus(t, s) /\ s = IF row[t].attempts >= MaxAttempts THEN "failed" ELSE "pending"
  BY <1>1, RequeueIs
<1>3. paused \in BOOLEAN
  BY TrackIs
<1> QED BY <1>1, <1>2, <1>3, Drops DEF Busy

\* A step that changes the task alone.
LEMMA OneJob ==
    ASSUME WorkerInv, NEW t \in Tracks, NEW j \in Job, jobs' = [jobs EXCEPT ![t] = j],
           UNCHANGED <<dbVars, fileVars, up, paused, pollVars, boundVars>>,
           jobs[t].at = "none" => j.at = "none", j.at \in Busy => jobs[t].at \in Busy, TaskHolds(t)',
           Undisturbed /\ vanished = 0 => RowHolds(t)' /\ PathHolds(t)'
    PROVE  Kept
<1>1. row[t] \in Row /\ edits \in 0..MaxEdit /\ paused \in BOOLEAN
  BY TrackIs
<1>2. row' = row /\ held' = held /\ UNCHANGED <<fileVars, up, paused, pollVars, edits, stops, vanished>>
  BY DEF dbVars, boundVars
<1>3. row' = [row EXCEPT ![t] = row[t]]
  BY <1>2 DEF WorkerInv, TypeOK
<1>4. held' \subseteq {u \in Tracks : row'[u].status # "absent"}
  BY <1>2, TrackIs
<1>5. WorkerInv'
  BY <1>1, <1>2, <1>3, <1>4, OneTrack
<1>6. ASSUME Undisturbed PROVE Undisturbed'
  BY <1>1, <1>2, <1>3, <1>6, OneTrackRests
<1> QED BY <1>5, <1>6 DEF Kept

LEMMA EndsKeeps == ASSUME WorkerInv, NEW t \in Tracks, Ends(t) PROVE Kept
<1>1. /\ jobs[t].at = "end" /\ jobs' = [jobs EXCEPT ![t] = NoJob]
      /\ UNCHANGED <<dbVars, fileVars, up, paused, pollVars, boundVars>>
  BY DEF Ends
<1>2. NoJob \in Job /\ NoJob.at = "none"
  BY DEF NoJob, Job
<1>3. /\ TaskHolds(t) /\ jobs'[t] = NoJob /\ row' = row /\ up' = up
      /\ share' = share
  BY <1>1, TrackIs DEF WorkerInv, TypeOK, dbVars, fileVars
<1>4. TaskHolds(t)'
  BY <1>1, <1>2, <1>3 DEF TaskHolds, Busy
<1>5. ASSUME Undisturbed, vanished = 0 PROVE RowHolds(t)' /\ PathHolds(t)'
  BY <1>2, <1>3, <1>5 DEF Undisturbed, RowHolds, PathHolds, Busy
<1> QED BY <1>1, <1>2, <1>4, <1>5, OneJob DEF Busy

LEMMA PlaylistsFoundKeeps == ASSUME WorkerInv, NEW t \in Tracks, PlaylistsFound(t) PROVE Kept
<1> DEFINE j == [jobs[t] EXCEPT !.at = "end"]
<1>1. /\ jobs[t].at = "dirty" /\ JobAt(t, "end")
      /\ UNCHANGED <<dbVars, fileVars, up, paused, pollVars, boundVars>>
  BY DEF PlaylistsFound
<1>2. j \in Job /\ j.at = "end"
  BY TrackIs DEF Job
<1>3. jobs' = [jobs EXCEPT ![t] = j]
  BY <1>1 DEF JobAt
<1> HIDE DEF j
<1>4. TaskHolds(t) /\ jobs'[t] = j /\ row' = row /\ up' = up /\ share' = share
  BY <1>1, <1>3, TrackIs DEF WorkerInv, TypeOK, dbVars, fileVars
<1>5. TaskHolds(t)'
  BY <1>1, <1>2, <1>4 DEF TaskHolds, Busy
<1>6. ASSUME Undisturbed, vanished = 0 PROVE RowHolds(t)' /\ PathHolds(t)'
  BY <1>2, <1>4, <1>6 DEF Undisturbed, RowHolds, PathHolds, Busy
<1> QED BY <1>1, <1>2, <1>3, <1>5, <1>6, OneJob DEF Busy

LEMMA FetchedKeeps == ASSUME WorkerInv, NEW t \in Tracks, Fetched(t) PROVE Kept
<1> DEFINE p == FreePath(NameOf[t])
           j == [jobs[t] EXCEPT !.at = "tag", !.path = p]
<1>1. /\ jobs[t].at = "fetch" /\ jobs' = [jobs EXCEPT ![t] = j]
      /\ UNCHANGED <<dbVars, fileVars, up, paused, pollVars, boundVars>>
  BY DEF Fetched, WorkerInv, TypeOK
<1>2. p \notin DOMAIN share /\ p \in Paths /\ p[1] = NameOf[t]
  BY FreePathIs, NamesAssumption DEF WorkerInv, Paths
<1> HIDE DEF p
<1>3. j \in Job /\ j.at = "tag" /\ j.path = p /\ j.url = jobs[t].url
  BY <1>2, TrackIs DEF Job
<1> HIDE DEF j
<1>4. TaskHolds(t) /\ jobs'[t] = j /\ row' = row /\ up' = up /\ share' = share
  BY <1>1, TrackIs DEF WorkerInv, TypeOK, dbVars, fileVars
<1>5. TaskHolds(t)'
  BY <1>1, <1>2, <1>3, <1>4 DEF TaskHolds, Busy
<1>6. ASSUME Undisturbed, vanished = 0 PROVE RowHolds(t)' /\ PathHolds(t)'
  BY <1>1, <1>2, <1>3, <1>4, <1>6 DEF Undisturbed, RowHolds, PathHolds, Busy
<1> QED BY <1>1, <1>3, <1>5, <1>6, OneJob DEF Busy

LEMMA MatchFoundKeeps == ASSUME WorkerInv, NEW t \in Tracks, MatchFound(t) PROVE Kept
<1>1. PICK u \in Urls : /\ row' = [row EXCEPT ![t].url = u]
                        /\ jobs' = [jobs EXCEPT ![t].at = "fetch", ![t].url = u]
  BY DEF MatchFound
<1>2. /\ jobs[t].at = "match" /\ held' = held /\ paused' = paused
      /\ UNCHANGED <<fileVars, up, pollVars, edits, stops, vanished>> /\ share' = share /\ up' = up
  BY DEF MatchFound, boundVars, fileVars
<1> DEFINE q == [row[t] EXCEPT !.url = u]
           j == [jobs[t] EXCEPT !.at = "fetch", !.url = u]
<1>3. q \in Row /\ q.status = row[t].status /\ q.url = u /\ q.path = row[t].path
  BY TrackIs DEF Row
<1>4. j \in Job /\ j.at = "fetch" /\ j.url = u
  BY TrackIs DEF Job
<1>5. row' = [row EXCEPT ![t] = q] /\ jobs' = [jobs EXCEPT ![t] = j]
  BY <1>1 DEF WorkerInv, TypeOK
<1> HIDE DEF q, j
<1>6. row'[t] = q /\ jobs'[t] = j /\ TaskHolds(t)
  BY <1>5, TrackIs DEF WorkerInv, TypeOK
<1>7. TaskHolds(t)' /\ q.status # "ready"
  BY <1>2, <1>3, <1>4, <1>6 DEF TaskHolds, Busy
<1>8. held' \subseteq {v \in Tracks : row'[v].status # "absent"}
  BY <1>2, <1>3, <1>5, HeldStays
<1>9. WorkerInv'
  BY <1>2, <1>3, <1>4, <1>5, <1>7, <1>8, OneTrack, TrackIs DEF Busy
<1>10. ASSUME Undisturbed, vanished = 0
       PROVE  RowHolds(t)' /\ PathHolds(t)' /\ row[t].status # "pending"
  BY <1>2, <1>3, <1>4, <1>6, <1>7, <1>10 DEF Undisturbed, RowHolds, PathHolds, Busy
<1>11. ASSUME Undisturbed PROVE Undisturbed'
  BY <1>2, <1>3, <1>4, <1>5, <1>10, <1>11, OneTrackRests
<1> QED BY <1>9, <1>11 DEF Kept

LEMMA MarkReadyKeeps == ASSUME WorkerInv, NEW t \in Tracks, MarkReady(t) PROVE Kept
<1> DEFINE q == [row[t] EXCEPT !.status = "ready", !.path = jobs[t].path, !.mirrored = FALSE]
           j == [jobs[t] EXCEPT !.at = "dirty"]
<1>1. /\ jobs[t].at = "mark" /\ held' = held /\ paused' = paused
      /\ UNCHANGED <<fileVars, up, pollVars, edits, stops, vanished>> /\ share' = share /\ up' = up
  BY DEF MarkReady, boundVars, fileVars
<1>2. jobs[t].path \in Paths /\ TaskHolds(t)
  BY <1>1, TrackIs DEF TaskHolds
<1>3. /\ q \in Row /\ q.status = "ready" /\ q.url = row[t].url /\ q.path = jobs[t].path
      /\ q.mirrored = FALSE
  BY <1>2, TrackIs DEF Row, Statuses, Settled
<1>4. j \in Job /\ j.at = "dirty"
  BY TrackIs DEF Job
<1>5. row' = [row EXCEPT ![t] = q] /\ jobs' = [jobs EXCEPT ![t] = j]
  BY DEF MarkReady, Readied, JobAt, WorkerInv, TypeOK
<1> HIDE DEF q, j
<1>6. row'[t] = q /\ jobs'[t] = j
  BY <1>5 DEF WorkerInv, TypeOK
<1>7. TaskHolds(t)'
  BY <1>1, <1>2, <1>3, <1>4, <1>6 DEF TaskHolds, Busy
<1>8. held' \subseteq {v \in Tracks : row'[v].status # "absent"}
  BY <1>1, <1>3, <1>5, HeldStays
<1>9. WorkerInv'
  BY <1>1, <1>3, <1>4, <1>5, <1>7, <1>8, OneTrack, TrackIs DEF Busy
<1>10. ASSUME Undisturbed, vanished = 0
       PROVE  RowHolds(t)' /\ PathHolds(t)' /\ row[t].status # "pending"
  BY <1>1, <1>3, <1>4, <1>6, <1>10 DEF Undisturbed, RowHolds, PathHolds, Busy
<1>11. ASSUME Undisturbed PROVE Undisturbed'
  BY <1>1, <1>3, <1>4, <1>5, <1>10, <1>11, OneTrackRests
<1> QED BY <1>9, <1>11 DEF Kept

\* With one slot there is one task.
LEMMA OneSlot ==
    ASSUME WorkerInv, Slots = 1, NEW t \in Tracks, NEW u \in Tracks,
           jobs[t].at # "none", jobs[u].at # "none"
    PROVE  t = u
<1>1. SUFFICES ASSUME t # u PROVE FALSE
  OBVIOUS
<1>2. Cardinality(Running) <= 1
  BY TodoTyped, RunningIsFinite DEF WorkerInv, SlotsHold
<1>3. {t} \subseteq Running /\ {t} # Running
  BY <1>1 DEF Running
<1>4. Cardinality({t}) <= Cardinality(Running) /\ Cardinality({t}) # Cardinality(Running)
  BY <1>3, RunningIsFinite, FS_Subset
<1>5. Cardinality({t}) = 1
  BY FS_Singleton
<1> QED BY <1>2, <1>4, <1>5, RunningIsFinite

\* Two tasks between the choice of their paths and publishing have different ones.
LEMMA PathsDiffer ==
    ASSUME WorkerInv, Apart, Undisturbed, vanished = 0, NEW t \in Tracks, NEW u \in Tracks, t # u,
           jobs[t].at = "tag", jobs[u].at = "tag"
    PROVE  jobs[t].path # jobs[u].path
<1>1. CASE Slots = 1
  BY <1>1, OneSlot
<1>2. CASE \A v, w \in Tracks : NameOf[v] = NameOf[w] => v = w
  BY <1>2 DEF Undisturbed, PathHolds
<1> QED BY <1>1, <1>2 DEF Apart

\* A file that changes is nobody's but the task's.
LEMMA PutIs ==
    ASSUME NEW p, NEW a, share' = Put(share, p, a)
    PROVE  /\ DOMAIN share' = DOMAIN share \cup {p}
           /\ share'[p] = a /\ \A o \in DOMAIN share \ {p} : share'[o] = share[o]
  BY DEF Put

LEMMA PublishKeeps == ASSUME WorkerInv, NEW t \in Tracks, Publish(t) PROVE Kept
<1> DEFINE p == jobs[t].path
           a == <<t, jobs[t].url>>
           j == [jobs[t] EXCEPT !.at = "mark"]
<1>1. /\ jobs[t].at = "tag" /\ share' = Put(share, p, a)
      /\ row' = row /\ held' = held
      /\ UNCHANGED <<cdn, up, paused, poll, todo, copying, sending, edits, stops, vanished>>
  BY DEF Publish, dbVars, pollVars, boundVars
<1>2. p \in Paths /\ a \in Audio /\ TaskHolds(t)
  BY <1>1, TrackIs DEF TaskHolds, Audio
<1>3. j \in Job /\ j.at = "mark" /\ j.path = p /\ j.url = jobs[t].url
  BY TrackIs DEF Job
<1>4. jobs' = [jobs EXCEPT ![t] = j] /\ jobs \in [Tracks -> Job]
  BY DEF Publish, JobAt, WorkerInv, TypeOK
<1>5. a[1] = t /\ row[t].status # "ready"
  BY <1>1, <1>2 DEF TaskHolds, Busy
<1>6. /\ DOMAIN share' = DOMAIN share \cup {p}
      /\ share'[p] = a /\ \A o \in DOMAIN share \ {p} : share'[o] = share[o]
  BY <1>1, PutIs
<1>7. a = <<t, jobs[t].url>> /\ p = jobs[t].path
  OBVIOUS
<1> HIDE DEF p, a, j
<1>8. jobs'[t] = j /\ \A u \in Tracks \ {t} : jobs'[u] = jobs[u]
  BY <1>4
<1>9. TypeOK'
  <2>1. DOMAIN share' \subseteq Paths /\ \A o \in DOMAIN share' : share'[o] \in Audio
    BY <1>2, <1>6 DEF WorkerInv, TypeOK
  <2>2. jobs' \in [Tracks -> Job]
    BY <1>3, <1>4
  <2> QED BY <1>1, <2>1, <2>2 DEF WorkerInv, TypeOK
<1>10. IsFiniteSet(DOMAIN share)'
  BY <1>6, FS_AddElement DEF WorkerInv
<1>11. PollHolds'
  BY <1>1, <1>8 DEF WorkerInv, PollHolds
<1>12. SlotsHold'
  <2>1. Running' \subseteq Running
    BY <1>1, <1>8 DEF Running
  <2> QED BY <1>1, <2>1, TodoTyped, FewerRun, RunningIsFinite, NumbersAssumption DEF WorkerInv, SlotsHold
<1>13. ASSUME NEW u \in Tracks PROVE TaskHolds(u)'
  BY <1>1, <1>2, <1>3, <1>8 DEF WorkerInv, TaskHolds, Busy
<1>14. CopyingHolds'
  BY <1>1, <1>3, <1>8, CopyingTyped DEF WorkerInv, CopyingHolds, Busy
<1>15. CdnHolds'
  <2>1. ASSUME NEW u \in Tracks, NEW o, row[u].status = "ready", row[u].path = o,
               o \in DOMAIN share', share'[o][1] = u
        PROVE  Owns(u, o) /\ share'[o] = share[o]
    <3>1. o # p
      BY <1>5, <1>6, <2>1
    <3> QED BY <1>6, <2>1, <3>1 DEF Owns
  <2>2. ASSUME NEW u \in Tracks PROVE MirrorHolds(u)'
    BY <1>1, <2>1 DEF WorkerInv, CdnHolds, MirrorHolds, Owns
  <2>3. ASSUME poll = "put", NEW u \in Tracks PROVE SendingHolds(u, Head(copying))'
    BY <1>1, <2>1, <2>3 DEF WorkerInv, CdnHolds, SendingHolds, Owns
  <2>4. ASSUME poll = "mark" PROVE SentHolds(Head(copying))'
    <3>1. Head(copying).id \in Tracks
      BY <2>4, CopyingTyped DEF WorkerInv, PollHolds
    <3> QED BY <1>1, <2>1, <2>4, <3>1 DEF WorkerInv, CdnHolds, SentHolds, Owns
  <2> QED BY <1>1, <2>2, <2>3, <2>4 DEF CdnHolds
<1>16. WorkerInv'
  BY <1>9, <1>10, <1>11, <1>12, <1>13, <1>14, <1>15 DEF WorkerInv
<1>17. ASSUME Apart, Undisturbed PROVE Undisturbed'
  <2>1. SUFFICES ASSUME vanished = 0
                 PROVE  (\A u \in Tracks : RowHolds(u)' /\ PathHolds(u)') /\ TodoHolds' /\ FilesHold'
    BY <1>1 DEF Undisturbed
  <2>2. p \notin DOMAIN share /\ \A o \in DOMAIN share : o \in DOMAIN share' /\ share'[o] = share[o]
    BY <1>1, <1>6, <1>7, <1>17, <2>1 DEF Undisturbed, PathHolds
  <2>3. TodoHolds' /\ FilesHold'
    BY <1>1, <1>17, <2>1, <2>2 DEF Undisturbed, TodoHolds, FilesHold
  <2>4. RowHolds(t)' /\ PathHolds(t)'
    BY <1>1, <1>3, <1>5, <1>6, <1>7, <1>8, <1>17, <2>1 DEF Undisturbed, RowHolds, PathHolds, Busy
  <2>5. ASSUME NEW u \in Tracks \ {t} PROVE RowHolds(u)' /\ PathHolds(u)'
    <3>1. RowHolds(u) /\ PathHolds(u) /\ jobs'[u] = jobs[u] /\ row'[u] = row[u]
      BY <1>1, <1>8, <1>17, <2>1 DEF Undisturbed
    <3>2. jobs[u].at = "tag" => jobs[u].path \notin DOMAIN share'
      BY <1>1, <1>6, <1>7, <1>17, <2>1, <3>1, PathsDiffer DEF PathHolds
    <3> QED BY <2>2, <3>1, <3>2 DEF RowHolds, PathHolds
  <2> QED BY <2>3, <2>4, <2>5
<1> QED BY <1>16, <1>17 DEF Kept

LEMMA TaskKeeps == ASSUME WorkerInv, NEW t \in Tracks, Task(t) PROVE Kept
  BY MatchFoundKeeps, MatchUnsureKeeps, FetchedKeeps, PublishKeeps, MarkReadyKeeps,
     PlaylistsFoundKeeps, GivesUpKeeps, RateLimitedKeeps, CrashesKeeps, EndsKeeps DEF Task

-----------------------------------------------------------------------------
(* The members' requests.                                                  *)

\* A member's request leaves a row as it is or has it wait, and leaves the tasks alone.
LEMMA OneRow ==
    ASSUME WorkerInv, NEW t \in Tracks, NEW q \in Row, row' = [row EXCEPT ![t] = q], Edit,
           held' \subseteq {u \in Tracks : row'[u].status # "absent"},
           UNCHANGED <<fileVars, up, paused, jobs, pollVars, stops, vanished>>,
           q = row[t] \/ q.status = "pending",
           Settling => q = row[t] \/ row[t].status \in Settled \cup {"absent"},
           jobs[t].at = "dirty" /\ q # row[t] => q.attempts = 0
    PROVE  Kept
<1>1. jobs[t] \in Job /\ row[t] \in Row /\ paused \in BOOLEAN /\ TaskHolds(t)
  BY TrackIs
<1>2. jobs' = [jobs EXCEPT ![t] = jobs[t]] /\ jobs' = jobs /\ up' = up /\ share' = share
  BY DEF WorkerInv, TypeOK, fileVars
<1>3. edits' \in 0..MaxEdit
  BY NumbersAssumption DEF Edit, WorkerInv, TypeOK
<1>4. row'[t] = q
  BY DEF WorkerInv, TypeOK
<1>5. TaskHolds(t)'
  BY <1>1, <1>2, <1>4 DEF TaskHolds
<1>6. WorkerInv'
  BY <1>1, <1>2, <1>3, <1>5, OneTrack
<1>7. ASSUME Settling, Undisturbed PROVE Undisturbed'
  <2>1. SUFFICES ASSUME vanished = 0, q # row[t]
                 PROVE  RowHolds(t)' /\ PathHolds(t)' /\ row[t].status # "pending"
    <3>1. ASSUME q = row[t], vanished = 0
          PROVE  RowHolds(t)' /\ PathHolds(t)'
      BY <1>2, <1>4, <1>7, <3>1 DEF Undisturbed, RowHolds, PathHolds
    <3> QED BY <1>1, <1>2, <1>7, <3>1, OneTrackRests
  <2> QED BY <1>1, <1>2, <1>4, <1>7, <2>1 DEF Undisturbed, RowHolds, PathHolds, Busy, Settled
<1> QED BY <1>6, <1>7 DEF Kept

\* A request that changes no row.
LEMMA NoRowChanges ==
    ASSUME WorkerInv, NEW t \in Tracks, row' = row, Edit,
           held' \subseteq {u \in Tracks : row[u].status # "absent"},
           UNCHANGED <<fileVars, up, paused, jobs, pollVars, stops, vanished>>
    PROVE  Kept
<1>1. row[t] \in Row /\ row' = [row EXCEPT ![t] = row[t]]
  BY TrackIs DEF WorkerInv, TypeOK
<1> QED BY <1>1, OneRow

LEMMA ImportKeeps == ASSUME WorkerInv, NEW t \in Tracks, Import(t) PROVE Kept
<1> DEFINE q == [row[t] EXCEPT !.status = IF @ = "absent" THEN "pending" ELSE @]
<1>1. /\ row' = [row EXCEPT ![t] = q] /\ Edit /\ held' = held \cup {t}
      /\ UNCHANGED <<fileVars, up, paused, jobs, pollVars, stops, vanished>>
  BY DEF Import, Upserted, WorkerInv, TypeOK
<1>2. TaskHolds(t) /\ row[t].status \in Statuses
  BY TrackIs
<1>3. /\ q \in Row /\ q.status = IF row[t].status = "absent" THEN "pending" ELSE row[t].status
      /\ row[t].status # "absent" => q = row[t]
  BY TrackIs DEF Row, Statuses, Settled
<1> HIDE DEF q
<1>4. \A u \in Tracks : row'[u] = IF u = t THEN q ELSE row[u]
  BY <1>1 DEF WorkerInv, TypeOK
<1>5. held' \subseteq {u \in Tracks : row'[u].status # "absent"}
  BY <1>1, <1>3, <1>4, TrackIs
<1>6. jobs[t].at = "dirty" => q = row[t]
  BY <1>2, <1>3 DEF TaskHolds
<1> QED BY <1>1, <1>3, <1>5, <1>6, OneRow

LEMMA RemoveSongKeeps == ASSUME WorkerInv, NEW t \in Tracks, RemoveSong(t) PROVE Kept
<1>1. /\ row' = row /\ Edit /\ held' = held \ {t}
      /\ UNCHANGED <<fileVars, up, paused, jobs, pollVars, stops, vanished>>
  BY DEF RemoveSong
<1>2. held' \subseteq {u \in Tracks : row[u].status # "absent"}
  BY <1>1, TrackIs
<1> QED BY <1>1, <1>2, NoRowChanges

LEMMA RetryKeeps == ASSUME WorkerInv, NEW t \in Tracks, Retry(t) PROVE Kept
<1> DEFINE q == [row[t] EXCEPT !.status = "pending", !.attempts = 0]
<1>1. /\ row' = [row EXCEPT ![t] = q] /\ Edit /\ held' = held
      /\ row[t].status \in {"failed", "unmatched", "review"}
      /\ UNCHANGED <<fileVars, up, paused, jobs, pollVars, stops, vanished>>
  BY DEF Retry, WorkerInv, TypeOK
<1>2. q \in Row /\ q.status = "pending" /\ q.attempts = 0
  BY TrackIs DEF Row, Statuses, Settled
<1> HIDE DEF q
<1>3. held' \subseteq {u \in Tracks : row'[u].status # "absent"}
  BY <1>1, <1>2, HeldStays
<1>4. row[t].status \in Settled
  BY <1>1 DEF Settled
<1> QED BY <1>1, <1>2, <1>3, <1>4, OneRow

LEMMA ChooseMatchKeeps ==
    ASSUME WorkerInv, NEW t \in Tracks, NEW u \in Urls, ChooseMatch(t, u) PROVE Kept
<1> DEFINE q == [row[t] EXCEPT !.url = u, !.manual = TRUE, !.status = "pending", !.attempts = 0]
<1>1. /\ row' = [row EXCEPT ![t] = q] /\ Edit /\ held' = held
      /\ row[t].status \in PickStatuses
      /\ UNCHANGED <<fileVars, up, paused, jobs, pollVars, stops, vanished>>
  BY DEF ChooseMatch, Picked, WorkerInv, TypeOK
<1>2. q \in Row /\ q.status = "pending" /\ q.attempts = 0
  BY TrackIs DEF Row, Statuses, Settled
<1> HIDE DEF q
<1>3. held' \subseteq {v \in Tracks : row'[v].status # "absent"}
  BY <1>1, <1>2, HeldStays
<1>4. Settling => row[t].status \in Settled
  BY <1>1 DEF Settling
<1> QED BY <1>1, <1>2, <1>3, <1>4, OneRow

LEMMA AddSongKeeps == ASSUME WorkerInv, NEW u \in Urls, AddSong(u) PROVE Kept
<1> DEFINE have  == {t \in Tracks : row[t].url = u}
           ready == {t \in have : row[t].status = "ready"}
           found == Lowest(IF ready # {} THEN ready ELSE have)
<1>1. Edit /\ UNCHANGED <<fileVars, up, paused, jobs, pollVars, stops, vanished>>
  BY DEF AddSong
<1>2. CASE have # {}
  <2>1. held' = held \cup {found} /\ row' = row
    BY <1>2 DEF AddSong
  <2>2. found \in have
    <3>1. have \in SUBSET Nat /\ ready \in SUBSET Nat /\ ready \subseteq have
      BY TracksAssumption
    <3> HIDE DEF have, ready
    <3>2. CASE ready # {}
      BY <3>1, <3>2, Least
    <3>3. CASE ready = {}
      BY <1>2, <3>1, <3>3, Least
    <3> QED BY <3>2, <3>3
  <2>3. found \in Tracks /\ row[found].url = u
    BY <2>2
  <2>4. row[found].status # "absent"
    BY <2>3, TrackIs, UrlsAssumption DEF TaskHolds
  <2> HIDE DEF found
  <2>5. held' \subseteq {t \in Tracks : row[t].status # "absent"}
    BY <2>1, <2>3, <2>4, TrackIs
  <2> QED BY <1>1, <2>1, <2>3, <2>5, NoRowChanges
<1>3. CASE have = {}
  <2>1. PICK t \in Tracks :
          /\ row[t].status = "absent" /\ held' = held \cup {t}
          /\ row' = [row EXCEPT ![t].status = "pending", ![t].url = u, ![t].manual = TRUE]
    BY <1>3 DEF AddSong
  <2> DEFINE q == [row[t] EXCEPT !.status = "pending", !.url = u, !.manual = TRUE]
  <2>2. row' = [row EXCEPT ![t] = q]
    BY <2>1 DEF WorkerInv, TypeOK
  <2>3. q \in Row /\ q.status = "pending"
    BY TrackIs DEF Row, Statuses, Settled
  <2> HIDE DEF q
  <2>4. \A v \in Tracks : row'[v] = IF v = t THEN q ELSE row[v]
    BY <2>2 DEF WorkerInv, TypeOK
  <2>5. held' \subseteq {v \in Tracks : row'[v].status # "absent"}
    <3>1. held \subseteq {v \in Tracks : row[v].status # "absent"} /\ row'[t].status = "pending"
      BY <2>3, <2>4, TrackIs
    <3> QED BY <2>1, <2>4, <3>1
  <2>6. jobs[t].at # "dirty"
    BY <2>1, TrackIs DEF TaskHolds
  <2> QED BY <1>1, <2>1, <2>2, <2>3, <2>5, <2>6, OneRow
<1> QED BY <1>2, <1>3

LEMMA MemberKeeps == ASSUME WorkerInv, Member PROVE Kept
  BY ImportKeeps, RemoveSongKeeps, RetryKeeps, ChooseMatchKeeps, AddSongKeeps DEF Member

-----------------------------------------------------------------------------
(* The worker process.                                                     *)

\* No task and no batch is left, and rows that were worked on wait again, or still look worked on.
LEMMA NothingRuns ==
    ASSUME WorkerInv, jobs' \in [Tracks -> Job], \A t \in Tracks : jobs'[t].at = "none",
           poll' = "idle", todo' = <<>>, copying' = <<>>, sending' \in Audio \cup {NoAudio},
           up' \in BOOLEAN, paused' \in BOOLEAN, stops' \in 0..MaxFault,
           UNCHANGED <<held, share, cdn, edits, vanished>>, row' \in [Tracks -> Row],
           \A t \in Tracks : \/ row'[t] = row[t] /\ ~(up' /\ row[t].status = "working")
                             \/ /\ row[t].status = "working"
                                /\ row'[t] = [row[t] EXCEPT !.status = "pending"]
    PROVE  Kept
<1>3. ASSUME NEW t \in Tracks
      PROVE  \/ row'[t] = row[t] /\ ~(up' /\ row[t].status = "working")
             \/ row[t].status = "working" /\ row'[t].status = "pending"
  BY TrackIs DEF Row
<1>4. TypeOK'
  <2>1. held' \subseteq {u \in Tracks : row'[u].status # "absent"}
    <3>1. held \subseteq {u \in Tracks : row[u].status # "absent"}
      BY DEF WorkerInv, TypeOK
    <3>2. \A u \in Tracks : row[u].status # "absent" => row'[u].status # "absent"
      BY <1>3
    <3> QED BY <3>1, <3>2
  <2> QED BY <2>1 DEF WorkerInv, TypeOK
<1>5. PollHolds' /\ CopyingHolds'
  BY DEF PollHolds, CopyingHolds
<1>6. SlotsHold'
  <2>1. Running' = {}
    BY DEF Running
  <2> QED BY <2>1, FS_EmptySet, NumbersAssumption DEF SlotsHold
<1>7. ASSUME NEW t \in Tracks PROVE TaskHolds(t)'
  BY <1>3, TrackIs DEF TaskHolds, Busy
<1>8. CdnHolds'
  <2>1. ASSUME NEW t \in Tracks PROVE MirrorHolds(t)'
    BY <1>3 DEF WorkerInv, CdnHolds, MirrorHolds, Owns
  <2> QED BY <2>1 DEF CdnHolds
<1>9. WorkerInv'
  BY <1>4, <1>5, <1>6, <1>7, <1>8 DEF WorkerInv
<1>10. ASSUME Undisturbed PROVE Undisturbed'
  <2>1. SUFFICES ASSUME vanished = 0
                 PROVE  (\A u \in Tracks : RowHolds(u)' /\ PathHolds(u)') /\ TodoHolds' /\ FilesHold'
    BY DEF Undisturbed
  <2>2. TodoHolds' /\ FilesHold'
    BY DEF TodoHolds, FilesHold
  <2>3. ASSUME NEW u \in Tracks PROVE RowHolds(u)' /\ PathHolds(u)'
    <3>1. PathHolds(u) /\ jobs'[u].at = "none"
      BY <1>10, <2>1 DEF Undisturbed
    <3>2. row'[u].status = "ready" => row'[u] = row[u]
      BY <1>3
    <3> QED BY <3>1, <3>2 DEF RowHolds, PathHolds, Busy
  <2> QED BY <2>2, <2>3
<1> QED BY <1>9, <1>10 DEF Kept

LEMMA StartKeeps == ASSUME WorkerInv, Start PROVE Kept
<1>1. /\ ~up /\ up' = TRUE /\ UNCHANGED <<held, share, cdn, paused, poll, todo, copying, sending>>
      /\ UNCHANGED <<jobs, edits, stops, vanished>>
      /\ row' = [t \in Tracks |-> IF row[t].status = "working"
                                  THEN [row[t] EXCEPT !.status = "pending"] ELSE row[t]]
  BY DEF Start, ResetStale, fileVars, pollVars, boundVars
<1>2. poll = "idle" /\ todo = <<>> /\ copying = <<>> /\ \A t \in Tracks : jobs[t].at = "none"
  BY <1>1 DEF WorkerInv, PollHolds
<1>3. /\ up' \in BOOLEAN /\ paused' \in BOOLEAN /\ stops' \in 0..MaxFault
      /\ jobs' \in [Tracks -> Job] /\ sending' \in Audio \cup {NoAudio}
  BY <1>1 DEF WorkerInv, TypeOK
<1>4. ASSUME NEW t \in Tracks PROVE [row[t] EXCEPT !.status = "pending"] \in Row
  BY TrackIs DEF Row, Statuses, Settled
<1>5. row' \in [Tracks -> Row]
  BY <1>1, <1>4, TrackIs
<1>6. \A t \in Tracks : \/ row'[t] = row[t] /\ ~(up' /\ row[t].status = "working")
                        \/ /\ row[t].status = "working"
                           /\ row'[t] = [row[t] EXCEPT !.status = "pending"]
  BY <1>1
<1> QED BY <1>1, <1>2, <1>3, <1>5, <1>6, NothingRuns

LEMMA StopKeeps == ASSUME WorkerInv, Stop PROVE Kept
<1>1. /\ up' = FALSE /\ stops + vanished < MaxFault /\ stops' = stops + 1
      /\ jobs' = [t \in Tracks |-> NoJob] /\ paused' = FALSE
      /\ poll' = "idle" /\ todo' = <<>> /\ copying' = <<>> /\ sending' = NoAudio
      /\ UNCHANGED <<row, held, share, cdn, edits, vanished>>
  BY DEF Stop, dbVars, fileVars
<1>2. NoJob \in Job /\ NoJob.at = "none"
  BY DEF NoJob, Job
<1>3. jobs' \in [Tracks -> Job] /\ \A t \in Tracks : jobs'[t].at = "none"
  BY <1>1, <1>2
<1>4. stops' \in 0..MaxFault
  BY <1>1, NumbersAssumption DEF WorkerInv, TypeOK
<1>5. row' \in [Tracks -> Row]
  BY <1>1 DEF WorkerInv, TypeOK
<1> QED BY <1>1, <1>3, <1>4, <1>5, NothingRuns

\* The rows, the files and the tasks rest, and so does the poll loop outside the stages of copying.
LEMMA LoopTurns ==
    ASSUME WorkerInv, UNCHANGED <<row, held, share, cdn, up, jobs, edits, stops, vanished>>,
           paused' \in BOOLEAN, TypeOK', PollHolds', CopyingHolds',
           Cardinality(Running) + Len(todo') <= Slots,
           poll' = "put" => \A t \in Tracks : SendingHolds(t, Head(copying))',
           poll' = "mark" => SentHolds(Head(copying))',
           Undisturbed /\ vanished = 0 => TodoHolds' /\ FilesHold'
    PROVE  Kept
<1>1. SlotsHold'
  BY DEF SlotsHold, Running
<1>2. \A t \in Tracks : TaskHolds(t)'
  BY DEF WorkerInv, TaskHolds
<1>3. CdnHolds'
  <2>1. \A t \in Tracks : MirrorHolds(t)'
    BY DEF WorkerInv, CdnHolds, MirrorHolds, Owns
  <2> QED BY <2>1 DEF CdnHolds
<1>4. WorkerInv'
  BY <1>1, <1>2, <1>3 DEF WorkerInv
<1>5. ASSUME Undisturbed PROVE Undisturbed'
  BY <1>5 DEF Undisturbed, RowHolds, PathHolds
<1> QED BY <1>4, <1>5 DEF Kept

\* The end of the pause, or no step at all.
LEMMA PauseEndsKeeps == ASSUME WorkerInv, PauseEnds \/ UNCHANGED vars PROVE Kept
<1>1. /\ UNCHANGED <<row, held, share, cdn, up, jobs, edits, stops, vanished>>
      /\ UNCHANGED <<poll, todo, copying, sending>> /\ (paused' = FALSE \/ paused' = paused)
  BY DEF PauseEnds, vars, dbVars, fileVars, pollVars, boundVars
<1>2. TypeOK' /\ PollHolds' /\ CopyingHolds' /\ paused' \in BOOLEAN
  BY <1>1 DEF WorkerInv, TypeOK, PollHolds, CopyingHolds
<1>3. Cardinality(Running) + Len(todo') <= Slots
  BY <1>1 DEF WorkerInv, SlotsHold
<1>4. ASSUME poll' = "put", NEW t \in Tracks PROVE SendingHolds(t, Head(copying))'
  BY <1>1, <1>4 DEF WorkerInv, CdnHolds, SendingHolds, Owns
<1>5. poll' = "mark" => SentHolds(Head(copying))'
  BY <1>1 DEF WorkerInv, CdnHolds, SentHolds, Owns
<1>6. Undisturbed /\ vanished = 0 => TodoHolds' /\ FilesHold'
  BY <1>1 DEF Undisturbed, TodoHolds, FilesHold
<1> QED BY <1>1, <1>2, <1>3, <1>4, <1>5, <1>6, LoopTurns

-----------------------------------------------------------------------------
(* The poll loop.                                                          *)

LEMMA SeqIs ==
    ASSUME NEW C, NEW n \in Nat, NEW s \in [1..n -> C]
    PROVE  s \in Seq(C) /\ Len(s) = n
  OBVIOUS

\* The pending rows come in one order, each once.
LEMMA PendingIs ==
    ASSUME WorkerInv
    PROVE  /\ Pending \in Seq({t \in held : row[t].status = "pending"})
           /\ \A i, j \in 1..Len(Pending) : Pending[i] = Pending[j] => i = j
<1> DEFINE S == {t \in held : row[t].status = "pending"}
           B == {p \in Tracks \X Tracks :
                    \/ row[p[1]].attempts < row[p[2]].attempts
                    \/ row[p[1]].attempts = row[p[2]].attempts /\ p[1] < p[2]}
<1>1. IsFiniteSet(S) /\ S \subseteq Tracks
  <2>1. S \subseteq Tracks
    BY DEF WorkerInv, TypeOK
  <2> QED BY <2>1, TracksAssumption, FS_Subset
<1>2. \A t \in Tracks : t \in Nat /\ row[t].attempts \in Nat
  BY TracksAssumption, TrackIs
<1>3. \A t, u \in Tracks : <<t, u>> \in B <=>
        \/ row[t].attempts < row[u].attempts
        \/ row[t].attempts = row[u].attempts /\ t < u
  OBVIOUS
<1>4. Pending = InOrder(S, B)
  BY DEF Pending
<1> HIDE DEF S, B
<1>5. Orders(B, S)
  <2>1. \A t \in S : <<t, t>> \notin B
    BY <1>1, <1>2, <1>3
  <2>2. \A t, u \in S : t # u => <<t, u>> \in B \/ <<u, t>> \in B
    <3>1. SUFFICES ASSUME NEW t \in S, NEW u \in S, t # u PROVE <<t, u>> \in B \/ <<u, t>> \in B
      OBVIOUS
    <3>2. t \in Nat /\ u \in Nat /\ row[t].attempts \in Nat /\ row[u].attempts \in Nat
      BY <1>1, <1>2
    <3> QED BY <1>1, <1>3, <3>1, <3>2
  <2>3. ASSUME NEW t \in S, NEW u \in S, NEW v \in S, <<t, u>> \in B, <<u, v>> \in B
        PROVE  <<t, v>> \in B
    <3>1. /\ t \in Nat /\ u \in Nat /\ v \in Nat
          /\ row[t].attempts \in Nat /\ row[u].attempts \in Nat /\ row[v].attempts \in Nat
      BY <1>1, <1>2
    <3> QED BY <1>1, <1>3, <2>3, <3>1
  <2> QED BY <2>1, <2>2, <2>3 DEF Orders
<1>6. /\ Pending \in Seq(S) /\ Len(Pending) = Cardinality(S)
      /\ \A i, j \in 1..Cardinality(S) : Pending[i] = Pending[j] => i = j
  BY <1>1, <1>4, <1>5, InOrderIs
<1> QED BY <1>6 DEF S

\* So do those to copy.
LEMMA UnmirroredIs ==
    ASSUME WorkerInv
    PROVE  Unmirrored \in Seq({t \in Tracks : row[t].status = "ready" /\ ~row[t].mirrored})
<1> DEFINE S == {t \in Tracks : row[t].status = "ready" /\ ~row[t].mirrored}
           B == {p \in Tracks \X Tracks : p[1] < p[2]}
<1>1. IsFiniteSet(S) /\ S \subseteq Tracks /\ S \subseteq Nat
  BY TracksAssumption, FS_Subset
<1>2. \A t, u \in Tracks : <<t, u>> \in B <=> t < u
  OBVIOUS
<1>3. Unmirrored = InOrder(S, B)
  BY DEF Unmirrored
<1> HIDE DEF S, B
<1>4. Orders(B, S)
  <2>1. /\ \A t \in S : <<t, t>> \notin B
        /\ \A t, u \in S : t # u => <<t, u>> \in B \/ <<u, t>> \in B
    BY <1>1, <1>2
  <2>2. ASSUME NEW t \in S, NEW u \in S, NEW v \in S, <<t, u>> \in B, <<u, v>> \in B
        PROVE  <<t, v>> \in B
    BY <1>1, <1>2, <2>2
  <2> QED BY <2>1, <2>2 DEF Orders
<1>5. Unmirrored \in Seq(S)
  BY <1>1, <1>3, <1>4, InOrderIs
<1> QED BY <1>5 DEF S

LEMMA FetchPendingKeeps == ASSUME WorkerInv, FetchPending PROVE Kept
<1> DEFINE S == {t \in held : row[t].status = "pending"}
           ids == FirstOf(Pending, FreeSlots)
           C == [id : Tracks, url : Urls \cup {NoUrl}]
<1>1. /\ poll = "idle" /\ poll' = "claim" /\ up
      /\ UNCHANGED <<row, held, share, cdn, up, jobs, edits, stops, vanished>>
      /\ UNCHANGED <<paused, copying, sending>>
  BY DEF FetchPending, dbVars, fileVars, boundVars
<1>2. \/ todo' = <<>>
      \/ FreeSlots > 0 /\ todo' = [i \in 1..Len(ids) |-> [id |-> ids[i], url |-> row[ids[i]].url]]
  BY RunningIsFinite, NumbersAssumption DEF FetchPending, FreeSlots
<1>3. paused \in BOOLEAN /\ FreeSlots \in Int
  BY RunningIsFinite, NumbersAssumption DEF WorkerInv, TypeOK, FreeSlots
<1>4. /\ todo' \in Seq(C) /\ Len(todo') \in Nat /\ (Len(todo') <= FreeSlots \/ todo' = <<>>)
      /\ \A i \in 1..Len(todo') : todo'[i].id \in S /\ todo'[i].url = row[todo'[i].id].url
      /\ \A i, j \in 1..Len(todo') : todo'[i].id = todo'[j].id => i = j
  <2>1. CASE todo' = <<>>
    BY <2>1
  <2>2. CASE FreeSlots > 0 /\ todo' = [i \in 1..Len(ids) |-> [id |-> ids[i], url |-> row[ids[i]].url]]
    <3>1. /\ ids \in Seq(S) /\ Len(ids) <= FreeSlots /\ Len(ids) <= Len(Pending)
          /\ \A i \in 1..Len(ids) : ids[i] = Pending[i]
      BY <1>3, <2>2, PendingIs, FirstOfIs
    <3>2. Len(ids) \in Nat /\ Len(Pending) \in Nat
      BY <3>1, PendingIs
    <3>3. \A i, j \in 1..Len(ids) : ids[i] = ids[j] => i = j
      BY <3>1, <3>2, PendingIs
    <3>4. \A i \in 1..Len(ids) : ids[i] \in S
      BY <3>1
    <3>5. \A t \in S : t \in Tracks /\ row[t].url \in Urls \cup {NoUrl}
      BY TrackIs DEF WorkerInv, TypeOK
    <3> HIDE DEF ids, S
    <3>6. todo' \in [1..Len(ids) -> C]
      BY <2>2, <3>4, <3>5
    <3>7. todo' \in Seq(C) /\ Len(todo') = Len(ids)
      BY <3>2, <3>6, SeqIs
    <3> QED BY <2>2, <3>1, <3>2, <3>3, <3>4, <3>7
  <2> QED BY <1>2, <2>1, <2>2
<1>5. copying = <<>>
  BY <1>1 DEF WorkerInv, PollHolds
<1>6. TypeOK'
  BY <1>1, <1>4 DEF WorkerInv, TypeOK
<1>7. PollHolds' /\ CopyingHolds'
  BY <1>1, <1>5 DEF WorkerInv, PollHolds, CopyingHolds
<1>8. Cardinality(Running) + Len(todo') <= Slots
  <2>1. CASE todo' = <<>>
    BY <2>1, RunningIsFinite, TodoTyped, NumbersAssumption DEF WorkerInv, SlotsHold
  <2>2. CASE Len(todo') <= FreeSlots
    BY <1>4, <2>2, RunningIsFinite, NumbersAssumption DEF FreeSlots
  <2> QED BY <1>4, <2>1, <2>2
<1>9. TodoHolds' /\ FilesHold'
  BY <1>1, <1>4, <1>5 DEF TodoHolds, FilesHold
<1> QED BY <1>1, <1>3, <1>6, <1>7, <1>8, <1>9, LoopTurns

LEMMA FetchUnmirroredKeeps == ASSUME WorkerInv, FetchUnmirrored PROVE Kept
<1> DEFINE S == {t \in Tracks : row[t].status = "ready" /\ ~row[t].mirrored}
           ids == FirstOf(Unmirrored, MirrorBatch)
           C == [id : Tracks, path : Paths]
<1>1. /\ poll = "claim" /\ todo = <<>> /\ todo' = todo
      /\ copying' = [i \in 1..Len(ids) |-> [id |-> ids[i], path |-> row[ids[i]].path]]
      /\ poll' = IF ids = <<>> THEN "idle" ELSE "copy"
      /\ UNCHANGED <<row, held, share, cdn, up, jobs, edits, stops, vanished>>
      /\ UNCHANGED <<paused, sending>>
  BY DEF FetchUnmirrored, dbVars, fileVars, boundVars
<1>2. ids \in Seq(S) /\ Len(ids) \in Nat
  <2>1. MirrorBatch \in Nat
    BY NumbersAssumption
  <2>2. ids \in Seq(S)
    BY <2>1, UnmirroredIs, FirstOfIs
  <2> QED BY <2>2
<1>3. \A i \in 1..Len(ids) : ids[i] \in S
  BY <1>2
<1>4. \A t \in S : t \in Tracks /\ row[t].path \in Paths /\ row[t].status = "ready" /\ jobs[t].at \notin Busy
  BY TrackIs DEF TaskHolds
<1>5. ids # <<>> => Len(ids) # 0
  BY <1>2, EmptySeq
<1> HIDE DEF ids, S
<1>6. /\ copying' \in Seq(C) /\ Len(copying') = Len(ids)
      /\ \A i \in 1..Len(copying') :
            copying'[i].id \in S /\ copying'[i].path = row[copying'[i].id].path
  <2>1. copying' \in [1..Len(ids) -> C]
    BY <1>1, <1>3, <1>4
  <2>2. copying' \in Seq(C) /\ Len(copying') = Len(ids)
    BY <1>2, <2>1, SeqIs
  <2> QED BY <1>1, <1>3, <2>2
<1>7. poll' = IF copying' = <<>> THEN "idle" ELSE "copy"
  <2>1. CASE ids = <<>>
    BY <1>1, <2>1
  <2>2. CASE ids # <<>>
    BY <1>1, <1>5, <1>6, <2>2
  <2> QED BY <2>1, <2>2
<1>8. TypeOK' /\ paused' \in BOOLEAN
  BY <1>1, <1>6, <1>7 DEF WorkerInv, TypeOK
<1>9. PollHolds' /\ CopyingHolds'
  BY <1>1, <1>4, <1>6, <1>7 DEF WorkerInv, PollHolds, CopyingHolds
<1>10. Cardinality(Running) + Len(todo') <= Slots
  BY <1>1 DEF WorkerInv, SlotsHold
<1>11. poll' # "put" /\ poll' # "mark"
  BY <1>7
<1>12. ASSUME Undisturbed, vanished = 0 PROVE TodoHolds' /\ FilesHold'
  <2>1. \A t \in S : row[t].path \in DOMAIN share
    BY <1>4, <1>12 DEF Undisturbed, PathHolds
  <2>2. FilesHold'
    BY <1>1, <1>6, <2>1 DEF FilesHold
  <2>3. TodoHolds'
    BY <1>1, <1>12 DEF Undisturbed, TodoHolds
  <2> QED BY <2>2, <2>3
<1> QED BY <1>1, <1>8, <1>9, <1>10, <1>11, <1>12, LoopTurns

LEMMA TodoTail ==
    ASSUME WorkerInv, todo # <<>>
    PROVE  /\ Tail(todo) \in Seq([id : Tracks, url : Urls \cup {NoUrl}])
           /\ Len(todo) \in Nat \ {0} /\ Len(Tail(todo)) = Len(todo) - 1
           /\ \A i \in 1..Len(Tail(todo)) : i + 1 \in 1..Len(todo) /\ Tail(todo)[i] = todo[i + 1]
<1> DEFINE C == [id : Tracks, url : Urls \cup {NoUrl}]
<1>1. todo \in Seq(C)
  BY DEF WorkerInv, TypeOK
<1> HIDE DEF C
<1>2. /\ Tail(todo) \in Seq(C) /\ Len(todo) \in Nat \ {0} /\ Len(Tail(todo)) = Len(todo) - 1
      /\ \A i \in 1..Len(Tail(todo)) : i + 1 \in 1..Len(todo) /\ Tail(todo)[i] = todo[i + 1]
  BY <1>1, BatchIs
<1> QED BY <1>2 DEF C

LEMMA CopyingTail ==
    ASSUME WorkerInv, copying # <<>>
    PROVE  /\ Tail(copying) \in Seq([id : Tracks, path : Paths])
           /\ \A i \in 1..Len(Tail(copying)) :
                 i + 1 \in 1..Len(copying) /\ Tail(copying)[i] = copying[i + 1]
<1> DEFINE C == [id : Tracks, path : Paths]
<1>1. copying \in Seq(C)
  BY DEF WorkerInv, TypeOK
<1> HIDE DEF C
<1>2. /\ Tail(copying) \in Seq(C)
      /\ \A i \in 1..Len(Tail(copying)) :
            i + 1 \in 1..Len(copying) /\ Tail(copying)[i] = copying[i + 1]
  BY <1>1, BatchIs
<1> QED BY <1>2 DEF C

\* The rows still to claim are as they were read when the first one goes.
LEMMA TodoShrinks ==
    ASSUME WorkerInv, todo # <<>>, todo' = Tail(todo), TodoHolds,
           \A i \in 1..Len(todo') : row'[todo'[i].id] = row[todo'[i].id]
    PROVE  TodoHolds'
<1>1. /\ Len(todo) \in Nat \ {0} /\ Len(todo') = Len(todo) - 1
      /\ \A i \in 1..Len(todo') : i + 1 \in 1..Len(todo) /\ todo'[i] = todo[i + 1]
  BY TodoTail
<1>2. ASSUME NEW i \in 1..Len(todo')
      PROVE  row'[todo'[i].id].status = "pending" /\ row'[todo'[i].id].url = todo'[i].url
  BY <1>1 DEF TodoHolds
<1>3. ASSUME NEW i \in 1..Len(todo'), NEW k \in 1..Len(todo'), todo'[i].id = todo'[k].id
      PROVE  i = k
  <2>1. i + 1 = k + 1
    BY <1>1, <1>3 DEF TodoHolds
  <2> QED BY <2>1, <1>1
<1> QED BY <1>2, <1>3 DEF TodoHolds

LEMMA ClaimKeeps == ASSUME WorkerInv, Claim PROVE Kept
<1>1. /\ poll = "claim" /\ todo # <<>> /\ todo' = Tail(todo)
      /\ UNCHANGED <<held, share, cdn, up, paused, poll, copying, sending, edits, stops, vanished>>
  BY DEF Claim, fileVars, boundVars
<1>2. /\ Head(todo).id \in Tracks /\ Head(todo).url \in Urls \cup {NoUrl} /\ Head(todo) = todo[1]
      /\ 1 \in 1..Len(todo) /\ up /\ copying = <<>>
  BY <1>1, TodoTyped DEF WorkerInv, PollHolds
<1>7. PICK t \in Tracks, u \in Urls \cup {NoUrl} : t = Head(todo).id /\ u = Head(todo).url
  BY <1>2
<1> DEFINE q == [row[t] EXCEPT !.status = "working", !.attempts = row[t].attempts + 1]
           j == [at |-> IF u = NoUrl THEN "match" ELSE "fetch", url |-> u, path |-> NoPath]
<1>3. /\ todo' \in Seq([id : Tracks, url : Urls \cup {NoUrl}])
      /\ Len(todo) \in Nat \ {0} /\ Len(todo') = Len(todo) - 1
      /\ \A i \in 1..Len(todo') : i + 1 \in 1..Len(todo) /\ todo'[i] = todo[i + 1]
  BY <1>1, TodoTail
<1>4. PollHolds' /\ CopyingHolds'
  <2>1. poll' = "claim" /\ up' /\ copying' = <<>>
    BY <1>1, <1>2
  <2> QED BY <2>1 DEF PollHolds, CopyingHolds
<1>5. CASE UNCHANGED <<row, jobs>>
  <2>1. TypeOK' /\ paused' \in BOOLEAN
    BY <1>1, <1>3, <1>5 DEF WorkerInv, TypeOK
  <2>2. Cardinality(Running) + Len(todo') <= Slots
    BY <1>3, RunningIsFinite, NumbersAssumption DEF WorkerInv, SlotsHold
  <2>3. Undisturbed /\ vanished = 0 => TodoHolds' /\ FilesHold'
    <3>1. SUFFICES ASSUME TodoHolds, FilesHold PROVE TodoHolds' /\ FilesHold'
      BY DEF Undisturbed
    <3>2. FilesHold'
      BY <1>1, <3>1 DEF FilesHold
    <3>3. TodoHolds'
      BY <1>1, <1>5, <3>1, TodoShrinks
    <3> QED BY <3>2, <3>3
  <2> QED BY <1>1, <1>4, <1>5, <2>1, <2>2, <2>3, LoopTurns
<1>6. CASE /\ t \notin Running /\ row[t].status = "pending"
           /\ Claimed(t) /\ jobs' = [jobs EXCEPT ![t] = j]
  <2>1. /\ q \in Row /\ q.status = "working" /\ q.url = row[t].url
    <3>1. row[t] \in Row /\ row[t].attempts + 1 \in Nat
      BY TrackIs
    <3> QED BY <3>1 DEF Row, Statuses
  <2>2. row' = [row EXCEPT ![t] = q] /\ row \in [Tracks -> Row] /\ jobs \in [Tracks -> Job]
    BY <1>6 DEF Claimed, WorkerInv, TypeOK
  <2>3. /\ j \in Job /\ j.at = IF u = NoUrl THEN "match" ELSE "fetch"
        /\ j.url = u
    BY <1>2 DEF Job
  <2> HIDE DEF q, j
  <2>4. /\ row'[t] = q /\ jobs'[t] = j
        /\ \A v \in Tracks \ {t} : row'[v] = row[v] /\ jobs'[v] = jobs[v]
    BY <1>2, <1>6, <2>2
  <2>5. TypeOK'
    <3>1. row' \in [Tracks -> Row] /\ jobs' \in [Tracks -> Job]
      BY <1>6, <2>1, <2>2, <2>3
    <3>2. held' \subseteq {v \in Tracks : row'[v].status # "absent"}
      BY <1>1, <1>2, <2>1, <2>2, HeldStays
    <3> QED BY <1>1, <1>3, <3>1, <3>2 DEF WorkerInv, TypeOK
  <2>6. SlotsHold'
    <3>1. Running' \subseteq Running \cup {t}
      BY <2>4 DEF Running
    <3>2. IsFiniteSet(Running \cup {t}) /\ Cardinality(Running \cup {t}) = Cardinality(Running) + 1
      BY <1>6, RunningIsFinite, FS_AddElement
    <3>3. Cardinality(Running') <= Cardinality(Running) + 1
      BY <3>1, <3>2, FS_Subset
    <3> QED BY <1>3, <3>3, RunningIsFinite, NumbersAssumption DEF WorkerInv, SlotsHold
  <2>7. TaskHolds(t)'
    BY <1>2, <2>1, <2>3, <2>4 DEF TaskHolds, Busy
  <2>8. \A v \in Tracks : TaskHolds(v)'
    BY <1>1, <2>4, <2>7 DEF WorkerInv, TaskHolds
  <2>9. CdnHolds'
    <3>1. ASSUME NEW v \in Tracks PROVE MirrorHolds(v)'
      BY <1>1, <2>1, <2>4 DEF WorkerInv, CdnHolds, MirrorHolds, Owns
    <3> QED BY <1>1, <3>1 DEF CdnHolds
  <2>10. WorkerInv'
    BY <1>1, <1>4, <2>5, <2>6, <2>8, <2>9 DEF WorkerInv
  <2>11. ASSUME Undisturbed PROVE Undisturbed'
    <3>1. SUFFICES ASSUME vanished = 0
                   PROVE  (\A v \in Tracks : RowHolds(v)' /\ PathHolds(v)') /\ TodoHolds' /\ FilesHold'
      BY <1>1 DEF Undisturbed
    <3>2. /\ \A v \in Tracks : RowHolds(v) /\ PathHolds(v)
          /\ TodoHolds /\ FilesHold
      BY <2>11, <3>1 DEF Undisturbed
    <3>3. FilesHold'
      BY <1>1, <3>2 DEF FilesHold
    <3>4. ASSUME NEW i \in 1..Len(todo')
          PROVE  todo'[i].id # t /\ row'[todo'[i].id] = row[todo'[i].id]
      <4>1. /\ i + 1 \in 1..Len(todo) /\ todo'[i] = todo[i + 1] /\ i + 1 # 1
        BY <1>3
      <4>2. todo[i + 1].id # t
        BY <1>2, <1>7, <3>2, <4>1 DEF TodoHolds
      <4>3. todo[i + 1].id \in Tracks
        BY <4>1, TodoTyped
      <4> QED BY <2>4, <4>1, <4>2, <4>3
    <3>5. TodoHolds'
      BY <1>1, <3>2, <3>4, TodoShrinks
    <3>6. row[t].url = u
      BY <1>2, <1>7, <3>2 DEF TodoHolds
    <3>7. RowHolds(t)' /\ PathHolds(t)'
      BY <2>1, <2>3, <2>4, <3>6 DEF RowHolds, PathHolds, Busy
    <3>8. \A v \in Tracks \ {t} : RowHolds(v)' /\ PathHolds(v)'
      BY <1>1, <2>4, <3>2 DEF RowHolds, PathHolds
    <3> QED BY <3>3, <3>5, <3>7, <3>8
  <2> QED BY <2>10, <2>11 DEF Kept
<1> QED BY <1>5, <1>6, <1>7 DEF Claim

LEMMA ReadFileKeeps == ASSUME WorkerInv, ReadFile PROVE Kept
<1> DEFINE p == Head(copying).path
<1>1. /\ poll = "copy" /\ p \in DOMAIN share /\ poll' = "put" /\ sending' = share[p]
      /\ UNCHANGED <<row, held, share, cdn, up, jobs, edits, stops, vanished>>
      /\ UNCHANGED <<paused, todo, copying>>
  BY DEF ReadFile, dbVars, fileVars, boundVars
<1>2. share[p] \in Audio
  BY <1>1 DEF WorkerInv, TypeOK
<1> HIDE DEF p
<1>3. TypeOK' /\ paused' \in BOOLEAN
  BY <1>1, <1>2 DEF WorkerInv, TypeOK
<1>4. PollHolds' /\ CopyingHolds'
  BY <1>1, <1>2 DEF WorkerInv, PollHolds, CopyingHolds
<1>5. Cardinality(Running) + Len(todo') <= Slots
  BY <1>1 DEF WorkerInv, SlotsHold
<1>6. \A t \in Tracks : SendingHolds(t, Head(copying))'
  BY <1>1 DEF SendingHolds, p
<1>7. Undisturbed /\ vanished = 0 => TodoHolds' /\ FilesHold'
  BY <1>1 DEF Undisturbed, TodoHolds, FilesHold
<1>8. poll' # "mark"
  BY <1>1
<1> QED BY <1>1, <1>3, <1>4, <1>5, <1>6, <1>7, <1>8, LoopTurns

LEMMA UploadFailsKeeps == ASSUME WorkerInv, UploadFails PROVE Kept
<1>1. /\ poll = "put" /\ poll' = "idle" /\ copying' = <<>> /\ sending' = NoAudio
      /\ UNCHANGED <<row, held, share, cdn, up, jobs, edits, stops, vanished>>
      /\ UNCHANGED <<paused, todo>>
  BY DEF UploadFails, dbVars, fileVars, boundVars
<1>2. TypeOK' /\ paused' \in BOOLEAN
  BY <1>1 DEF WorkerInv, TypeOK
<1>3. PollHolds' /\ CopyingHolds'
  BY <1>1 DEF WorkerInv, PollHolds, CopyingHolds
<1>4. Cardinality(Running) + Len(todo') <= Slots
  BY <1>1 DEF WorkerInv, SlotsHold
<1>5. Undisturbed /\ vanished = 0 => TodoHolds' /\ FilesHold'
  BY <1>1 DEF Undisturbed, TodoHolds, FilesHold
<1>6. poll' # "put" /\ poll' # "mark"
  BY <1>1
<1> QED BY <1>1, <1>2, <1>3, <1>4, <1>5, <1>6, LoopTurns

LEMMA UploadKeeps == ASSUME WorkerInv, Upload PROVE Kept
<1> DEFINE h == Head(copying)
<1>1. /\ poll = "put" /\ poll' = "mark" /\ cdn' = Put(cdn, h.path, sending) /\ sending' = NoAudio
      /\ UNCHANGED <<row, held, share, up, jobs, edits, stops, vanished>>
      /\ UNCHANGED <<paused, todo, copying>>
  BY DEF Upload, dbVars, boundVars
<1>2. sending \in Audio /\ h.id \in Tracks /\ h.path \in Paths
  BY <1>1, CopyingTyped DEF WorkerInv, PollHolds
<1>3. /\ DOMAIN cdn' = DOMAIN cdn \cup {h.path} /\ cdn'[h.path] = sending
      /\ \A o \in DOMAIN cdn \ {h.path} : cdn'[o] = cdn[o]
  BY <1>1 DEF Put
<1>4. TypeOK'
  <2>1. DOMAIN cdn' \subseteq Paths /\ \A o \in DOMAIN cdn' : cdn'[o] \in Audio
    BY <1>2, <1>3 DEF WorkerInv, TypeOK
  <2> QED BY <1>1, <2>1 DEF WorkerInv, TypeOK
<1>5. PollHolds' /\ CopyingHolds' /\ SlotsHold' /\ IsFiniteSet(DOMAIN share)'
  BY <1>1 DEF WorkerInv, PollHolds, CopyingHolds, SlotsHold, Running
<1>6. \A t \in Tracks : TaskHolds(t)'
  BY <1>1 DEF WorkerInv, TaskHolds
<1>7. \A t \in Tracks : SendingHolds(t, h) /\ MirrorHolds(t)
  BY <1>1 DEF WorkerInv, CdnHolds
<1>8. Head(copying') = h /\ h = Head(copying)
  BY <1>1
<1> HIDE DEF h
<1>9. ASSUME NEW t \in Tracks PROVE MirrorHolds(t)'
  <2>1. SUFFICES ASSUME row[t].mirrored, Owns(t, row[t].path)
                 PROVE  row[t].path \in DOMAIN cdn' /\ cdn'[row[t].path] = share[row[t].path]
    BY <1>1 DEF MirrorHolds, Owns
  <2>2. CASE row[t].path = h.path
    BY <1>3, <1>7, <2>1, <2>2 DEF SendingHolds
  <2>3. CASE row[t].path # h.path
    BY <1>3, <1>7, <2>1, <2>3 DEF MirrorHolds
  <2> QED BY <2>2, <2>3
<1>10. SentHolds(Head(copying))'
  BY <1>1, <1>2, <1>3, <1>7, <1>8 DEF SentHolds, SendingHolds, Owns
<1>11. WorkerInv'
  BY <1>1, <1>4, <1>5, <1>6, <1>9, <1>10 DEF WorkerInv, CdnHolds
<1>12. ASSUME Undisturbed PROVE Undisturbed'
  BY <1>1, <1>12 DEF Undisturbed, RowHolds, PathHolds, TodoHolds, FilesHold
<1> QED BY <1>11, <1>12 DEF Kept

\* A copied row gets its mark, or it is marked failed, which no copied row is unless a file was deleted.
LEMMA NextCopyKeeps ==
    ASSUME WorkerInv, NEW t \in Tracks, NEW q \in Row, row' = [row EXCEPT ![t] = q],
           poll \in {"copy", "mark"}, NextCopy,
           UNCHANGED <<held, share, cdn, up, paused, jobs, todo, sending, edits, stops, vanished>>,
           \/ q.status = "failed" /\ ~(Undisturbed /\ vanished = 0)
           \/ /\ q.status = row[t].status /\ q.url = row[t].url /\ q.path = row[t].path
              /\ q.attempts = row[t].attempts,
           MirrorHolds(t)'
    PROVE  Kept
<1>1. /\ row'[t] = q /\ \A u \in Tracks \ {t} : row'[u] = row[u]
      /\ row' \in [Tracks -> Row] /\ TaskHolds(t)
  BY TrackIs DEF WorkerInv, TypeOK
<1>2. /\ copying' = Tail(copying) /\ poll' = IF copying' = <<>> THEN "idle" ELSE "copy"
      /\ copying # <<>>
  BY DEF NextCopy, WorkerInv, PollHolds
<1>3. /\ copying' \in Seq([id : Tracks, path : Paths])
      /\ \A i \in 1..Len(copying') : i + 1 \in 1..Len(copying) /\ copying'[i] = copying[i + 1]
  BY <1>2, CopyingTail
<1>4. TypeOK'
  <2>1. row[t].status # "absent" => q.status # "absent"
    OBVIOUS
  <2>2. held' \subseteq {u \in Tracks : row'[u].status # "absent"}
    BY <2>1, HeldStays
  <2> QED BY <1>1, <1>2, <1>3, <2>2 DEF WorkerInv, TypeOK
<1>5. PollHolds' /\ SlotsHold' /\ IsFiniteSet(DOMAIN share)'
  BY <1>2 DEF WorkerInv, PollHolds, SlotsHold, Running
<1>6. CopyingHolds'
  BY <1>3 DEF WorkerInv, CopyingHolds
<1>7. \A u \in Tracks : TaskHolds(u)'
  <2>1. TaskHolds(t)'
    BY <1>1 DEF TaskHolds
  <2> QED BY <1>1, <2>1 DEF WorkerInv, TaskHolds
<1>8. CdnHolds'
  <2>1. \A u \in Tracks : MirrorHolds(u)'
    BY <1>1 DEF WorkerInv, CdnHolds, MirrorHolds, Owns
  <2> QED BY <1>2, <2>1 DEF CdnHolds
<1>9. WorkerInv'
  BY <1>4, <1>5, <1>6, <1>7, <1>8 DEF WorkerInv
<1>10. ASSUME Undisturbed PROVE Undisturbed'
  <2>1. SUFFICES ASSUME vanished = 0
                 PROVE  (\A u \in Tracks : RowHolds(u)' /\ PathHolds(u)') /\ TodoHolds' /\ FilesHold'
    BY DEF Undisturbed
  <2>2. /\ \A u \in Tracks : RowHolds(u) /\ PathHolds(u)
        /\ TodoHolds /\ FilesHold
    BY <1>10, <2>1 DEF Undisturbed
  <2>3. \A u \in Tracks : /\ row'[u].status = row[u].status /\ row'[u].url = row[u].url
                          /\ row'[u].path = row[u].path /\ row'[u].attempts = row[u].attempts
    BY <1>1, <1>10, <2>1
  <2>4. FilesHold'
    BY <1>3, <2>2 DEF FilesHold
  <2>5. TodoHolds'
    BY <2>2, <2>3, TodoTyped DEF TodoHolds
  <2>6. ASSUME NEW u \in Tracks PROVE RowHolds(u)' /\ PathHolds(u)'
    BY <2>2, <2>3 DEF RowHolds, PathHolds
  <2> QED BY <2>4, <2>5, <2>6
<1> QED BY <1>9, <1>10 DEF Kept

LEMMA FileIsGoneKeeps == ASSUME WorkerInv, FileIsGone PROVE Kept
<1>1. /\ poll = "copy" /\ Head(copying).path \notin DOMAIN share /\ NextCopy
      /\ SetStatus(Head(copying).id, "failed")
      /\ UNCHANGED <<held, share, cdn, up, paused, jobs, todo, sending, edits, stops, vanished>>
  BY DEF FileIsGone, fileVars, boundVars
<1>2. copying # <<>>
  BY <1>1 DEF WorkerInv, PollHolds
<1>3. /\ Head(copying).id \in Tracks /\ 1 \in 1..Len(copying)
      /\ Head(copying) = copying[1]
  BY <1>2, CopyingTyped
<1>4. PICK t \in Tracks : t = Head(copying).id
  BY <1>3
<1> DEFINE q == [row[t] EXCEPT !.status = "failed"]
<1>5. q \in Row /\ q.status = "failed"
  BY TrackIs DEF Row, Statuses, Settled
<1>6. row' = [row EXCEPT ![t] = q] /\ row \in [Tracks -> Row]
  BY <1>1, <1>4 DEF SetStatus, WorkerInv, TypeOK
<1> HIDE DEF q
<1>7. MirrorHolds(t)'
  BY <1>5, <1>6 DEF MirrorHolds, Owns
<1>8. ~(Undisturbed /\ vanished = 0)
  BY <1>1, <1>3 DEF Undisturbed, FilesHold
<1> QED BY <1>1, <1>5, <1>6, <1>7, <1>8, NextCopyKeeps

LEMMA MarkMirroredKeeps == ASSUME WorkerInv, MarkMirrored PROVE Kept
<1>1. /\ poll = "mark" /\ NextCopy
      /\ Mirrored(Head(copying).id, Head(copying).path)
      /\ UNCHANGED <<held, share, cdn, up, paused, jobs, todo, sending, edits, stops, vanished>>
  BY DEF MarkMirrored, fileVars, boundVars
<1>2. copying # <<>> /\ SentHolds(Head(copying))
  BY <1>1 DEF WorkerInv, PollHolds, CdnHolds
<1>3. Head(copying).id \in Tracks /\ Head(copying).path \in Paths
  BY <1>2, CopyingTyped
<1>4. PICK t \in Tracks, p \in Paths : t = Head(copying).id /\ p = Head(copying).path
  BY <1>3
<1> DEFINE q == [row[t] EXCEPT !.mirrored = IF row[t].path = p THEN TRUE ELSE row[t].mirrored]
<1>5. /\ q \in Row /\ q.status = row[t].status /\ q.url = row[t].url /\ q.path = row[t].path
      /\ q.attempts = row[t].attempts /\ q.mirrored = IF row[t].path = p THEN TRUE ELSE row[t].mirrored
  BY TrackIs DEF Row
<1>6. row' = [row EXCEPT ![t] = q] /\ row \in [Tracks -> Row]
  BY <1>1, <1>4 DEF Mirrored, WorkerInv, TypeOK
<1> HIDE DEF q
<1>7. row'[t] = q
  BY <1>6
<1>8. MirrorHolds(t)'
  <2>1. CASE row[t].path = p
    BY <1>1, <1>2, <1>4, <1>5, <1>7, <2>1 DEF MirrorHolds, SentHolds, Owns
  <2>2. CASE row[t].path # p
    BY <1>1, <1>5, <1>7, <2>2 DEF WorkerInv, CdnHolds, MirrorHolds, Owns
  <2> QED BY <2>1, <2>2
<1> QED BY <1>1, <1>5, <1>6, <1>8, NextCopyKeeps

LEMMA MirrorKeeps == ASSUME WorkerInv, Mirror PROVE Kept
  BY FetchUnmirroredKeeps, FileIsGoneKeeps, ReadFileKeeps, UploadKeeps, UploadFailsKeeps,
     MarkMirroredKeeps DEF Mirror

LEMMA VanishKeeps == ASSUME WorkerInv, NEW p \in DOMAIN share, Vanish(p) PROVE Kept
<1>1. /\ stops + vanished < MaxFault /\ vanished' = vanished + 1
      /\ share' = [o \in DOMAIN share \ {p} |-> share[o]]
      /\ UNCHANGED <<row, held, cdn, up, paused, jobs, poll, todo, copying, sending, edits, stops>>
  BY DEF Vanish, dbVars, pollVars
<1>2. stops \in Nat /\ vanished \in Nat
  BY DEF WorkerInv, TypeOK
<1>3. TypeOK'
  <2>1. vanished' \in 0..MaxFault
    BY <1>1, <1>2, NumbersAssumption
  <2>2. DOMAIN share' \subseteq Paths /\ \A o \in DOMAIN share' : share'[o] \in Audio
    BY <1>1 DEF WorkerInv, TypeOK
  <2> QED BY <1>1, <2>1, <2>2 DEF WorkerInv, TypeOK
<1>4. IsFiniteSet(DOMAIN share)'
  BY <1>1, FS_RemoveElement DEF WorkerInv
<1>5. PollHolds' /\ SlotsHold' /\ CopyingHolds'
  BY <1>1 DEF WorkerInv, PollHolds, SlotsHold, CopyingHolds, Running
<1>6. \A u \in Tracks : TaskHolds(u)'
  BY <1>1 DEF WorkerInv, TaskHolds
<1>7. CdnHolds'
  <2>1. ASSUME NEW u, NEW o, Owns(u, o)' PROVE Owns(u, o) /\ share'[o] = share[o]
    <3>1. row[u].status = "ready" /\ row[u].path = o /\ o \in DOMAIN share' /\ share'[o][1] = u
      BY <1>1, <2>1 DEF Owns
    <3> QED BY <1>1, <3>1 DEF Owns
  <2>2. ASSUME NEW u \in Tracks PROVE MirrorHolds(u)'
    BY <1>1, <2>1 DEF WorkerInv, CdnHolds, MirrorHolds
  <2>3. ASSUME poll = "put", NEW u \in Tracks PROVE SendingHolds(u, Head(copying))'
    BY <1>1, <2>1, <2>3 DEF WorkerInv, CdnHolds, SendingHolds
  <2>4. ASSUME poll = "mark" PROVE SentHolds(Head(copying))'
    BY <1>1, <2>1, <2>4 DEF WorkerInv, CdnHolds, SentHolds
  <2> QED BY <1>1, <2>2, <2>3, <2>4 DEF CdnHolds
<1>8. WorkerInv'
  BY <1>3, <1>4, <1>5, <1>6, <1>7 DEF WorkerInv
<1>9. Undisturbed'
  BY <1>1, <1>2 DEF Undisturbed
<1> QED BY <1>8, <1>9 DEF Kept

LEMMA WorkerSteps == ASSUME WorkerInv, [Next]_vars PROVE Kept
<1>1. CASE Next
  <2>1. CASE Start \/ Stop \/ FetchPending \/ Claim \/ PauseEnds
    BY <2>1, StartKeeps, StopKeeps, FetchPendingKeeps, ClaimKeeps, PauseEndsKeeps
  <2>2. CASE \E t \in Tracks : Task(t)
    BY <2>2, TaskKeeps
  <2>3. CASE \E p \in DOMAIN share : Vanish(p)
    BY <2>3, VanishKeeps
  <2> QED BY <1>1, <2>1, <2>2, <2>3, MirrorKeeps, MemberKeeps DEF Next
<1>2. CASE UNCHANGED vars
  BY <1>2, PauseEndsKeeps
<1> QED BY <1>1, <1>2

LEMMA WorkerStarts == ASSUME Init PROVE WorkerInv /\ Undisturbed
<1>1. NoRow \in Row /\ NoJob \in Job /\ NoJob.at = "none" /\ NoRow.status = "absent" /\ NoRow.url = NoUrl
  BY DEF NoRow, NoJob, Row, Job, Statuses
<1>2. \A t \in Tracks : row[t] = NoRow /\ jobs[t] = NoJob
  BY DEF Init
<1>3. TypeOK
  <2>1. row \in [Tracks -> Row] /\ jobs \in [Tracks -> Job] /\ held = {}
    BY <1>1 DEF Init
  <2>2. DOMAIN share = {} /\ DOMAIN cdn = {}
    BY DEF Init
  <2>3. todo \in Seq([id : Tracks, url : Urls \cup {NoUrl}]) /\ copying \in Seq([id : Tracks, path : Paths])
    BY DEF Init
  <2>4. /\ up \in BOOLEAN /\ paused \in BOOLEAN /\ poll = "idle" /\ sending = NoAudio
        /\ edits \in 0..MaxEdit /\ stops \in 0..MaxFault /\ vanished \in 0..MaxFault
    <3>1. 0 \in 0..MaxEdit /\ 0 \in 0..MaxFault
      BY NumbersAssumption
    <3>2. up = FALSE /\ paused = FALSE /\ poll = "idle" /\ sending = NoAudio
      BY DEF Init
    <3>3. edits = 0 /\ stops = 0 /\ vanished = 0
      BY DEF Init
    <3> QED BY <3>1, <3>2, <3>3
  <2> QED BY <2>1, <2>2, <2>3, <2>4 DEF TypeOK
<1>4. IsFiniteSet(DOMAIN share)
  <2>1. DOMAIN share = {}
    BY DEF Init
  <2> QED BY <2>1, FS_EmptySet
<1>5. PollHolds /\ CopyingHolds
  BY <1>1, <1>2 DEF Init, PollHolds, CopyingHolds
<1>6. SlotsHold
  <2>1. Running = {} /\ Len(todo) = 0
    BY <1>1, <1>2 DEF Init, Running
  <2> QED BY <2>1, FS_EmptySet, NumbersAssumption DEF SlotsHold
<1>7. \A t \in Tracks : TaskHolds(t) /\ MirrorHolds(t) /\ RowHolds(t) /\ PathHolds(t)
  BY <1>1, <1>2 DEF TaskHolds, MirrorHolds, Owns, RowHolds, PathHolds, Busy
<1>8. CdnHolds /\ TodoHolds /\ FilesHold
  BY <1>7 DEF Init, CdnHolds, TodoHolds, FilesHold
<1> QED BY <1>3, <1>4, <1>5, <1>6, <1>7, <1>8 DEF WorkerInv, Undisturbed

\* What the invariant says of the tracks while the files are left alone.
LEMMA TracksFollow ==
    ASSUME WorkerInv
    PROVE  /\ WorkingIsHeld /\ SlotsKept /\ MirroredIsCurrent
           /\ Undisturbed => ReadyHasItsAudio /\ PickIsHonoured
<1>1. WorkingIsHeld
  BY DEF WorkerInv, TaskHolds, WorkingIsHeld, Busy
<1>2. SlotsKept
  BY TodoTyped, RunningIsFinite, NumbersAssumption DEF WorkerInv, SlotsHold, SlotsKept
<1>3. MirroredIsCurrent
  BY DEF WorkerInv, CdnHolds, MirrorHolds, Owns, MirroredIsCurrent
<1>4. ASSUME Undisturbed PROVE ReadyHasItsAudio /\ PickIsHonoured
  BY <1>4 DEF Undisturbed, PathHolds, ReadyHasItsAudio, PickIsHonoured
<1> QED BY <1>1, <1>2, <1>3, <1>4

-----------------------------------------------------------------------------
(* The playlists: the inductive invariant.                                 *)

RunRow == [at : Playlists!Stages, goal : Playlists!Goals, of : Nat, id : Nat,
           known : Playlists!Versions \cup {0}, found : Playlists!Versions \cup {0},
           got : SUBSET Tracks, refreshed : BOOLEAN]

ListRow == [id : Nat, snapshot : Playlists!Versions \cup {0}, due : BOOLEAN]

\* The link and what Spotify knows of it: tokens are numbered as they are handed out.
LinkHolds ==
    /\ issued \in 0..MaxToken /\ alive \subseteq 1..issued /\ lost \in BOOLEAN
    /\ link \in [token : Nat, fresh : BOOLEAN] /\ link.token <= issued
    /\ Playlists!LinkStaysAlive

\* The playlist's row and its entries; a snapshot_id is none of the future.
ListHolds ==
    /\ upstream \in Playlists!Versions /\ inserted \in 0..MaxPlaylist
    /\ listRow \in ListRow /\ listRow.id <= inserted /\ listRow.snapshot <= upstream
    /\ listed \subseteq Tracks /\ flagged \subseteq Tracks /\ listed \cap flagged = {}
    /\ listRow.id = 0 => listed = {} /\ flagged = {}
    /\ overlapped \in BOOLEAN

\* A run that writes entries, or has written them and not yet their snapshot_id.
Writes(r) == run[r].at \in {"save", "saving"} \/ (run[r].at = "mark" /\ run[r].found # 0)

\* A run has read the playlist's snapshot_id before its tracks, and both from Spotify; what it
\* writes goes to a row that was inserted, and is there as long as it writes entries.
ReadHolds(r) ==
    /\ run[r].of <= inserted /\ run[r].id <= inserted /\ run[r].found <= upstream
    /\ run[r].at \in {"token", "refresh", "request"} /\ run[r].goal = "tracks" => run[r].found # 0
    /\ run[r].at \in {"upsert", "save", "saving"} =>
          run[r].found # 0 /\ \E v \in run[r].found..upstream : run[r].got = Content[v]
    /\ Writes(r) => run[r].id # 0
    /\ run[r].at = "saving" => run[r].id = listRow.id

\* The entries are those of the row's snapshot_id, if it is the newest.
Solid == listRow.snapshot = upstream => listed = Content[upstream]

\* The row's entries are written and their snapshot_id is not.
Marks(r) == Writes(r) /\ run[r].at = "mark" /\ run[r].id = listRow.id

\* Unless two runs have been storing at once, one writes at most; until it has written the entries
\* they are solid, and between them and their snapshot_id they are no older than it.
StoreHolds ==
    ~overlapped =>
        /\ \A q, r \in Runs : Writes(q) /\ Writes(r) => q = r
        /\ (\A r \in Runs : ~Marks(r)) => Solid
        /\ \A r \in Runs : Marks(r) => \E v \in run[r].found..upstream : listed = Content[v]

ListsInv ==
    /\ LinkHolds /\ ListHolds /\ run \in [Runs -> RunRow]
    /\ (\A r \in Runs : ReadHolds(r)) /\ StoreHolds

LEMMA VersionsAre ==
    /\ Playlists!Versions = 1..Len(Content) /\ Len(Content) \in Nat \ {0}
    /\ \A v \in Playlists!Versions : v \in Nat \ {0} /\ Content[v] \subseteq Tracks
<1> DEFINE S == SUBSET Tracks
<1>1. Content \in Seq(S) /\ Content # <<>>
  BY ContentAssumption
<1> HIDE DEF S
<1>2. Len(Content) \in Nat \ {0} /\ DOMAIN Content = 1..Len(Content)
  BY <1>1, EmptySeq
<1>3. \A v \in 1..Len(Content) : Content[v] \in S
  BY <1>1
<1> QED BY <1>2, <1>3 DEF S, Playlists!Versions

LEMMA RunIs ==
    ASSUME ListsInv, NEW r \in Runs
    PROVE  /\ run[r] \in RunRow /\ ReadHolds(r)
           /\ run[r].at \in Playlists!Stages /\ run[r].goal \in Playlists!Goals
           /\ run[r].of \in Nat /\ run[r].id \in Nat
           /\ run[r].known \in Playlists!Versions \cup {0}
           /\ run[r].found \in Playlists!Versions \cup {0} /\ run[r].found \in Nat
           /\ run[r].got \subseteq Tracks /\ run[r].refreshed \in BOOLEAN
<1>1. run[r] \in RunRow /\ ReadHolds(r)
  BY DEF ListsInv
<1> QED BY <1>1, VersionsAre DEF RunRow

LEMMA ListIs ==
    ASSUME ListsInv
    PROVE  /\ listRow \in ListRow /\ listRow.id \in Nat /\ listRow.snapshot \in Nat
           /\ listRow.due \in BOOLEAN /\ upstream \in Nat \ {0} /\ inserted \in Nat
           /\ upstream \in Playlists!Versions /\ Content[upstream] \subseteq Tracks
           /\ listRow.snapshot \in Playlists!Versions \cup {0}
<1>1. listRow \in ListRow /\ upstream \in Playlists!Versions /\ inserted \in 0..MaxPlaylist
  BY DEF ListsInv, ListHolds
<1> QED BY <1>1, VersionsAre, ListBoundsAssumption DEF ListRow

\* A step of one run that touches neither the row nor its entries.
LEMMA OneRun ==
    ASSUME ListsInv, NEW r \in Runs, NEW q \in RunRow, run' = [run EXCEPT ![r] = q],
           UNCHANGED <<upstream, listRow, inserted, listed, flagged, overlapped>>,
           LinkHolds', ReadHolds(r)', Writes(r)' => Writes(r),
           ~Marks(r), Writes(r)' => q.at # "mark"
    PROVE  ListsInv'
<1>1. run' \in [Runs -> RunRow] /\ run'[r] = q /\ \A s \in Runs \ {r} : run'[s] = run[s]
  BY DEF ListsInv
<1>2. ListHolds'
  BY DEF ListsInv, ListHolds
<1>3. ASSUME NEW s \in Runs PROVE ReadHolds(s)'
  BY <1>1 DEF ListsInv, ReadHolds, Writes
<1>4. \A s \in Runs : Writes(s)' => Writes(s)
  BY <1>1 DEF Writes
<1>5. \A s \in Runs : Marks(s)' <=> Marks(s)
  BY <1>1 DEF Marks, Writes
<1>6. StoreHolds'
  <2>1. SUFFICES ASSUME ~overlapped
                 PROVE  /\ \A s, u \in Runs : Writes(s)' /\ Writes(u)' => s = u
                        /\ (\A s \in Runs : ~Marks(s)') => Solid'
                        /\ \A s \in Runs : Marks(s)' => \E v \in run'[s].found..upstream : listed = Content[v]
    BY DEF StoreHolds
  <2>2. \A s, u \in Runs : Writes(s)' /\ Writes(u)' => s = u
    BY <1>4, <2>1 DEF ListsInv, StoreHolds
  <2>3. (\A s \in Runs : ~Marks(s)') => Solid'
    BY <1>5, <2>1 DEF ListsInv, StoreHolds, Solid
  <2>4. ASSUME NEW s \in Runs, Marks(s)' PROVE \E v \in run'[s].found..upstream : listed = Content[v]
    <3>1. Marks(s) /\ run'[s] = run[s]
      BY <1>1, <1>5, <2>4
    <3> QED BY <2>1, <3>1 DEF ListsInv, StoreHolds
  <2> QED BY <2>2, <2>3, <2>4
<1> QED BY <1>1, <1>2, <1>3, <1>6 DEF ListsInv

-----------------------------------------------------------------------------
(* The steps of a run.                                                     *)

CallStages == {"token", "refresh", "request"}

\* The run is over: by itself, or after its failure was noted.
LEMMA RaisesKeeps ==
    ASSUME ListsInv, NEW r \in Runs, Playlists!Raises(r), run[r].at # "mark", LinkHolds',
           upstream' = upstream
    PROVE  ListsInv'
<1> DEFINE q == IF run[r].of = 0 THEN Playlists!Idle
                ELSE [Playlists!Idle EXCEPT !.at = "failed", !.of = run[r].of]
<1>1. /\ run' = [run EXCEPT ![r] = q]
      /\ UNCHANGED <<listRow, inserted, listed, flagged, overlapped>>
  BY DEF Playlists!Raises, Playlists!Goes, Playlists!rows
<1>2. /\ q \in RunRow /\ q.at \in {"idle", "failed"} /\ (q.of = 0 \/ q.of = run[r].of)
      /\ q.id = 0 /\ q.found = 0
  BY RunIs DEF RunRow, Playlists!Idle, Playlists!Stages, Playlists!Goals
<1> HIDE DEF q
<1>3. run'[r] = q
  BY <1>1 DEF ListsInv
<1>4. ReadHolds(r)' /\ ~Writes(r)'
  BY <1>1, <1>2, <1>3, RunIs, ListIs DEF ReadHolds, Writes
<1>5. ~Marks(r)
  BY DEF Marks
<1> QED BY <1>1, <1>2, <1>4, <1>5, OneRun

\* A run's API call goes on, with what the run has read so far.
LEMMA CallKeeps ==
    ASSUME ListsInv, NEW r \in Runs, run[r].at \in CallStages, NEW at \in CallStages,
           NEW b \in BOOLEAN, Playlists!Goes(r, [run[r] EXCEPT !.at = at, !.refreshed = b]),
           LinkHolds', upstream' = upstream
    PROVE  ListsInv'
<1> DEFINE q == [run[r] EXCEPT !.at = at, !.refreshed = b]
<1>1. /\ run' = [run EXCEPT ![r] = q]
      /\ UNCHANGED <<listRow, inserted, listed, flagged, overlapped>>
  BY DEF Playlists!Goes, Playlists!rows
<1>2. /\ q \in RunRow /\ q.at = at /\ q.of = run[r].of /\ q.id = run[r].id
      /\ q.found = run[r].found /\ q.goal = run[r].goal
  BY RunIs DEF RunRow, Playlists!Stages, CallStages
<1> HIDE DEF q
<1>3. run'[r] = q
  BY <1>1 DEF ListsInv
<1>4. ReadHolds(r)' /\ ~Writes(r)' /\ ~Marks(r)
  BY <1>1, <1>2, <1>3, RunIs DEF ReadHolds, Writes, Marks, CallStages
<1> QED BY <1>1, <1>2, <1>4, OneRun

\* A run begins, with the row's id and snapshot_id or without.
LEMMA BeginKeeps ==
    ASSUME ListsInv, NEW r \in Runs, NEW id \in Nat, id <= inserted,
           NEW known \in Playlists!Versions \cup {0}, Playlists!Begin(r, id, known)
    PROVE  ListsInv'
<1> DEFINE g == IF known = 0 THEN "meta" ELSE "snapshot"
           q == [[run[r] EXCEPT !.at = "token", !.goal = g, !.refreshed = FALSE]
                 EXCEPT !.of = id, !.id = id, !.known = known]
<1>1. /\ run[r].at = "idle" /\ run' = [run EXCEPT ![r] = q]
      /\ UNCHANGED <<upstream, alive, issued, lost, link>>
      /\ UNCHANGED <<listRow, inserted, listed, flagged, overlapped>>
  BY DEF Playlists!Begin, Playlists!Calls, Playlists!rows, Playlists!spotify
<1>2. /\ q \in RunRow /\ q.at = "token" /\ q.of = id /\ q.id = id
      /\ q.found = run[r].found /\ q.goal # "tracks"
  BY RunIs DEF RunRow, Playlists!Stages, Playlists!Goals
<1> HIDE DEF q
<1>3. run'[r] = q
  BY <1>1 DEF ListsInv
<1>4. ReadHolds(r)' /\ ~Writes(r)' /\ ~Marks(r)
  BY <1>1, <1>2, <1>3, RunIs DEF ReadHolds, Writes, Marks
<1>5. LinkHolds'
  BY <1>1 DEF ListsInv, LinkHolds, Playlists!LinkStaysAlive
<1> QED BY <1>1, <1>2, <1>4, <1>5, OneRun

\* Nothing happens to the link.
LEMMA LinkRests ==
    ASSUME ListsInv, UNCHANGED <<Playlists!spotify, link>>
    PROVE  LinkHolds' /\ upstream' = upstream
  BY DEF ListsInv, LinkHolds, Playlists!LinkStaysAlive, Playlists!spotify

\* Spotify takes the refresh token and ends it when it rotates it.
LEMMA RotatedIs ==
    ASSUME ListsInv, issued < MaxToken, Playlists!Rotated
    PROVE  /\ issued' \in 0..MaxToken /\ alive' \subseteq 1..issued' /\ issued' \in alive'
           /\ issued' = issued + 1 /\ issued \in Nat
<1>1. issued \in Nat /\ MaxToken \in Nat /\ alive \subseteq 1..issued
  BY ListBoundsAssumption DEF ListsInv, LinkHolds
<1>2. issued' = issued + 1 /\ alive' = (alive \ {link.token}) \cup {issued + 1}
  BY DEF Playlists!Rotated
<1>3. issued + 1 \in 1..(issued + 1) /\ \A n \in 1..issued : n \in 1..(issued + 1)
  BY <1>1
<1>4. alive' \subseteq 1..(issued + 1) /\ issued + 1 \in alive'
  BY <1>1, <1>2, <1>3
<1>5. issued + 1 \in 0..MaxToken
  BY <1>1
<1> QED BY <1>1, <1>2, <1>4, <1>5

LEMMA CallsKeep ==
    ASSUME ListsInv, NEW r \in Runs,
           \/ Playlists!TakeLink(r) \/ Playlists!NotConnected(r) \/ Playlists!RefreshRefused(r)
           \/ Playlists!Unauthorized(r) \/ Playlists!Retried(r) \/ Playlists!RequestRefused(r)
    PROVE  ListsInv'
<1>1. /\ run[r].at \in CallStages /\ UNCHANGED <<Playlists!spotify, link>>
      /\ \/ Playlists!Raises(r)
         \/ Playlists!Goes(r, [run[r] EXCEPT !.at = "refresh"])
         \/ Playlists!Goes(r, [run[r] EXCEPT !.at = "token"])
         \/ Playlists!Goes(r, [run[r] EXCEPT !.at = "token", !.refreshed = TRUE])
  BY DEF Playlists!TakeLink, Playlists!NotConnected, Playlists!RefreshRefused,
         Playlists!Unauthorized, Playlists!Retried, Playlists!RequestRefused, Playlists!HasToken,
         CallStages
<1>2. LinkHolds' /\ upstream' = upstream
  BY <1>1, LinkRests
<1>3. /\ run[r].refreshed \in BOOLEAN
      /\ \A at : [run[r] EXCEPT !.at = at] = [run[r] EXCEPT !.at = at, !.refreshed = run[r].refreshed]
  BY RunIs DEF RunRow
<1>4. CASE Playlists!Raises(r)
  BY <1>1, <1>2, <1>4, RaisesKeeps DEF CallStages
<1>5. CASE Playlists!Goes(r, [run[r] EXCEPT !.at = "refresh"])
  BY <1>1, <1>2, <1>3, <1>5, CallKeeps DEF CallStages
<1>6. CASE Playlists!Goes(r, [run[r] EXCEPT !.at = "token"])
  BY <1>1, <1>2, <1>3, <1>6, CallKeeps DEF CallStages
<1>7. CASE Playlists!Goes(r, [run[r] EXCEPT !.at = "token", !.refreshed = TRUE])
  BY <1>1, <1>2, <1>7, CallKeeps DEF CallStages
<1> QED BY <1>1, <1>4, <1>5, <1>6, <1>7

LEMMA RefreshKeeps == ASSUME ListsInv, NEW r \in Runs, Playlists!Refresh(r) PROVE ListsInv'
<1>1. /\ run[r].at = "refresh" /\ link.token \in alive /\ upstream' = upstream /\ lost' = lost
      /\ \/ UNCHANGED <<alive, issued>> /\ link' = [link EXCEPT !.fresh = TRUE]
         \/ issued < MaxToken /\ Playlists!Rotated /\ link' = [token |-> issued', fresh |-> TRUE]
      /\ Playlists!Goes(r, [run[r] EXCEPT !.at = "request"])
  BY DEF Playlists!Refresh
<1>2. /\ run[r].refreshed \in BOOLEAN
      /\ [run[r] EXCEPT !.at = "request"] = [run[r] EXCEPT !.at = "request", !.refreshed = run[r].refreshed]
  BY RunIs DEF RunRow
<1>3. LinkHolds'
  <2>1. CASE UNCHANGED <<alive, issued>> /\ link' = [link EXCEPT !.fresh = TRUE]
    BY <1>1, <2>1 DEF ListsInv, LinkHolds, Playlists!LinkStaysAlive
  <2>2. CASE issued < MaxToken /\ Playlists!Rotated /\ link' = [token |-> issued', fresh |-> TRUE]
    BY <1>1, <2>2, RotatedIs DEF ListsInv, LinkHolds, Playlists!LinkStaysAlive
  <2> QED BY <1>1, <2>1, <2>2
<1> QED BY <1>1, <1>2, <1>3, CallKeeps DEF CallStages

LEMMA RefreshLostKeeps == ASSUME ListsInv, NEW r \in Runs, Playlists!RefreshLost(r) PROVE ListsInv'
<1>1. /\ run[r].at = "refresh" /\ upstream' = upstream /\ link' = link /\ Playlists!Raises(r)
      /\ \/ UNCHANGED <<alive, issued, lost>>
         \/ issued < MaxToken /\ Playlists!Rotated /\ lost' = TRUE
  BY DEF Playlists!RefreshLost
<1>2. LinkHolds'
  <2>1. CASE UNCHANGED <<alive, issued, lost>>
    BY <1>1, <2>1 DEF ListsInv, LinkHolds, Playlists!LinkStaysAlive
  <2>2. CASE issued < MaxToken /\ Playlists!Rotated /\ lost' = TRUE
    BY <1>1, <2>2, RotatedIs DEF ListsInv, LinkHolds, Playlists!LinkStaysAlive
  <2> QED BY <1>1, <2>1, <2>2
<1> QED BY <1>1, <1>2, RaisesKeeps

LEMMA SucceedsKeeps == ASSUME ListsInv, NEW r \in Runs, Playlists!Succeeds(r) PROVE ListsInv'
<1> DEFINE q == Playlists!Answered(r)
<1>1. /\ run[r].at \in CallStages /\ UNCHANGED <<Playlists!spotify, link>>
      /\ run' = [run EXCEPT ![r] = q]
      /\ UNCHANGED <<listRow, inserted, listed, flagged, overlapped>>
  BY DEF Playlists!Succeeds, Playlists!HasToken, CallStages, Playlists!Goes, Playlists!rows
<1>2. LinkHolds' /\ upstream' = upstream
  BY <1>1, LinkRests
<1>3. ~Marks(r)
  BY <1>1 DEF Marks, CallStages
<1>4. CASE run[r].goal = "snapshot" /\ upstream = run[r].known
  <2>1. q = [Playlists!Idle EXCEPT !.at = "mark", !.id = run[r].of]
    BY <1>4 DEF Playlists!Answered, Playlists!Compared
  <2>2. q \in RunRow /\ q.at = "mark" /\ q.id = run[r].of /\ q.of = 0 /\ q.found = 0
    <3>1. /\ Playlists!Idle \in RunRow /\ Playlists!Idle.of = 0 /\ Playlists!Idle.found = 0
          /\ "mark" \in Playlists!Stages /\ run[r].of \in Nat
      BY RunIs DEF RunRow, Playlists!Idle, Playlists!Stages, Playlists!Goals
    <3> QED BY <2>1, <3>1 DEF RunRow
  <2> HIDE DEF q
  <2>3. run'[r] = q
    BY <1>1 DEF ListsInv
  <2>4. ReadHolds(r)' /\ ~Writes(r)'
    BY <1>1, <1>2, <2>2, <2>3, RunIs, ListIs DEF ReadHolds, Writes
  <2> QED BY <1>1, <1>2, <1>3, <2>2, <2>4, OneRun
<1>5. CASE run[r].goal = "snapshot" /\ upstream # run[r].known
  <2>1. q = [[run[r] EXCEPT !.at = "token", !.goal = "meta", !.refreshed = FALSE] EXCEPT !.known = 0]
    BY <1>5 DEF Playlists!Answered, Playlists!Compared, Playlists!Calls
  <2>2. /\ q \in RunRow /\ q.at = "token" /\ q.goal = "meta" /\ q.of = run[r].of
        /\ q.id = run[r].id /\ q.found = run[r].found
    BY <2>1, RunIs DEF RunRow, Playlists!Stages, Playlists!Goals
  <2> HIDE DEF q
  <2>3. run'[r] = q
    BY <1>1 DEF ListsInv
  <2>4. ReadHolds(r)' /\ ~Writes(r)'
    BY <1>1, <1>2, <2>2, <2>3, RunIs DEF ReadHolds, Writes
  <2> QED BY <1>1, <1>2, <1>3, <2>2, <2>4, OneRun
<1>6. CASE run[r].goal = "meta"
  <2>1. q = [[run[r] EXCEPT !.at = "token", !.goal = "tracks", !.refreshed = FALSE] EXCEPT !.found = upstream]
    BY <1>6 DEF Playlists!Answered, Playlists!Calls
  <2>2. /\ q \in RunRow /\ q.at = "token" /\ q.of = run[r].of
        /\ q.id = run[r].id /\ q.found = upstream
    BY <2>1, RunIs, ListIs DEF RunRow, Playlists!Stages, Playlists!Goals
  <2> HIDE DEF q
  <2>3. run'[r] = q
    BY <1>1 DEF ListsInv
  <2>4. ReadHolds(r)' /\ ~Writes(r)'
    BY <1>1, <1>2, <2>2, <2>3, RunIs, ListIs DEF ReadHolds, Writes
  <2> QED BY <1>1, <1>2, <1>3, <2>2, <2>4, OneRun
<1>7. CASE run[r].goal = "tracks"
  <2>1. q = [[run[r] EXCEPT !.at = "token", !.goal = "meta", !.refreshed = FALSE]
             EXCEPT !.at = "upsert", !.got = Content[upstream]]
    BY <1>7 DEF Playlists!Answered, Playlists!Read, Playlists!Calls
  <2>2. /\ q \in RunRow /\ q.at = "upsert" /\ q.of = run[r].of
        /\ q.id = run[r].id /\ q.found = run[r].found /\ q.got = Content[upstream]
    BY <2>1, RunIs, ListIs DEF RunRow, Playlists!Stages, Playlists!Goals
  <2> HIDE DEF q
  <2>3. run'[r] = q
    BY <1>1 DEF ListsInv
  <2>4. run[r].found # 0 /\ upstream \in run[r].found..upstream
    BY <1>1, <1>7, RunIs, ListIs DEF ReadHolds, CallStages
  <2>5. ReadHolds(r)' /\ ~Writes(r)'
    BY <1>1, <1>2, <2>2, <2>3, <2>4, RunIs DEF ReadHolds, Writes
  <2> QED BY <1>1, <1>2, <1>3, <2>2, <2>5, OneRun
<1> QED BY <1>4, <1>5, <1>6, <1>7, RunIs DEF Playlists!Goals

LEMMA SaveTracksKeeps == ASSUME ListsInv, NEW r \in Runs, Playlists!SaveTracks(r) PROVE ListsInv'
<1> DEFINE q == [run[r] EXCEPT !.at = "saving"]
<1>1. /\ run[r].at = "save" /\ run[r].id = listRow.id /\ run' = [run EXCEPT ![r] = q]
      /\ UNCHANGED <<Playlists!spotify, link>>
      /\ UNCHANGED <<listRow, inserted, listed, flagged, overlapped>>
  BY DEF Playlists!SaveTracks, Playlists!Goes, Playlists!rows
<1>2. LinkHolds' /\ upstream' = upstream
  BY <1>1, LinkRests
<1>3. /\ q \in RunRow /\ q.at = "saving" /\ q.of = run[r].of /\ q.id = run[r].id
      /\ q.found = run[r].found /\ q.got = run[r].got
  BY RunIs DEF RunRow, Playlists!Stages
<1> HIDE DEF q
<1>4. run'[r] = q
  BY <1>1 DEF ListsInv
<1>5. ReadHolds(r)' /\ Writes(r) /\ ~Marks(r)
  BY <1>1, <1>2, <1>3, <1>4, RunIs DEF ReadHolds, Writes, Marks
<1> QED BY <1>1, <1>2, <1>3, <1>5, OneRun

LEMMA StoreFailsKeeps == ASSUME ListsInv, NEW r \in Runs, Playlists!StoreFails(r) PROVE ListsInv'
<1>1. /\ run[r].at # "mark" /\ Playlists!Raises(r) /\ UNCHANGED <<Playlists!spotify, link>>
  BY DEF Playlists!StoreFails
<1> QED BY <1>1, LinkRests, RaisesKeeps

LEMMA BeginsKeep ==
    ASSUME ListsInv, NEW r \in Runs, Playlists!SyncDue(r) \/ Playlists!SyncNow(r) \/ Playlists!Import(r)
    PROVE  ListsInv'
<1>1. listRow.id <= inserted /\ 0 <= inserted
  BY ListIs DEF ListsInv, ListHolds
<1>2. CASE Playlists!SyncDue(r)
  BY <1>1, <1>2, ListIs, BeginKeeps DEF Playlists!SyncDue
<1>3. CASE Playlists!SyncNow(r)
  BY <1>1, <1>3, ListIs, BeginKeeps DEF Playlists!SyncNow
<1>4. CASE Playlists!Import(r)
  BY <1>1, <1>4, BeginKeeps DEF Playlists!Import
<1> QED BY <1>2, <1>3, <1>4

-----------------------------------------------------------------------------
(* The writes of _store, the member and Spotify.                           *)

LEMMA UpsertPlaylistKeeps == ASSUME ListsInv, NEW r \in Runs, Playlists!UpsertPlaylist(r) PROVE ListsInv'
<1>1. /\ run[r].at = "upsert" /\ (listRow.id # 0 \/ inserted < MaxPlaylist)
      /\ overlapped' = (overlapped \/ \E q \in Runs \ {r} : Playlists!Storing(q))
      /\ UNCHANGED <<Playlists!spotify, link>> /\ UNCHANGED <<listed, flagged>>
  BY DEF Playlists!UpsertPlaylist
<1>2. LinkHolds' /\ upstream' = upstream
  BY <1>1, LinkRests
<1>3. \/ listRow.id # 0 /\ UNCHANGED <<listRow, inserted>>
      \/ /\ listRow.id = 0 /\ inserted < MaxPlaylist /\ inserted' = inserted + 1
         /\ listRow' = [id |-> inserted + 1, snapshot |-> 0, due |-> TRUE]
  BY <1>1 DEF Playlists!UpsertPlaylist, Playlists!NoRow
<1>4. /\ ListHolds' /\ listRow'.id \in Nat \ {0} /\ listRow'.id <= inserted' /\ inserted <= inserted'
      /\ (listRow'.snapshot = upstream => listRow' = listRow)
      /\ \A i \in Nat : i <= inserted /\ i # 0 => (i = listRow'.id <=> i = listRow.id)
      /\ (listRow.id # 0 => listRow'.id = listRow.id)
  <2>1. CASE listRow.id # 0 /\ UNCHANGED <<listRow, inserted>>
    <3>1. overlapped' \in BOOLEAN
      BY <1>1 DEF ListsInv, ListHolds
    <3> QED BY <1>1, <1>2, <2>1, <3>1, ListIs DEF ListsInv, ListHolds
  <2>2. CASE /\ listRow.id = 0 /\ inserted < MaxPlaylist /\ inserted' = inserted + 1
             /\ listRow' = [id |-> inserted + 1, snapshot |-> 0, due |-> TRUE]
    <3>1. inserted' \in 0..MaxPlaylist /\ listRow' \in ListRow
      BY <2>2, ListIs, ListBoundsAssumption DEF ListRow
    <3>2. listRow'.id = inserted + 1 /\ listRow'.snapshot = 0
      BY <2>2
    <3>3. overlapped' \in BOOLEAN
      BY <1>1 DEF ListsInv, ListHolds
    <3>4. ListHolds'
      BY <1>1, <1>2, <2>2, <3>1, <3>2, <3>3, ListIs DEF ListsInv, ListHolds
    <3> QED BY <2>2, <3>2, <3>4, ListIs
  <2> QED BY <1>3, <2>1, <2>2
<1>5. PICK n \in Nat : n = listRow'.id
  BY <1>4
<1> DEFINE q == [run[r] EXCEPT !.at = "save", !.id = n]
<1>6. /\ q \in RunRow /\ q.at = "save" /\ q.of = run[r].of /\ q.id = n
      /\ q.found = run[r].found /\ q.got = run[r].got
  BY RunIs DEF RunRow, Playlists!Stages
<1>7. run' = [run EXCEPT ![r] = q]
  BY <1>5 DEF Playlists!UpsertPlaylist, ListsInv
<1> HIDE DEF q
<1>8. run' \in [Runs -> RunRow] /\ run'[r] = q /\ \A s \in Runs \ {r} : run'[s] = run[s]
  BY <1>6, <1>7 DEF ListsInv
<1>9. ReadHolds(r)'
  <2>1. /\ ReadHolds(r) /\ run[r].of \in Nat /\ inserted \in Nat /\ inserted' \in Nat
        /\ run[r].of <= inserted
    BY <1>4, RunIs, ListIs, ListBoundsAssumption DEF ListHolds, ReadHolds
  <2>2. run'[r].of <= inserted' /\ run'[r].id <= inserted' /\ run'[r].id # 0
    BY <1>4, <1>5, <1>6, <1>8, <2>1
  <2> QED BY <1>1, <1>2, <1>6, <1>8, <2>1, <2>2 DEF ReadHolds
<1>10. ASSUME NEW s \in Runs \ {r} PROVE ReadHolds(s)'
  <2>1. /\ ReadHolds(s) /\ run'[s] = run[s] /\ run[s].id \in Nat /\ run[s].of \in Nat
        /\ inserted' \in Nat
    BY <1>4, <1>8, RunIs, ListBoundsAssumption DEF ListHolds
  <2>2. run[s].id <= inserted' /\ run[s].of <= inserted'
    BY <1>4, <2>1, ListIs DEF ReadHolds
  <2>3. run[s].at = "saving" => run[s].id = listRow'.id
    BY <1>4, <2>1 DEF ReadHolds, Writes
  <2> QED BY <1>2, <2>1, <2>2, <2>3 DEF ReadHolds, Writes
<1>11. StoreHolds'
  <2>1. SUFFICES ASSUME ~overlapped, \A s \in Runs \ {r} : ~Playlists!Storing(s)
                 PROVE  /\ \A s, u \in Runs : Writes(s)' /\ Writes(u)' => s = u
                        /\ Solid' /\ \A s \in Runs : ~Marks(s)'
    BY <1>1 DEF StoreHolds
  <2>2. \A s \in Runs \ {r} : ~Writes(s) /\ ~Writes(s)'
    BY <1>8, <2>1 DEF Writes, Playlists!Storing
  <2>3. ~Writes(r) /\ \A s \in Runs : ~Marks(s) /\ ~Marks(s)'
    BY <1>1, <1>6, <1>8, <2>2 DEF Writes, Marks
  <2>4. Solid
    BY <2>1, <2>3 DEF ListsInv, StoreHolds
  <2>5. Solid'
    BY <1>1, <1>2, <1>4, <2>4 DEF Solid
  <2> QED BY <2>2, <2>3, <2>5
<1> QED BY <1>2, <1>4, <1>8, <1>9, <1>10, <1>11 DEF ListsInv

LEMMA FlagRemovedKeeps == ASSUME ListsInv, NEW r \in Runs, Playlists!FlagRemoved(r) PROVE ListsInv'
<1> DEFINE q == [run[r] EXCEPT !.at = "mark", !.got = {}]
<1>1. /\ run[r].at = "saving" /\ listed' = run[r].got /\ flagged' = (flagged \cup listed) \ run[r].got
      /\ run' = [run EXCEPT ![r] = q] /\ UNCHANGED <<Playlists!spotify, link>>
      /\ UNCHANGED <<listRow, inserted, overlapped>>
  BY DEF Playlists!FlagRemoved, ListsInv
<1>2. LinkHolds' /\ upstream' = upstream
  BY <1>1, LinkRests
<1>3. /\ q \in RunRow /\ q.at = "mark" /\ q.of = run[r].of /\ q.id = run[r].id
      /\ q.found = run[r].found
  BY RunIs DEF RunRow, Playlists!Stages
<1> HIDE DEF q
<1>4. run' \in [Runs -> RunRow] /\ run'[r] = q /\ \A s \in Runs \ {r} : run'[s] = run[s]
  BY <1>1, <1>3 DEF ListsInv
<1>5. /\ run[r].id # 0 /\ run[r].id = listRow.id /\ run[r].found # 0
      /\ \E v \in run[r].found..upstream : run[r].got = Content[v]
  BY <1>1, RunIs DEF ReadHolds, Writes
<1>6. ListHolds'
  BY <1>1, <1>2, <1>5, RunIs DEF ListsInv, ListHolds
<1>7. ReadHolds(r)' /\ Writes(r) /\ Writes(r)' /\ Marks(r)'
  BY <1>1, <1>2, <1>3, <1>4, <1>5, RunIs DEF ReadHolds, Writes, Marks
<1>8. ASSUME NEW s \in Runs \ {r} PROVE ReadHolds(s)'
  BY <1>1, <1>2, <1>4 DEF ListsInv, ReadHolds, Writes
<1>9. StoreHolds'
  <2>1. SUFFICES ASSUME ~overlapped
                 PROVE  /\ \A s, u \in Runs : Writes(s)' /\ Writes(u)' => s = u
                        /\ \A s \in Runs : Marks(s)' => \E v \in run'[s].found..upstream : listed' = Content[v]
    BY <1>1, <1>2, <1>7 DEF StoreHolds
  <2>2. \A s \in Runs \ {r} : ~Writes(s)
    BY <1>7, <2>1 DEF ListsInv, StoreHolds
  <2>3. \A s \in Runs \ {r} : ~Writes(s)'
    BY <1>4, <2>2 DEF Writes
  <2> QED BY <1>1, <1>3, <1>4, <1>5, <2>3 DEF Marks
<1> QED BY <1>2, <1>4, <1>6, <1>7, <1>8, <1>9 DEF ListsInv

LEMMA MarkSyncedKeeps == ASSUME ListsInv, NEW r \in Runs, Playlists!MarkSynced(r) PROVE ListsInv'
<1> DEFINE id == IF run[r].at = "failed" THEN run[r].of ELSE run[r].id
           keeps == run[r].at = "failed" \/ run[r].found = 0
<1>1. /\ run[r].at \in {"mark", "failed"} /\ run' = [run EXCEPT ![r] = Playlists!Idle]
      /\ UNCHANGED <<Playlists!spotify, link>> /\ UNCHANGED <<inserted, listed, flagged, overlapped>>
      /\ listRow' = IF id # listRow.id \/ id = 0 THEN listRow
                    ELSE [listRow EXCEPT !.due = FALSE,
                             !.snapshot = IF keeps THEN listRow.snapshot ELSE run[r].found]
  BY DEF Playlists!MarkSynced
<1>2. LinkHolds' /\ upstream' = upstream
  BY <1>1, LinkRests
<1>3. /\ Playlists!Idle \in RunRow /\ Playlists!Idle.at = "idle" /\ Playlists!Idle.of = 0
      /\ Playlists!Idle.id = 0 /\ Playlists!Idle.found = 0
  BY DEF RunRow, Playlists!Idle, Playlists!Stages, Playlists!Goals
<1>4. run' \in [Runs -> RunRow] /\ run'[r] = Playlists!Idle /\ \A s \in Runs \ {r} : run'[s] = run[s]
  BY <1>1, <1>3 DEF ListsInv
<1>5. /\ listRow' \in ListRow /\ listRow'.id = listRow.id
      /\ \/ listRow'.snapshot = listRow.snapshot
         \/ /\ id = listRow.id /\ ~keeps /\ listRow'.snapshot = run[r].found
  BY <1>1, RunIs, ListIs DEF ListRow
<1>6. listRow'.snapshot = listRow.snapshot \/ (Marks(r) /\ listRow'.snapshot = run[r].found)
  BY <1>1, <1>5 DEF Marks, Writes
<1>7. Marks(r) => listRow'.snapshot = run[r].found
  BY <1>1, RunIs, ListIs DEF Marks, Writes, ReadHolds
<1>8. ListHolds'
  <2>1. listRow'.snapshot <= upstream
    BY <1>5, RunIs DEF ReadHolds, ListsInv, ListHolds
  <2> QED BY <1>1, <1>2, <1>5, <2>1 DEF ListsInv, ListHolds
<1>9. ReadHolds(r)' /\ ~Writes(r)'
  BY <1>1, <1>2, <1>3, <1>4, ListIs DEF ReadHolds, Writes
<1>10. ASSUME NEW s \in Runs \ {r} PROVE ReadHolds(s)'
  BY <1>1, <1>2, <1>4, <1>5 DEF ListsInv, ReadHolds, Writes
<1>11. StoreHolds'
  <2>1. SUFFICES ASSUME ~overlapped
                 PROVE  /\ \A s, u \in Runs : Writes(s)' /\ Writes(u)' => s = u
                        /\ (\A s \in Runs : ~Marks(s)') => Solid'
                        /\ \A s \in Runs : Marks(s)' => \E v \in run'[s].found..upstream : listed = Content[v]
    BY <1>1, <1>2 DEF StoreHolds
  <2>2. \A s \in Runs \ {r} : (Writes(s)' <=> Writes(s)) /\ (Marks(s)' <=> Marks(s))
    BY <1>4, <1>5 DEF Writes, Marks
  <2>3. /\ \A s, u \in Runs : Writes(s) /\ Writes(u) => s = u
        /\ (\A s \in Runs : ~Marks(s)) => Solid
        /\ \A s \in Runs : Marks(s) => \E v \in run[s].found..upstream : listed = Content[v]
    BY <2>1 DEF ListsInv, StoreHolds
  <2>4. ASSUME \A s \in Runs : ~Marks(s)' PROVE Solid'
    <3>1. CASE Marks(r)
      <4>1. PICK v \in run[r].found..upstream : listed = Content[v]
        BY <2>3, <3>1
      <4>2. run[r].found = upstream => v = upstream
        BY <4>1, RunIs, ListIs
      <4> QED BY <1>1, <1>2, <1>7, <3>1, <4>1, <4>2 DEF Solid
    <3>2. CASE ~Marks(r)
      <4>1. \A s \in Runs : ~Marks(s)
        BY <2>2, <2>4, <3>2
      <4> QED BY <1>1, <1>2, <1>6, <2>3, <3>2, <4>1 DEF Solid
    <3> QED BY <3>1, <3>2
  <2>5. ASSUME NEW s \in Runs, Marks(s)' PROVE \E v \in run'[s].found..upstream : listed = Content[v]
    <3>1. s # r
      BY <1>9, <2>5 DEF Marks
    <3> QED BY <1>4, <2>2, <2>3, <2>5, <3>1
  <2> QED BY <1>9, <2>2, <2>3, <2>4, <2>5
<1> QED BY <1>2, <1>4, <1>8, <1>9, <1>10, <1>11 DEF ListsInv

\* A step outside the runs: the row is left alone or loses its row, the playlist changes or not.
LEMMA RunsRest ==
    ASSUME ListsInv, run' = run, inserted' = inserted, overlapped' = overlapped,
           LinkHolds', ListHolds', upstream' >= upstream,
           \/ listRow'.id = listRow.id /\ listed' = listed /\ (Solid => Solid')
           \/ listRow'.id = 0 /\ Solid' /\ \A r \in Runs : run[r].at # "saving"
    PROVE  ListsInv'
<1>1. upstream \in Nat /\ upstream' \in Nat
  BY ListIs, VersionsAre DEF ListHolds
<1>2. ASSUME NEW r \in Runs PROVE ReadHolds(r)'
  <2>1. ReadHolds(r) /\ run[r].found \in Nat
    BY RunIs
  <2>2. \A v \in run[r].found..upstream : v \in run[r].found..upstream'
    BY <1>1, <2>1
  <2>3. run[r].found <= upstream'
    BY <1>1, <2>1 DEF ReadHolds
  <2> QED BY <2>1, <2>2, <2>3 DEF ReadHolds, Writes
<1>3. \A r \in Runs : Writes(r)' <=> Writes(r)
  BY DEF Writes
<1>4. ASSUME NEW r \in Runs, Marks(r)' PROVE Marks(r) /\ listed' = listed
  BY <1>4, RunIs DEF Marks, Writes, ReadHolds
<1>5. StoreHolds'
  <2>1. SUFFICES ASSUME ~overlapped
                 PROVE  /\ \A r, s \in Runs : Writes(r)' /\ Writes(s)' => r = s
                        /\ (\A r \in Runs : ~Marks(r)') => Solid'
                        /\ \A r \in Runs : Marks(r)' => \E v \in run[r].found..upstream' : listed' = Content[v]
    BY DEF StoreHolds
  <2>2. /\ \A r, s \in Runs : Writes(r) /\ Writes(s) => r = s
        /\ (\A r \in Runs : ~Marks(r)) => Solid
        /\ \A r \in Runs : Marks(r) => \E v \in run[r].found..upstream : listed = Content[v]
    BY <2>1 DEF ListsInv, StoreHolds
  <2>3. ASSUME \A r \in Runs : ~Marks(r)' PROVE Solid'
    <3>1. CASE listRow'.id = listRow.id /\ (Solid => Solid')
      BY <1>3, <2>2, <2>3, <3>1 DEF Marks
    <3> QED BY <3>1
  <2>4. ASSUME NEW r \in Runs, Marks(r)'
        PROVE  \E v \in run[r].found..upstream' : listed' = Content[v]
    <3>1. PICK v \in run[r].found..upstream : listed = Content[v]
      BY <1>4, <2>2, <2>4
    <3>2. v \in run[r].found..upstream'
      BY <1>1, <3>1, RunIs
    <3> QED BY <1>4, <2>4, <3>1, <3>2
  <2> QED BY <1>3, <2>2, <2>3, <2>4
<1> QED BY <1>2, <1>5 DEF ListsInv
LEMMA EditKeeps == ASSUME ListsInv, Playlists!Edit PROVE ListsInv'
<1>1. /\ upstream + 1 \in Playlists!Versions /\ upstream' = upstream + 1
      /\ UNCHANGED <<alive, issued, link, run, lost, overlapped>>
      /\ UNCHANGED <<listRow, inserted, listed, flagged>>
  BY DEF Playlists!Edit, Playlists!rows
<1>2. LinkHolds'
  BY <1>1 DEF ListsInv, LinkHolds, Playlists!LinkStaysAlive
<1>3. listRow.snapshot <= upstream
  BY DEF ListsInv, ListHolds
<1>4. ListHolds' /\ Solid'
  BY <1>1, <1>3, ListIs DEF ListsInv, ListHolds, Solid
<1> QED BY <1>1, <1>2, <1>4, ListIs, RunsRest

LEMMA LinkKeeps ==
    ASSUME ListsInv, Playlists!Connect \/ Playlists!Disconnect \/ Playlists!Expire
    PROVE  ListsInv'
<1>1. UNCHANGED <<upstream, run, lost, overlapped, listRow, inserted, listed, flagged>>
  BY DEF Playlists!Connect, Playlists!Disconnect, Playlists!Expire, Playlists!rows, Playlists!spotify
<1>2. ListHolds' /\ (Solid => Solid')
  BY <1>1 DEF ListsInv, ListHolds, Solid
<1>3. ASSUME Playlists!Connect PROVE LinkHolds'
  <2>1. /\ issued < MaxToken /\ issued' = issued + 1 /\ alive' = alive \cup {issued + 1}
        /\ link' = [token |-> issued + 1, fresh |-> TRUE]
    BY <1>3 DEF Playlists!Connect
  <2>2. issued \in Nat /\ MaxToken \in Nat /\ alive \subseteq 1..issued
    BY ListBoundsAssumption DEF ListsInv, LinkHolds
  <2>3. issued + 1 \in 1..(issued + 1) /\ \A n \in 1..issued : n \in 1..(issued + 1)
    BY <2>2
  <2>4. alive' \subseteq 1..issued' /\ issued' \in alive'
    BY <2>1, <2>2, <2>3
  <2>5. link' \in [token : Nat, fresh : BOOLEAN] /\ link'.token = issued' /\ issued' \in 0..MaxToken
    BY <2>1, <2>2
  <2> QED BY <1>1, <2>2, <2>4, <2>5 DEF ListsInv, LinkHolds, Playlists!LinkStaysAlive
<1>4. ASSUME Playlists!Disconnect PROVE LinkHolds'
  <2>1. link' = [token |-> 0, fresh |-> FALSE] /\ UNCHANGED <<alive, issued, lost>>
    BY <1>4 DEF Playlists!Disconnect, Playlists!spotify
  <2>2. link' \in [token : Nat, fresh : BOOLEAN] /\ link'.token = 0
    BY <2>1
  <2> QED BY <2>1, <2>2, ListBoundsAssumption DEF ListsInv, LinkHolds, Playlists!LinkStaysAlive
<1>5. ASSUME Playlists!Expire PROVE LinkHolds'
  <2>1. link' = [link EXCEPT !.fresh = FALSE] /\ UNCHANGED <<alive, issued, lost>>
    BY <1>5 DEF Playlists!Expire, Playlists!spotify
  <2>2. link \in [token : Nat, fresh : BOOLEAN]
    BY DEF ListsInv, LinkHolds
  <2>3. link' \in [token : Nat, fresh : BOOLEAN] /\ link'.token = link.token
    BY <2>1, <2>2
  <2> QED BY <2>1, <2>3 DEF ListsInv, LinkHolds, Playlists!LinkStaysAlive
<1>6. LinkHolds'
  BY <1>3, <1>4, <1>5
<1> QED BY <1>1, <1>2, <1>6, ListIs, RunsRest

LEMMA IntervalPassesKeeps == ASSUME ListsInv, Playlists!IntervalPasses PROVE ListsInv'
<1>1. /\ listRow' = [listRow EXCEPT !.due = TRUE]
      /\ UNCHANGED <<run, overlapped, inserted, listed, flagged>> /\ UNCHANGED <<Playlists!spotify, link>>
  BY DEF Playlists!IntervalPasses
<1>2. LinkHolds' /\ upstream' = upstream
  BY <1>1, LinkRests
<1>3. listRow' \in ListRow /\ listRow'.id = listRow.id /\ listRow'.snapshot = listRow.snapshot
  BY <1>1, ListIs DEF ListRow
<1>4. ListHolds' /\ (Solid => Solid')
  BY <1>1, <1>2, <1>3 DEF ListsInv, ListHolds, Solid
<1> QED BY <1>1, <1>2, <1>3, <1>4, ListIs, RunsRest

LEMMA DeletePlaylistKeeps == ASSUME ListsInv, Playlists!DeletePlaylist PROVE ListsInv'
<1>1. /\ \A r \in Runs : run[r].at # "saving"
      /\ listRow' = [id |-> 0, snapshot |-> 0, due |-> FALSE] /\ listed' = {} /\ flagged' = {}
      /\ UNCHANGED <<run, overlapped, inserted>> /\ UNCHANGED <<Playlists!spotify, link>>
  BY DEF Playlists!DeletePlaylist, Playlists!NoRow
<1>2. LinkHolds' /\ upstream' = upstream
  BY <1>1, LinkRests
<1>3. listRow' \in ListRow /\ listRow'.id = 0 /\ listRow'.snapshot = 0
  BY <1>1 DEF ListRow
<1>4. ListHolds' /\ Solid'
  BY <1>1, <1>2, <1>3, ListIs DEF ListsInv, ListHolds, Solid
<1> QED BY <1>1, <1>2, <1>3, <1>4, ListIs, RunsRest

LEMMA ListsSteps == ASSUME ListsInv, [Playlists!Next]_playlistsVars PROVE ListsInv'
<1>1. CASE Playlists!Edit \/ Playlists!Connect \/ Playlists!Disconnect \/ Playlists!Expire
           \/ Playlists!IntervalPasses \/ Playlists!DeletePlaylist
  BY <1>1, EditKeeps, LinkKeeps, IntervalPassesKeeps, DeletePlaylistKeeps
<1>2. CASE \E r \in Runs : Playlists!RunNext(r)
  <2>1. PICK r \in Runs : Playlists!RunNext(r)
    BY <1>2
  <2> QED BY <2>1, BeginsKeep, CallsKeep, RefreshKeeps, RefreshLostKeeps, SucceedsKeeps,
             UpsertPlaylistKeeps, SaveTracksKeeps, FlagRemovedKeeps, StoreFailsKeeps, MarkSyncedKeeps
          DEF Playlists!RunNext
<1>3. CASE UNCHANGED playlistsVars
  <2>1. UNCHANGED <<upstream, alive, issued, link, listRow, inserted, listed, flagged, run, lost,
                    overlapped>>
    BY <1>3 DEF playlistsVars
  <2>2. LinkHolds' /\ ListHolds' /\ (Solid => Solid')
    BY <2>1 DEF ListsInv, LinkHolds, ListHolds, Solid, Playlists!LinkStaysAlive
  <2> QED BY <2>1, <2>2, ListIs, RunsRest
<1> QED BY <1>1, <1>2, <1>3 DEF Playlists!Next

LEMMA ListsStart == ASSUME Playlists!Init PROVE ListsInv
<1>1. /\ upstream = 1 /\ alive = {} /\ issued = 0 /\ lost = FALSE /\ overlapped = FALSE
      /\ link = [token |-> 0, fresh |-> FALSE] /\ inserted = 0 /\ listed = {} /\ flagged = {}
      /\ listRow = [id |-> 0, snapshot |-> 0, due |-> FALSE]
      /\ run = [r \in Runs |-> Playlists!Idle]
  BY DEF Playlists!Init, Playlists!NoRow
<1>2. 1 \in Playlists!Versions /\ 0 \in 0..MaxToken /\ 0 \in 0..MaxPlaylist
  BY VersionsAre, ListBoundsAssumption
<1>3. /\ Playlists!Idle \in RunRow /\ Playlists!Idle.at = "idle" /\ Playlists!Idle.of = 0
      /\ Playlists!Idle.id = 0 /\ Playlists!Idle.found = 0
  BY DEF RunRow, Playlists!Idle, Playlists!Stages, Playlists!Goals
<1>4. LinkHolds
  <2>1. link \in [token : Nat, fresh : BOOLEAN] /\ link.token = 0
    BY <1>1
  <2>2. issued \in 0..MaxToken /\ alive \subseteq 1..issued
    BY <1>1, <1>2
  <2>3. lost \in BOOLEAN /\ issued = 0
    BY <1>1
  <2> QED BY <2>1, <2>2, <2>3 DEF LinkHolds, Playlists!LinkStaysAlive
<1>5. ListHolds /\ Solid
  <2>1. listRow \in ListRow /\ listRow.id = 0 /\ listRow.snapshot = 0
    BY <1>1 DEF ListRow
  <2>2. /\ listed = {} /\ flagged = {} /\ inserted = 0 /\ upstream = 1
        /\ inserted \in 0..MaxPlaylist /\ overlapped \in BOOLEAN
    BY <1>1, <1>2
  <2>3. upstream \in Playlists!Versions
    BY <1>2, <2>2
  <2> QED BY <2>1, <2>2, <2>3 DEF ListHolds, Solid
<1>6. ASSUME NEW r \in Runs PROVE ReadHolds(r) /\ ~Writes(r)
  BY <1>1, <1>3 DEF ReadHolds, Writes
<1>7. StoreHolds
  BY <1>5, <1>6 DEF StoreHolds, Marks
<1> QED BY <1>1, <1>3, <1>4, <1>5, <1>6, <1>7 DEF ListsInv

LEMMA ListsFollow ==
    ASSUME ListsInv
    PROVE  Playlists!TypeOK /\ Playlists!LinkStaysAlive /\ Playlists!SkippedIsCurrent
<1>1. Playlists!LinkStaysAlive
  BY DEF ListsInv, LinkHolds
<1>2. Playlists!SkippedIsCurrent
  <2>1. SUFFICES ASSUME listRow.snapshot = upstream, ~overlapped, \A r \in Runs : ~Playlists!Storing(r)
                 PROVE  listed = Content[upstream]
    BY DEF Playlists!SkippedIsCurrent
  <2>2. \A r \in Runs : ~Marks(r)
    BY <2>1 DEF Marks, Writes, Playlists!Storing
  <2> QED BY <2>1, <2>2 DEF ListsInv, StoreHolds, Solid
<1>3. Playlists!TypeOK
  <2>1. /\ upstream \in Playlists!Versions /\ inserted \in 0..MaxPlaylist /\ inserted \in Nat
        /\ listRow.id \in 0..inserted /\ listRow.due \in BOOLEAN
        /\ listRow.snapshot \in Playlists!Versions \cup {0}
        /\ listed \cup flagged \subseteq Tracks /\ listed \cap flagged = {}
        /\ (listRow.id = 0 => listed \cup flagged = {}) /\ overlapped \in BOOLEAN
    BY ListIs DEF ListsInv, ListHolds
  <2>2. /\ issued \in 0..MaxToken /\ alive \subseteq 1..issued /\ lost \in BOOLEAN
        /\ link.token \in 0..issued /\ link.fresh \in BOOLEAN
    BY ListBoundsAssumption DEF ListsInv, LinkHolds
  <2>3. ASSUME NEW r \in Runs
        PROVE  /\ run[r].at \in Playlists!Stages /\ run[r].goal \in Playlists!Goals
               /\ run[r].of \in 0..inserted /\ run[r].id \in 0..inserted
               /\ run[r].known \in Playlists!Versions \cup {0} /\ run[r].found \in Playlists!Versions \cup {0}
               /\ run[r].got \subseteq Tracks /\ run[r].refreshed \in BOOLEAN
    BY <2>1, RunIs DEF ReadHolds
  <2> QED BY <2>1, <2>2, <2>3 DEF Playlists!TypeOK
<1> QED BY <1>1, <1>2, <1>3

-----------------------------------------------------------------------------
(* The composition.                                                        *)

\* A component that runs takes its own steps, and the one that rests stands still.
LEMMA PartsAlone ==
    ASSUME [AllNext]_<<part, vars, playlistsVars>>
    PROVE  [Next]_vars /\ [Playlists!Next]_playlistsVars /\ UNCHANGED part
<1>1. CASE UNCHANGED <<part, vars, playlistsVars>>
  BY <1>1
<1>2. CASE AllNext
  BY <1>2 DEF AllNext
<1> QED BY <1>1, <1>2

\* Whatever members pick and however many slots there are: a working row has a task, there are no
\* more tasks than slots, and the CDN has what a mirrored row leads to (worker.py, db.py).
THEOREM WorkerAlways ==
    AllSpec => [](part = "worker" => TypeOK /\ WorkingIsHeld /\ SlotsKept /\ MirroredIsCurrent)
<1>1. AllInit => WorkerInv
  BY WorkerStarts DEF AllInit
<1>2. WorkerInv /\ [AllNext]_<<part, vars, playlistsVars>> => WorkerInv'
  BY PartsAlone, WorkerSteps DEF Kept
<1>3. WorkerInv => (part = "worker" => TypeOK /\ WorkingIsHeld /\ SlotsKept /\ MirroredIsCurrent)
  BY TracksFollow DEF WorkerInv
<1> QED BY <1>1, <1>2, <1>3, PTL DEF AllSpec

\* When two tasks cannot choose one path at once, and members pick recordings only for tracks that
\* have settled: until a file is deleted by hand, ready rows have their own audio and members' picks
\* are honoured, besides the above (worker.py, db.py, fs.py).
THEOREM TracksHoldAlways ==
    ASSUME Apart, Settling
    PROVE  AllSpec => []TracksHold
<1> DEFINE Inv == WorkerInv /\ Undisturbed
<1>1. AllInit => Inv
  BY WorkerStarts DEF AllInit
<1>2. Inv /\ [AllNext]_<<part, vars, playlistsVars>> => Inv'
  BY PartsAlone, WorkerSteps DEF Kept
<1>3. Inv => TracksHold
  BY TracksFollow DEF TracksHold
<1> QED BY <1>1, <1>2, <1>3, PTL DEF AllSpec

\* However many replicas sync at once, the link they keep is one that Spotify takes, and a playlist
\* that may be skipped as unchanged has the tracks of its snapshot (spotify.py, library.py).
THEOREM PlaylistsHoldAlways == AllSpec => []PlaylistsHold
<1>1. AllInit => ListsInv
  BY ListsStart DEF AllInit
<1>2. ListsInv /\ [AllNext]_<<part, vars, playlistsVars>> => ListsInv'
  BY PartsAlone, ListsSteps
<1>3. ListsInv => PlaylistsHold
  BY ListsFollow DEF PlaylistsHold
<1> QED BY <1>1, <1>2, <1>3, PTL DEF AllSpec

\* Every component's state has its type (worker.py, db.py, spotify.py, library.py).
THEOREM MusicTyped == AllSpec => []Typed
<1> DEFINE Inv == part \in Parts /\ WorkerInv /\ ListsInv
<1>1. AllInit => Inv
  BY WorkerStarts, ListsStart DEF AllInit
<1>2. Inv /\ [AllNext]_<<part, vars, playlistsVars>> => Inv'
  BY PartsAlone, WorkerSteps, ListsSteps DEF Kept
<1>3. Inv => Typed
  BY ListsFollow DEF Typed, WorkerInv
<1> QED BY <1>1, <1>2, <1>3, PTL DEF AllSpec
=============================================================================
