---------------------------- MODULE CatalogueProofs ----------------------------
(***************************************************************************)
(* The catalogue's parts in their composition, where one runs and the      *)
(* others stand still: what NotifierProofs shows of the notices, the       *)
(* upkeep of the tables, the migrations of replicas that boot together,    *)
(* the caches of the settings, of the browse hubs and of the supporters'   *)
(* list, and the rebuilds of the mapping as an implementation of           *)
(* MappingSnapshot.                                                        *)
(***************************************************************************)
EXTENDS MCCatalogue, NotifierProofs, SequenceTheorems, FiniteSetTheorems, WellFoundedInduction

HIDE DEF Next, Mapping!Next, Upkeep!Next, Browsing!Next, Booting!Next, Fans!Next, Settings!Next,
         Filing!Next

\* The part that runs is chosen once and takes its own steps; the ones that rest stand still.
LEMMA PartsAlone ==
    ASSUME [AllNext]_<<part, vars, mappingVars, maintainVars, browseVars, bootVars,
                       supportersVars, settingsVars, filingVars>>
    PROVE  /\ UNCHANGED part
           /\ [part = "notify" /\ Next]_vars /\ [part = "mapping" /\ Mapping!Next]_mappingVars
           /\ [Upkeep!Next]_maintainVars
           /\ [Browsing!Next]_browseVars /\ [Booting!Next]_bootVars
           /\ [Fans!Next]_supportersVars /\ [Settings!Next]_settingsVars
           /\ [Filing!Next]_filingVars
<1>1. CASE AllNext
  BY <1>1 DEF AllNext
<1>2. CASE UNCHANGED <<part, vars, mappingVars, maintainVars, browseVars, bootVars,
                       supportersVars, settingsVars, filingVars>>
  BY <1>2
<1> QED BY <1>1, <1>2

\* A set of numbers has a least.
LEMMA Least == ASSUME NEW S \in SUBSET Nat, S # {} PROVE \E x \in S : \A y \in S : x <= y
<1> DEFINE below == OpToRel(<, Nat)
<1>1. IsWellFoundedOn(below, Nat)
  BY NatLessThanWellFounded
<1>2. \A x, y \in Nat : <<y, x>> \in below <=> y < x
  BY DEF OpToRel
<1> HIDE DEF below
<1>3. PICK x \in S : \A y \in S : ~(<<y, x>> \in below)
  BY <1>1, WFMin
<1>4. ASSUME NEW y \in S PROVE x <= y
  <2>1. x \in Nat /\ y \in Nat /\ ~(y < x)
    BY <1>2, <1>3
  <2> QED BY <2>1
<1> QED BY <1>4

\* One mail per follower and episode, and a row says sent only when its mail left (run_notifier),
\* in the composition and for any replicas, users and episodes.
THEOREM OneMail == AllSpec => []MailedOnce
<1>1. AllInit => IInv
  BY InitInv DEF AllInit
<1>2. IInv /\ [AllNext]_<<part, vars, mappingVars, maintainVars, browseVars, bootVars,
                          supportersVars, settingsVars, filingVars>> => IInv'
  BY PartsAlone, StepInv
<1>3. IInv => MailedOnce
  BY DEF IInv, Once, AtMostOnce, Told, SentWasMailed, MailedOnce
<1> QED BY <1>1, <1>2, <1>3, PTL DEF AllSpec

-----------------------------------------------------------------------------
(* The types of the mapping.                                               *)

\* The tables of the mapping, and its runs.
RowTables == [seasons : SUBSET Mapping!Row, entries : SUBSET Mapping!Row]
RunsTyped ==
    /\ rebuildPc \in [Rebuilders -> {"idle", "head", "get", "begin", "seasons", "between",
                                     "entries", "insert", "commit"}]
    /\ force \in [Rebuilders -> BOOLEAN]
    /\ local \in [Rebuilders -> [etag : Mapping!Etag, empty : BOOLEAN]]
    /\ head \in [Rebuilders -> Mapping!Etag] /\ got \in [Rebuilders -> Mapping!Versions]
    /\ \A r \in Rebuilders : rebuildPc[r] \notin {"idle", "head"} => head[r] # NoEtag
    /\ tx \in [Rebuilders -> 0..MaxRuns] /\ seen \in [Rebuilders -> SUBSET Mapping!Row]
    /\ gone \in [Rebuilders -> RowTables] /\ new \in [Rebuilders -> RowTables]
TablesTyped ==
    /\ upstream \in Mapping!Versions /\ seasons \subseteq Mapping!Row /\ entries \subseteq Mapping!Row
    /\ etag \in Mapping!Etag /\ runs \in 0..MaxRuns

LEMMA MappingTypes == Mapping!TypeOK <=> TablesTyped /\ RunsTyped
  BY DEF Mapping!TypeOK, TablesTyped, RunsTyped, RowTables

LEMMA RowsAre ==
    ASSUME NEW v \in Mapping!Versions, NEW n \in 0..MaxRuns PROVE Mapping!RowsOf(v, n) \subseteq Mapping!Row
  BY DataAssumption DEF Mapping!DataAssumption, Mapping!RowsOf, Mapping!Row

LEMMA MappingTypedInit == Mapping!Init => TablesTyped /\ RunsTyped
<1> SUFFICES ASSUME Mapping!Init PROVE TablesTyped /\ RunsTyped
  OBVIOUS
<1>1. StartVersion \in Mapping!Versions /\ 0 \in 0..MaxRuns /\ 1 \in Mapping!Versions
      /\ 0 \in Mapping!Versions
  BY DataAssumption DEF Mapping!DataAssumption, Mapping!StartAssumption, Mapping!Versions
<1>2. Mapping!RowsOf(StartVersion, 0) \subseteq Mapping!Row
  BY <1>1, RowsAre
<1>3. NoEtag \in Mapping!Etag /\ StartVersion \in Mapping!Etag
  BY <1>1 DEF Mapping!Etag, Mapping!Guess
<1>4. TablesTyped
  BY <1>1, <1>2, <1>3 DEF TablesTyped, Mapping!Init
<1>5. RunsTyped
  BY <1>1, <1>3 DEF RunsTyped, Mapping!Init, Mapping!NoRows, RowTables
<1> QED BY <1>4, <1>5

\* A run ends with nothing in its hands.
LEMMA IdleTyped == ASSUME RunsTyped, NEW r \in Rebuilders, Mapping!Idle(r) PROVE RunsTyped'
<1>1. 0 \in Mapping!Versions /\ 0 \in 0..MaxRuns
  BY DataAssumption DEF Mapping!DataAssumption, Mapping!Versions
<1>2. NoEtag \in Mapping!Etag /\ Mapping!NoRows \in RowTables
  BY DEF Mapping!Etag, Mapping!Guess, Mapping!NoRows, RowTables
<1>3. [etag |-> NoEtag, empty |-> FALSE] \in [etag : Mapping!Etag, empty : BOOLEAN]
  BY <1>2
<1>4. \A o \in Rebuilders : rebuildPc'[o] \notin {"idle", "head"} => head'[o] # NoEtag
  BY DEF RunsTyped, Mapping!Idle
<1>5. /\ rebuildPc' \in [Rebuilders -> {"idle", "head", "get", "begin", "seasons", "between",
                                        "entries", "insert", "commit"}]
      /\ force' \in [Rebuilders -> BOOLEAN]
  BY DEF RunsTyped, Mapping!Idle
<1>6. /\ local' \in [Rebuilders -> [etag : Mapping!Etag, empty : BOOLEAN]]
      /\ head' \in [Rebuilders -> Mapping!Etag] /\ got' \in [Rebuilders -> Mapping!Versions]
  BY <1>1, <1>2, <1>3 DEF RunsTyped, Mapping!Idle
<1>7. /\ tx' \in [Rebuilders -> 0..MaxRuns] /\ seen' \in [Rebuilders -> SUBSET Mapping!Row]
      /\ gone' \in [Rebuilders -> RowTables] /\ new' \in [Rebuilders -> RowTables]
  BY <1>1, <1>2 DEF RunsTyped, Mapping!Idle
<1> QED BY <1>4, <1>5, <1>6, <1>7 DEF RunsTyped

LEMMA MappingTypedStep ==
    ASSUME Mapping!TypeOK, [Mapping!Next]_mappingVars PROVE Mapping!TypeOK'
<1> SUFFICES (TablesTyped /\ RunsTyped)'
  BY MappingTypes DEF Mapping!TypeOK, TablesTyped, RunsTyped, RowTables
<1>1. TablesTyped /\ RunsTyped
  BY MappingTypes
<1>2. CASE UNCHANGED mappingVars
  BY <1>1, <1>2 DEF mappingVars, TablesTyped, RunsTyped
<1>3. CASE Mapping!Publish
  BY <1>1, <1>3, DataAssumption
     DEF Mapping!DataAssumption, Mapping!Publish, Mapping!Versions, Mapping!tableVars, Mapping!txVars,
         TablesTyped, RunsTyped
<1>4. ASSUME NEW r \in Rebuilders, Mapping!Rebuild(r) PROVE (TablesTyped /\ RunsTyped)'
  <2>1. ASSUME NEW forced \in BOOLEAN, Mapping!Begin(r, forced) PROVE (TablesTyped /\ RunsTyped)'
    <3>1. runs + 1 \in 0..MaxRuns
      BY <1>1, <2>1, DataAssumption DEF Mapping!DataAssumption, Mapping!Begin, TablesTyped
    <3>2. [etag |-> etag, empty |-> entries = {}] \in [etag : Mapping!Etag, empty : BOOLEAN]
      BY <1>1 DEF TablesTyped
    <3>3. TablesTyped'
      BY <1>1, <2>1, <3>1 DEF Mapping!Begin, Mapping!tableVars, TablesTyped
    <3> QED BY <1>1, <2>1, <3>1, <3>2, <3>3 DEF Mapping!Begin, Mapping!Goto, Mapping!txVars, RunsTyped
  <2>2. CASE Mapping!Head(r)
    <3>1. PICK answered \in BOOLEAN, asked \in {upstream, NoEtag} :
              head' = [head EXCEPT ![r] = Mapping!Filed(Mapping!Stale(r, answered, asked), asked)]
      BY <2>2 DEF Mapping!Head
    <3>2. /\ Mapping!Filed(Mapping!Stale(r, answered, asked), asked) \in Mapping!Etag
          /\ Mapping!Filed(Mapping!Stale(r, answered, asked), asked) # NoEtag
      BY <1>1, EtagsAssumption DEF TablesTyped, Mapping!Filed, Mapping!Etag, Mapping!Guess
    <3> DEFINE filed == Mapping!Filed(Mapping!Stale(r, answered, asked), asked)
    <3> HIDE DEF filed
    <3>3. TablesTyped'
      BY <1>1, <2>2 DEF Mapping!Head, Mapping!tableVars, TablesTyped
    <3>4. RunsTyped'
      BY <1>1, <2>2, <3>1, <3>2 DEF Mapping!Head, Mapping!Goto, Mapping!txVars, RunsTyped
    <3> QED BY <3>3, <3>4
  <2>3. CASE Mapping!UpToDate(r) \/ Mapping!Fail(r)
    <3>1. Mapping!Idle(r) /\ UNCHANGED <<upstream, seasons, entries, etag, runs>>
      BY <2>3 DEF Mapping!UpToDate, Mapping!Fail, Mapping!tableVars
    <3>2. TablesTyped'
      BY <1>1, <3>1 DEF TablesTyped
    <3> QED BY <1>1, <3>1, <3>2, IdleTyped
  <2>4. CASE Mapping!Get(r)
    <3>1. TablesTyped'
      BY <1>1, <2>4 DEF Mapping!Get, Mapping!tableVars, TablesTyped
    <3>2. RunsTyped'
      BY <1>1, <2>4 DEF Mapping!Get, Mapping!Download, Mapping!Goto, Mapping!txVars, RunsTyped,
         TablesTyped
    <3> QED BY <3>1, <3>2
  <2>5. CASE Mapping!DeleteBegins(r)
    <3>1. TablesTyped'
      BY <1>1, <2>5 DEF Mapping!DeleteBegins, Mapping!tableVars, TablesTyped
    <3>2. RunsTyped'
      BY <1>1, <2>5 DEF Mapping!DeleteBegins, Mapping!Goto, RunsTyped, TablesTyped
    <3> QED BY <3>1, <3>2
  <2>6. CASE Mapping!DeleteSeasons(r) \/ Mapping!DeleteEntries(r)
    <3>1. TablesTyped'
      BY <1>1, <2>6 DEF Mapping!DeleteSeasons, Mapping!DeleteEntries, Mapping!tableVars, TablesTyped
    <3>2. /\ seen[r] \cap seasons \subseteq Mapping!Row /\ seen[r] \cap entries \subseteq Mapping!Row
          /\ rebuildPc[r] \notin {"idle", "head"}
      BY <1>1, <2>6 DEF TablesTyped, Mapping!DeleteSeasons, Mapping!DeleteEntries
    <3>3. gone' \in [Rebuilders -> RowTables]
      BY <1>1, <2>6, <3>2 DEF RunsTyped, RowTables, Mapping!DeleteSeasons, Mapping!DeleteEntries,
         Mapping!SeasonsDeleted
    <3>4. RunsTyped'
      BY <1>1, <2>6, <3>2, <3>3 DEF RunsTyped, Mapping!DeleteSeasons, Mapping!DeleteEntries,
         Mapping!Goto
    <3> QED BY <3>1, <3>4
  <2>7. CASE Mapping!Insert(r)
    <3>1. TablesTyped'
      BY <1>1, <2>7 DEF Mapping!Insert, Mapping!tableVars, TablesTyped
    <3>2. Mapping!RowsOf(got[r], tx[r]) \subseteq Mapping!Row
      BY <1>1, RowsAre DEF RunsTyped
    <3>3. [entries |-> Mapping!Fresh(r, entries, gone[r].entries),
           seasons |-> Mapping!Fresh(r, seasons, gone[r].seasons)] \in RowTables
      BY <3>2 DEF RowTables, Mapping!Fresh
    <3>4. new' \in [Rebuilders -> RowTables]
      BY <1>1, <2>7, <3>3 DEF RunsTyped, Mapping!Insert
    <3>5. RunsTyped'
      BY <1>1, <2>7, <3>4 DEF RunsTyped, Mapping!Insert, Mapping!Goto
    <3> QED BY <3>1, <3>5
  <2>8. CASE Mapping!Commit(r)
    <3>1. TablesTyped'
      BY <1>1, <2>8 DEF Mapping!Commit, TablesTyped, RunsTyped, RowTables
    <3> QED BY <1>1, <2>8, <3>1, IdleTyped DEF Mapping!Commit
  <2> QED BY <1>4, <2>1, <2>2, <2>3, <2>4, <2>5, <2>6, <2>7, <2>8 DEF Mapping!Rebuild
<1> QED BY <1>2, <1>3, <1>4 DEF Mapping!Next

-----------------------------------------------------------------------------
(* The upkeep of the tables.                                               *)

USE UpkeepAssumption

\* A job has been begun once, unless nobody has claimed it yet; whoever runs one has begun it.
JobsHold ==
    /\ \A a \in Clicks :
          ran[a] = IF job[a] \in {"none", "uncommitted", "requested"} THEN 0 ELSE 1
    /\ \A d \in Drains : \A a \in drain[d] : ran[a] = 1

\* A table has its rows once each, the oldest first.
RowsHold ==
    /\ \A i, j \in DOMAIN tableRows : tableRows[i] = tableRows[j] => i = j
    /\ \A i, j \in DOMAIN tableRows : i < j => stamp[tableRows[i]] <= stamp[tableRows[j]]
    /\ \A t \in Titles : stamp[t] <= night

\* The rows outside of tonight's slice that had their last turn k nights ago or earlier.
Late(k) ==
    {t \in Upkeep!ToSet(tableRows) \ Upkeep!ToSet(slice) : stamp[t] <= night - k}

\* Every night takes a bucket's share off those.
TurnsHold ==
    ~failed => \A k \in 0..Buckets :
        Buckets * Cardinality(Late(k)) <= (Buckets - k) * Len(tableRows)

UpkeepInv == Upkeep!TypeOK /\ JobsHold /\ RowsHold /\ TurnsHold

\* The elements of a sequence of titles.
LEMMA ElementsAre ==
    ASSUME NEW s \in Seq(Titles)
    PROVE  /\ Len(s) \in Nat /\ DOMAIN s = 1..Len(s) /\ \A i \in 1..Len(s) : s[i] \in Titles
           /\ Upkeep!ToSet(s) \subseteq Titles /\ IsFiniteSet(Upkeep!ToSet(s))
           /\ Cardinality(Upkeep!ToSet(s)) \in Nat
<1>1. Len(s) \in Nat /\ DOMAIN s = 1..Len(s) /\ \A i \in 1..Len(s) : s[i] \in Titles
  OBVIOUS
<1>2. Upkeep!ToSet(s) \subseteq Titles
  BY <1>1 DEF Upkeep!ToSet
<1>3. IsFiniteSet(Upkeep!ToSet(s))
  BY <1>2, FS_Subset
<1> QED BY <1>1, <1>2, <1>3, FS_CardinalityType

\* A sequence of so many different titles.
LEMMA AsManyTitles ==
    ASSUME NEW s \in Seq(Titles), \A i, j \in DOMAIN s : s[i] = s[j] => i = j
    PROVE  Cardinality(Upkeep!ToSet(s)) = Len(s)
<1> DEFINE T == Upkeep!ToSet(s)
           f == [i \in 1..Len(s) |-> s[i]]
<1>1. Len(s) \in Nat /\ DOMAIN s = 1..Len(s)
  OBVIOUS
<1>2. f \in Bijection(1..Len(s), T)
  <2>1. f \in [1..Len(s) -> T]
    BY <1>1 DEF Upkeep!ToSet
  <2>2. \A t \in T : \E i \in 1..Len(s) : f[i] = t
    BY <1>1 DEF Upkeep!ToSet
  <2>3. \A a, b \in 1..Len(s) : f[a] = f[b] => a = b
    BY <1>1
  <2> QED BY <2>1, <2>2, <2>3 DEF Bijection, Injection, Surjection, IsInjective
<1>3. IsFiniteSet(1..Len(s)) /\ Cardinality(1..Len(s)) = Len(s)
  BY <1>1, FS_Interval, 0 \in Int
<1> HIDE DEF f
<1> QED BY <1>2, <1>3, FS_Bijection DEF ExistsBijection

\* The rows but that of t, which was at position i if it was there.
Without(o, i, t) ==
    /\ o \in Seq(Titles) /\ Len(o) <= Len(tableRows) /\ Len(o) + 1 >= Len(tableRows)
    /\ \A j \in 1..Len(o) : /\ (IF j < i THEN j ELSE j + 1) \in 1..Len(tableRows)
                            /\ o[j] = tableRows[IF j < i THEN j ELSE j + 1]
                            /\ o[j] # t
    /\ \A j \in 1..Len(tableRows) : tableRows[j] # t => \E l \in 1..Len(o) : o[l] = tableRows[j]

\* The row that is stored leaves its place, and the others keep their order.
LEMMA OthersAre ==
    ASSUME Upkeep!TypeOK, RowsHold, NEW t \in Titles
    PROVE  \E i \in Nat : Without(Upkeep!Others(t), i, t)
<1>1. /\ tableRows \in Seq(Titles) /\ Len(tableRows) \in Nat /\ DOMAIN tableRows = 1..Len(tableRows)
      /\ \A j \in 1..Len(tableRows) : tableRows[j] \in Titles
  BY ElementsAre DEF Upkeep!TypeOK
<1>2. CASE t \notin Upkeep!ToSet(tableRows)
  <2>1. Upkeep!Others(t) = tableRows
    BY <1>2 DEF Upkeep!Others
  <2>2. \A j \in 1..Len(tableRows) : tableRows[j] # t
    BY <1>1, <1>2 DEF Upkeep!ToSet
  <2>3. Len(tableRows) + 1 \in Nat /\ \A j \in 1..Len(tableRows) : j < Len(tableRows) + 1
    BY <1>1
  <2>4. \A j \in 1..Len(tableRows) :
           (IF j < Len(tableRows) + 1 THEN j ELSE j + 1) = j
    BY <2>3
  <2>5. Len(tableRows) <= Len(tableRows) /\ Len(tableRows) + 1 >= Len(tableRows)
    BY <1>1
  <2>6. Without(tableRows, Len(tableRows) + 1, t)
    BY <1>1, <2>2, <2>4, <2>5 DEF Without
  <2> QED BY <2>1, <2>3, <2>6
<1>3. CASE t \in Upkeep!ToSet(tableRows)
  <2> DEFINE i == CHOOSE l \in DOMAIN tableRows : tableRows[l] = t
             n == Len(tableRows)
             o == Upkeep!Others(t)
  <2>1. i \in 1..n /\ tableRows[i] = t
    BY <1>1, <1>3 DEF Upkeep!ToSet
  <2>2. o = SubSeq(tableRows, 1, i - 1) \o SubSeq(tableRows, i + 1, n)
    BY <1>3 DEF Upkeep!Others, Upkeep!RemoveAt
  <2> DEFINE A == SubSeq(tableRows, 1, i - 1)
             B == SubSeq(tableRows, i + 1, n)
  <2> HIDE DEF i, o
  <2>3. i \in Nat /\ i - 1 \in Int /\ i + 1 \in Int /\ n \in Int /\ 1 \in Int
    BY <1>1, <2>1
  <2>4. A \in Seq(Titles) /\ Len(A) = i - 1 /\ \A j \in 1..(i - 1) : A[j] = tableRows[j]
    <3>1. \A j \in 1..(i - 1) : tableRows[j] \in Titles
      BY <1>1, <2>1
    <3>2. /\ A \in Seq(Titles) /\ Len(A) = IF 1 <= i - 1 THEN (i - 1) - 1 + 1 ELSE 0
          /\ \A j \in 1..((i - 1) - 1 + 1) : A[j] = tableRows[1 + j - 1]
      BY <2>3, <3>1, SubSeqProperties
    <3>3. (i - 1) - 1 + 1 = i - 1 /\ (IF 1 <= i - 1 THEN (i - 1) - 1 + 1 ELSE 0) = i - 1
      BY <2>1, <2>3
    <3>4. \A j \in 1..(i - 1) : 1 + j - 1 = j
      BY <2>3
    <3> HIDE DEF A
    <3> QED BY <3>2, <3>3, <3>4
  <2>5. B \in Seq(Titles) /\ Len(B) = n - i /\ \A j \in 1..(n - i) : B[j] = tableRows[i + j]
    <3>1. \A j \in (i + 1)..n : tableRows[j] \in Titles
      BY <1>1, <2>1
    <3>2. /\ B \in Seq(Titles) /\ Len(B) = IF i + 1 <= n THEN n - (i + 1) + 1 ELSE 0
          /\ \A j \in 1..(n - (i + 1) + 1) : B[j] = tableRows[(i + 1) + j - 1]
      BY <2>3, <3>1, SubSeqProperties
    <3>3. n - (i + 1) + 1 = n - i /\ (IF i + 1 <= n THEN n - (i + 1) + 1 ELSE 0) = n - i
      BY <2>1, <2>3
    <3>4. \A j \in 1..(n - i) : (i + 1) + j - 1 = i + j
      BY <2>3
    <3> HIDE DEF B
    <3> QED BY <3>2, <3>3, <3>4
  <2>6. /\ o \in Seq(Titles) /\ Len(o) = n - 1
        /\ \A j \in 1..(n - 1) : o[j] = tableRows[IF j < i THEN j ELSE j + 1]
    <3> HIDE DEF A, B
    <3>1. /\ o \in Seq(Titles) /\ Len(o) = Len(A) + Len(B)
          /\ \A j \in 1..(Len(A) + Len(B)) :
                o[j] = IF j <= Len(A) THEN A[j] ELSE B[j - Len(A)]
      <4>1. o = A \o B
        BY <2>2 DEF A, B
      <4> QED BY <2>4, <2>5, <4>1, ConcatProperties
    <3>2. Len(A) + Len(B) = n - 1
      BY <2>1, <2>3, <2>4, <2>5
    <3>3. ASSUME NEW j \in 1..(n - 1)
          PROVE  o[j] = tableRows[IF j < i THEN j ELSE j + 1]
      <4>1. CASE j < i
        <5>1. j <= Len(A) /\ j \in 1..(i - 1)
          BY <2>3, <2>4, <4>1
        <5> QED BY <2>4, <3>1, <3>2, <4>1, <5>1
      <4>2. CASE ~(j < i)
        <5>1. /\ ~(j <= Len(A)) /\ j - Len(A) \in 1..(n - i) /\ i + (j - Len(A)) = j + 1
          BY <2>1, <2>3, <2>4, <4>2
        <5>2. o[j] = B[j - Len(A)]
          BY <3>1, <3>2, <5>1
        <5>3. B[j - Len(A)] = tableRows[i + (j - Len(A))]
          BY <2>5, <5>1
        <5> QED BY <4>2, <5>1, <5>2, <5>3
      <4> QED BY <4>1, <4>2
    <3> QED BY <3>1, <3>2, <3>3
  <2>7. \A j \in 1..n : tableRows[j] # t => \E l \in 1..(n - 1) : o[l] = tableRows[j]
    <3> SUFFICES ASSUME NEW j \in 1..n, tableRows[j] # t
                 PROVE  \E l \in 1..(n - 1) : o[l] = tableRows[j]
      OBVIOUS
    <3>1. CASE j < i
      BY <1>1, <2>1, <2>6, <3>1
    <3>2. CASE ~(j < i)
      <4>1. j - 1 \in 1..(n - 1) /\ ~(j - 1 < i) /\ (j - 1) + 1 = j
        BY <1>1, <2>1, <3>2
      <4> QED BY <2>6, <4>1
    <3> QED BY <3>1, <3>2
  <2>8. \A j \in 1..(n - 1) : (IF j < i THEN j ELSE j + 1) \in 1..n
    BY <1>1, <2>1
  <2>9. \A j \in 1..(n - 1) : o[j] # t
    <3> TAKE j \in 1..(n - 1)
    <3>1. (IF j < i THEN j ELSE j + 1) # i /\ (IF j < i THEN j ELSE j + 1) \in DOMAIN tableRows
      BY <1>1, <2>1, <2>8
    <3> QED BY <1>1, <2>1, <2>6, <3>1 DEF RowsHold
  <2>10. i \in Nat /\ o = Upkeep!Others(t) /\ n - 1 <= n /\ n - 1 + 1 >= n
    BY <1>1, <2>1 DEF o
  <2>11. Without(o, i, t)
    BY <2>6, <2>7, <2>8, <2>9, <2>10 DEF Without
  <2> QED BY <2>10, <2>11
<1> QED BY <1>2, <1>3

\* At first no row had its turn after the night it begins with.
LEMMA UpkeepInit == Upkeep!Init => UpkeepInv
<1> SUFFICES ASSUME Upkeep!Init PROVE UpkeepInv
  OBVIOUS
<1>1. PICK T \in SUBSET Titles : tableRows \in Upkeep!SetToSeqs(T)
  BY DEF Upkeep!Init
<1>2. IsFiniteSet(T) /\ Cardinality(T) \in Nat
  BY FS_Subset, FS_CardinalityType
<1>3. /\ tableRows \in [1..Cardinality(T) -> T]
      /\ \A i, j \in 1..Cardinality(T) : i # j => tableRows[i] # tableRows[j]
  <2> DEFINE D == 1..Cardinality(T)
  <2>1. Upkeep!SetToSeqs(T) = {f \in [D -> T] : \A i, j \in D : i # j => f[i] # f[j]}
    BY DEF Upkeep!SetToSeqs, Cardinality, Upkeep!Cardinality
  <2> HIDE DEF D
  <2>2. tableRows \in [D -> T] /\ \A i, j \in D : i # j => tableRows[i] # tableRows[j]
    BY ONLY <1>1, <2>1
  <2> QED BY <2>2 DEF D
<1>4. tableRows \in Seq(Titles) /\ Len(tableRows) = Cardinality(T) /\ DOMAIN tableRows = 1..Cardinality(T)
  <2>1. tableRows \in [1..Cardinality(T) -> Titles]
    BY <1>3
  <2> QED BY <1>2, <2>1
<1>5. Upkeep!TypeOK
  <2>1. /\ click = [a \in Clicks |-> "none"] /\ job = [a \in Clicks |-> "none"]
        /\ drain = [d \in Drains |-> {}] /\ ran = [a \in Clicks |-> 0]
        /\ stamp = [t \in Titles |-> 0] /\ night = 0 /\ slice = <<>> /\ failed = FALSE
    BY DEF Upkeep!Init
  <2>2. slice \in Seq(Titles) /\ 0 \in 0..MaxNight
    BY <2>1
  <2> QED BY ONLY <1>4, <2>1, <2>2 DEF Upkeep!TypeOK
<1>6. JobsHold
  BY DEF Upkeep!Init, JobsHold
<1>7. RowsHold
  <2>1. \A i \in DOMAIN tableRows : stamp[tableRows[i]] = 0
    BY <1>3, <1>4 DEF Upkeep!Init
  <2>2. \A t \in Titles : stamp[t] <= night
    BY DEF Upkeep!Init
  <2> QED BY <1>3, <1>4, <2>1, <2>2 DEF RowsHold
<1>8. TurnsHold
  <2> SUFFICES ASSUME NEW k \in 0..Buckets
               PROVE  Buckets * Cardinality(Late(k)) <= (Buckets - k) * Len(tableRows)
    BY DEF TurnsHold
  <2>1. CASE k = 0
    <3>1. IsFiniteSet(Upkeep!ToSet(tableRows)) /\ Late(k) \subseteq Upkeep!ToSet(tableRows)
      BY <1>4, ElementsAre DEF Late
    <3>2. Cardinality(Late(k)) <= Len(tableRows) /\ Cardinality(Late(k)) \in Nat
      BY <1>4, <1>7, <3>1, FS_Subset, FS_CardinalityType, AsManyTitles DEF RowsHold
    <3>3. Len(tableRows) \in Nat /\ Buckets \in Nat
      BY <1>4
    <3> QED BY <2>1, <3>2, <3>3
  <2>2. CASE k # 0
    <3>1. Late(k) = {}
      BY <1>4, <2>2, ElementsAre DEF Late, Upkeep!Init
    <3>2. Cardinality(Late(k)) = 0
      BY <3>1, FS_EmptySet
    <3>3. Len(tableRows) \in Nat /\ Buckets \in Nat /\ Buckets - k \in Nat
      BY <1>4
    <3>4. (Buckets - k) * Len(tableRows) >= 0
      BY <3>3
    <3> QED BY <3>2, <3>3, <3>4
  <2> QED BY <2>1, <2>2
<1> QED BY <1>5, <1>6, <1>7, <1>8 DEF UpkeepInv

\* A step of a backfill.
LEMMA JobsKeep ==
    ASSUME UpkeepInv, UNCHANGED <<tableRows, stamp, night, slice, failed>>,
           \/ \E a \in Clicks : Upkeep!Click(a) \/ Upkeep!Insert(a) \/ Upkeep!Commit(a) \/ Upkeep!Select(a)
           \/ \E d \in Drains : \/ \E a \in Clicks : Upkeep!Claim(d, a)
                                \/ \E ending \in {"done", "failed"} : Upkeep!Finish(d, ending)
                                \/ Upkeep!Die(d)
    PROVE  UpkeepInv'
<1> DEFINE Typed1 == /\ click \in [Clicks -> {"none", "insert", "select", "created", "handed", "error"}]
                     /\ job \in [Clicks -> {"none", "uncommitted", "done", "failed", "requested", "running"}]
                     /\ drain \in [Drains -> SUBSET Clicks] /\ ran \in [Clicks -> Nat]
<1>1. Typed1 /\ JobsHold
  BY DEF UpkeepInv, Upkeep!TypeOK, Upkeep!Active
<1>2. Typed1' /\ JobsHold'
  <2>1. ASSUME NEW a \in Clicks, Upkeep!Click(a) \/ Upkeep!Select(a) PROVE Typed1' /\ JobsHold'
    BY <1>1, <2>1 DEF Upkeep!Click, Upkeep!Select, JobsHold
  <2>2. ASSUME NEW a \in Clicks, Upkeep!Insert(a) PROVE Typed1' /\ JobsHold'
    BY <1>1, <2>2 DEF Upkeep!Insert, JobsHold
  <2>3. ASSUME NEW a \in Clicks, Upkeep!Commit(a) PROVE Typed1' /\ JobsHold'
    BY <1>1, <2>3 DEF Upkeep!Commit, JobsHold
  <2>4. ASSUME NEW d \in Drains, NEW a \in Clicks, Upkeep!Claim(d, a) PROVE Typed1' /\ JobsHold'
    <3>1. ran[a] = 0 /\ ran'[a] = 1 /\ \A b \in Clicks \ {a} : ran'[b] = ran[b] /\ job'[b] = job[b]
      BY <1>1, <2>4 DEF Upkeep!Claim, JobsHold
    <3>2. job'[a] = "running" /\ \A e \in Drains : drain'[e] = IF e = d THEN {a} ELSE drain[e]
      BY <1>1, <2>4 DEF Upkeep!Claim
    <3>3. Typed1'
      BY <1>1, <2>4 DEF Upkeep!Claim
    <3> QED BY <1>1, <3>1, <3>2, <3>3 DEF JobsHold
  <2>5. ASSUME NEW d \in Drains, NEW ending \in {"done", "failed"}, Upkeep!Finish(d, ending)
        PROVE  Typed1' /\ JobsHold'
    BY <1>1, <2>5 DEF Upkeep!Finish, JobsHold
  <2>6. ASSUME NEW d \in Drains, Upkeep!Die(d) PROVE Typed1' /\ JobsHold'
    BY <1>1, <2>6 DEF Upkeep!Die, JobsHold
  <2> QED BY <2>1, <2>2, <2>3, <2>4, <2>5, <2>6
<1>3. Upkeep!TypeOK'
  BY <1>2 DEF UpkeepInv, Upkeep!TypeOK, Upkeep!Active
<1>4. RowsHold' /\ TurnsHold'
  BY DEF UpkeepInv, RowsHold, TurnsHold, Late
<1> QED BY <1>2, <1>3, <1>4 DEF UpkeepInv

\* A row is stored tonight: it leaves those that are late, which no other joins.
LEMMA StoredKeeps ==
    ASSUME UpkeepInv, NEW t \in Titles, Upkeep!Stored(t), UNCHANGED <<click, job, drain, ran, night>>,
           slice' \in Seq(Titles), failed' = failed,
           Upkeep!ToSet(slice) \subseteq Upkeep!ToSet(slice)' \cup {t}
    PROVE  UpkeepInv'
<1> DEFINE n == Len(tableRows)
<1>1. PICK i \in Nat : Without(Upkeep!Others(t), i, t)
  BY OthersAre DEF UpkeepInv
<1>2. PICK o : o = Upkeep!Others(t)
  OBVIOUS
<1>3. /\ o \in Seq(Titles) /\ Len(o) \in Nat /\ DOMAIN o = 1..Len(o) /\ n \in Nat
      /\ DOMAIN tableRows = 1..n /\ Len(o) + 1 >= n /\ Without(o, i, t)
      /\ \A j \in 1..n : tableRows[j] \in Titles
  BY <1>1, <1>2, ElementsAre DEF Without, UpkeepInv, Upkeep!TypeOK
<1>4. tableRows' = Append(o, t) /\ stamp' = [stamp EXCEPT ![t] = night]
  BY <1>2 DEF Upkeep!Stored
<1>5. /\ tableRows' \in Seq(Titles) /\ Len(tableRows') = Len(o) + 1
      /\ DOMAIN tableRows' = 1..(Len(o) + 1) /\ tableRows'[Len(o) + 1] = t
      /\ \A j \in 1..Len(o) : tableRows'[j] = o[j] /\ j \in 1..(Len(o) + 1)
  BY <1>3, <1>4, AppendProperties
<1>6. /\ stamp \in [Titles -> 0..MaxNight] /\ night \in 0..MaxNight /\ stamp'[t] = night
      /\ \A u \in Titles \ {t} : stamp'[u] = stamp[u]
      /\ stamp' \in [Titles -> 0..MaxNight] /\ \A u \in Titles : stamp'[u] <= night
  BY <1>4 DEF UpkeepInv, Upkeep!TypeOK, RowsHold
<1>7. Upkeep!TypeOK'
  BY <1>5, <1>6 DEF UpkeepInv, Upkeep!TypeOK
<1>8. JobsHold'
  BY DEF UpkeepInv, JobsHold
<1>9. \A j \in 1..Len(o) : /\ (IF j < i THEN j ELSE j + 1) \in 1..n /\ o[j] # t /\ o[j] \in Titles
                          /\ o[j] = tableRows[IF j < i THEN j ELSE j + 1]
  BY <1>3 DEF Without
<1>10. RowsHold'
  <2>1. ASSUME NEW j \in DOMAIN tableRows', NEW l \in DOMAIN tableRows'
        PROVE  /\ tableRows'[j] = tableRows'[l] => j = l
               /\ j < l => stamp'[tableRows'[j]] <= stamp'[tableRows'[l]]
    <3>1. CASE j \in 1..Len(o) /\ l \in 1..Len(o)
      <4>1. PICK a, b \in 1..n : /\ a = (IF j < i THEN j ELSE j + 1) /\ o[j] = tableRows[a]
                                /\ b = (IF l < i THEN l ELSE l + 1) /\ o[l] = tableRows[b]
        BY <1>9, <3>1
      <4>2. (a = b => j = l) /\ (j < l => a < b)
        BY <1>1, <1>3, <3>1, <4>1
      <4>3. /\ tableRows[a] = tableRows[b] => a = b
            /\ a < b => stamp[tableRows[a]] <= stamp[tableRows[b]]
        BY <1>3 DEF UpkeepInv, RowsHold
      <4>4. tableRows'[j] = tableRows[a] /\ tableRows'[l] = tableRows[b]
        BY <1>5, <3>1, <4>1
      <4>5. stamp'[tableRows[a]] = stamp[tableRows[a]] /\ stamp'[tableRows[b]] = stamp[tableRows[b]]
        BY <1>3, <1>6, <1>9, <3>1, <4>1
      <4> QED BY <4>2, <4>3, <4>4, <4>5
    <3>2. CASE j \in 1..Len(o) /\ l = Len(o) + 1
      <4>1. tableRows'[j] = o[j] /\ tableRows'[l] = t /\ o[j] # t /\ o[j] \in Titles
        BY <1>5, <1>9, <3>2
      <4> QED BY <1>6, <4>1
    <3>3. CASE j = Len(o) + 1 /\ l \in 1..Len(o)
      <4>1. tableRows'[l] = o[l] /\ tableRows'[j] = t /\ o[l] # t /\ ~(j < l)
        BY <1>3, <1>5, <1>9, <3>3
      <4> QED BY <4>1
    <3>4. CASE j = Len(o) + 1 /\ l = Len(o) + 1
      BY <1>3, <3>4
    <3> QED BY <1>3, <1>5, <3>1, <3>2, <3>3, <3>4
  <2> QED BY <1>6, <2>1 DEF RowsHold
<1>11. TurnsHold'
  <2> SUFFICES ASSUME ~failed, NEW k \in 0..Buckets
               PROVE  Buckets * Cardinality(Late(k)') <= (Buckets - k) * Len(tableRows')
    BY DEF TurnsHold
  <2>1. Buckets * Cardinality(Late(k)) <= (Buckets - k) * n
    BY DEF UpkeepInv, TurnsHold
  <2>2. /\ IsFiniteSet(Late(k)) /\ Cardinality(Late(k)) \in Nat
        /\ IsFiniteSet(Upkeep!ToSet(tableRows)')
    <3>1. Late(k) \subseteq Upkeep!ToSet(tableRows)
      BY DEF Late
    <3>2. IsFiniteSet(Upkeep!ToSet(tableRows))
      BY ElementsAre DEF UpkeepInv, Upkeep!TypeOK
    <3>3. IsFiniteSet({tableRows'[j] : j \in DOMAIN tableRows'})
      BY <1>5, ElementsAre DEF Upkeep!ToSet
    <3> QED BY <3>1, <3>2, <3>3, FS_Subset, FS_CardinalityType DEF Upkeep!ToSet
  <2>3. CASE k = 0
    <3>1. Late(k)' \subseteq Upkeep!ToSet(tableRows)'
      BY DEF Late
    <3>2. Cardinality(Upkeep!ToSet(tableRows)') = Len(tableRows')
      <4>1. Cardinality(Upkeep!ToSet(tableRows')) = Len(tableRows')
        BY <1>5, <1>10, AsManyTitles DEF RowsHold
      <4> QED BY <4>1 DEF Upkeep!ToSet
    <3>3. Cardinality(Late(k)') <= Len(tableRows') /\ Cardinality(Late(k)') \in Nat
      BY <2>2, <3>1, <3>2, FS_Subset, FS_CardinalityType
    <3>4. Buckets - k = Buckets /\ Buckets \in Nat /\ Len(tableRows') \in Nat
      BY <1>3, <1>5, <2>3
    <3> QED BY <3>3, <3>4
  <2>4. CASE k # 0
    <3>1. Late(k)' \subseteq Late(k)
      <4> SUFFICES ASSUME NEW u \in Late(k)' PROVE u \in Late(k)
        OBVIOUS
      <4>1. PICK j \in DOMAIN tableRows' : u = tableRows'[j]
        BY DEF Late, Upkeep!ToSet
      <4>2. u \in Titles /\ stamp'[u] <= night - k /\ u \notin Upkeep!ToSet(slice)'
        BY <1>5, <4>1 DEF Late
      <4>3. u # t
        BY <1>6, <2>4, <4>2
      <4>4. j \in 1..Len(o) /\ u = o[j]
        BY <1>3, <1>5, <4>1, <4>3
      <4>5. u \in Upkeep!ToSet(tableRows)
        BY <1>3, <1>9, <4>4 DEF Upkeep!ToSet
      <4>6. u \notin Upkeep!ToSet(slice) /\ stamp[u] <= night - k
        BY <1>6, <4>2, <4>3
      <4> QED BY <4>5, <4>6 DEF Late
    <3>2. Cardinality(Late(k)') <= Cardinality(Late(k)) /\ Cardinality(Late(k)') \in Nat
      BY <2>2, <3>1, FS_Subset, FS_CardinalityType
    <3>3. Buckets \in Nat /\ Buckets - k \in Nat /\ Len(tableRows') \in Nat /\ n <= Len(tableRows')
      BY <1>3, <1>5
    <3>4. (Buckets - k) * n <= (Buckets - k) * Len(tableRows')
      BY <1>3, <3>3
    <3>5. Buckets * Cardinality(Late(k)') <= Buckets * Cardinality(Late(k))
      BY <2>2, <3>2, <3>3
    <3>6. /\ Buckets * Cardinality(Late(k)') \in Int /\ Buckets * Cardinality(Late(k)) \in Int
          /\ (Buckets - k) * n \in Int /\ (Buckets - k) * Len(tableRows') \in Int
      BY <1>3, <2>2, <3>2, <3>3
    <3> QED BY <2>1, <3>4, <3>5, <3>6
  <2> QED BY <2>3, <2>4
<1> QED BY <1>7, <1>8, <1>10, <1>11 DEF UpkeepInv

\* A title that is tried leaves the slice.
LEMMA TailHas ==
    ASSUME slice \in Seq(Titles), slice # <<>>, slice' = Tail(slice)
    PROVE  /\ Head(slice) \in Titles /\ slice' \in Seq(Titles)
           /\ Upkeep!ToSet(slice) \subseteq Upkeep!ToSet(slice)' \cup {Head(slice)}
<1>1. /\ Head(slice) \in Titles /\ slice' \in Seq(Titles) /\ Len(slice) \in Nat \ {0}
      /\ DOMAIN slice = 1..Len(slice) /\ DOMAIN slice' = 1..(Len(slice) - 1) /\ Head(slice) = slice[1]
      /\ \A j \in 1..(Len(slice) - 1) : slice'[j] = slice[j + 1]
  BY EmptySeq
<1>2. ASSUME NEW j \in 1..Len(slice), j # 1
      PROVE  slice[j] \in Upkeep!ToSet(slice)'
  <2>1. j - 1 \in 1..(Len(slice) - 1) /\ (j - 1) + 1 = j
    BY <1>1, <1>2
  <2> QED BY <1>1, <2>1 DEF Upkeep!ToSet
<1> QED BY <1>1, <1>2 DEF Upkeep!ToSet

\* A slice is a bucket's share of the rows, rounded up, and they are the first of the table.
LEMMA SliceIs ==
    ASSUME Upkeep!TypeOK
    PROVE  \E c \in 0..Len(tableRows) :
              /\ Len(tableRows) <= Buckets * c
              /\ Upkeep!Slice \in Seq(Titles) /\ Len(Upkeep!Slice) = c
              /\ DOMAIN Upkeep!Slice = 1..c /\ \A j \in 1..c : Upkeep!Slice[j] = tableRows[j]
<1> DEFINE n == Len(tableRows)
           c == (n + Buckets - 1) \div Buckets
           s == SubSeq(tableRows, 1, c)
<1>1. n \in Nat /\ Buckets \in Nat \ {0} /\ \A j \in 1..n : tableRows[j] \in Titles
  BY ElementsAre DEF Upkeep!TypeOK
<1>2. c \in Nat /\ n <= Buckets * c /\ Buckets * c <= n + Buckets - 1
  <2>1. \A x \in Nat, b \in Nat \ {0} : /\ x \div b \in Nat /\ b * (x \div b) <= x
                                     /\ x < b * (x \div b) + b
    OBVIOUS
  <2>2. n + Buckets - 1 \in Nat
    BY <1>1
  <2>3. c \in Nat /\ Buckets * c <= n + Buckets - 1 /\ n + Buckets - 1 < Buckets * c + Buckets
    BY <1>1, <2>1, <2>2
  <2> HIDE DEF c
  <2>4. Buckets * c \in Nat
    BY <1>1, <2>3
  <2> QED BY <1>1, <2>3, <2>4
<1> HIDE DEF c
<1>3. c <= n
  <2>1. CASE n = 0
    <3>1. c # 0 => Buckets * c >= Buckets
      BY <1>1, <1>2
    <3> QED BY <1>1, <1>2, <2>1, <3>1
  <2>2. CASE n # 0
    <3> SUFFICES ASSUME c >= n + 1 PROVE FALSE
      BY <1>1, <1>2
    <3>1. Buckets * c >= Buckets * (n + 1)
      BY <1>1, <1>2
    <3>2. Buckets * (n + 1) = Buckets * n + Buckets
      BY <1>1
    <3>3. Buckets * n >= n
      BY <1>1
    <3>4. Buckets * n \in Nat /\ Buckets * c \in Nat /\ Buckets * (n + 1) \in Nat
      BY <1>1, <1>2
    <3> QED BY <1>1, <1>2, <3>1, <3>2, <3>3, <3>4
  <2> QED BY <2>1, <2>2
<1>4. /\ s \in Seq(Titles) /\ Len(s) = IF 1 <= c THEN c - 1 + 1 ELSE 0
      /\ \A j \in 1..(c - 1 + 1) : s[j] = tableRows[1 + j - 1]
  <2>1. \A j \in 1..c : tableRows[j] \in Titles
    BY <1>1, <1>2, <1>3
  <2> QED BY <1>2, <2>1, 1 \in Int, SubSeqProperties
<1>5. Len(s) = c /\ DOMAIN s = 1..c /\ \A j \in 1..c : s[j] = tableRows[j]
  <2>1. (IF 1 <= c THEN c - 1 + 1 ELSE 0) = c /\ c - 1 + 1 = c /\ \A j \in 1..c : 1 + j - 1 = j
    BY <1>2
  <2> HIDE DEF s
  <2> QED BY <1>4, <2>1
<1>6. Upkeep!Slice = s
  BY DEF Upkeep!Slice, s, c
<1> QED BY <1>1, <1>2, <1>3, <1>4, <1>5, <1>6

\* Rows that are late by one night more are those that were, less tonight's slice: all of it, or
\* there are none left.
LEMMA NightKeeps == ASSUME UpkeepInv, Upkeep!Nightfall PROVE UpkeepInv'
<1> DEFINE n == Len(tableRows)
<1>1. PICK c \in 0..n :
        /\ n <= Buckets * c /\ slice' \in Seq(Titles) /\ Len(slice') = c /\ DOMAIN slice' = 1..c
        /\ \A j \in 1..c : slice'[j] = tableRows[j]
  BY SliceIs DEF UpkeepInv, Upkeep!Nightfall
<1>2. /\ n \in Nat /\ DOMAIN tableRows = 1..n /\ \A j \in 1..n : tableRows[j] \in Titles
      /\ stamp \in [Titles -> 0..MaxNight] /\ night \in 0..MaxNight /\ slice = <<>>
      /\ night' = night + 1 /\ night' \in 0..MaxNight
      /\ UNCHANGED <<click, job, drain, ran, tableRows, stamp, failed>>
  BY ElementsAre DEF UpkeepInv, Upkeep!TypeOK, Upkeep!Nightfall, Upkeep!jobVars
<1>3. Upkeep!TypeOK'
  BY <1>1, <1>2 DEF UpkeepInv, Upkeep!TypeOK
<1>4. JobsHold'
  BY <1>2 DEF UpkeepInv, JobsHold
<1>5. RowsHold'
  BY <1>2 DEF UpkeepInv, RowsHold
<1>6. TurnsHold'
  <2> SUFFICES ASSUME ~failed, NEW l \in 0..Buckets
               PROVE  Buckets * Cardinality(Late(l)') <= (Buckets - l) * n
    BY <1>2 DEF TurnsHold
  <2> DEFINE T == Upkeep!ToSet(tableRows)
             S == {tableRows[j] : j \in 1..c}
             New == {t \in T \ S : stamp[t] <= night + 1 - l}
  <2>1. Late(l)' = New /\ S \subseteq T /\ IsFiniteSet(T) /\ Cardinality(T) = n
    <3>1. Upkeep!ToSet(slice)' = S
      BY <1>1 DEF Upkeep!ToSet
    <3>2. S \subseteq T
      BY <1>1, <1>2 DEF Upkeep!ToSet
    <3>3. IsFiniteSet(T) /\ Cardinality(T) = n
      BY ElementsAre, AsManyTitles DEF UpkeepInv, Upkeep!TypeOK, RowsHold
    <3>4. Upkeep!ToSet(tableRows)' = T
      BY <1>2 DEF Upkeep!ToSet
    <3>5. Late(l)' = {t \in Upkeep!ToSet(tableRows)' \ Upkeep!ToSet(slice)' : stamp'[t] <= night' - l}
      BY DEF Late
    <3>6. Late(l)' = New
      BY <1>2, <3>1, <3>4, <3>5
    <3> QED BY <3>2, <3>3, <3>6
  <2>2. IsFiniteSet(New) /\ Cardinality(New) \in Nat /\ Cardinality(New) <= n
    <3>1. New \subseteq T
      OBVIOUS
    <3> HIDE DEF New, T
    <3> QED BY <2>1, <3>1, FS_Subset, FS_CardinalityType
  <2>3. Buckets \in Nat /\ Buckets - l \in Nat /\ (Buckets - l) * n \in Nat
    BY <1>2
  <2>4. CASE l = 0
    BY <1>2, <2>1, <2>2, <2>3, <2>4
  <2>5. CASE New = {}
    <3>1. Cardinality(Late(l)') = 0
      BY <2>1, <2>5, FS_EmptySet
    <3> QED BY <2>3, <3>1
  <2>6. CASE l # 0 /\ New # {}
    <3>1. PICK k \in 0..Buckets : l = k + 1 /\ night + 1 - l = night - k
      <4>1. l - 1 \in 0..Buckets /\ l = (l - 1) + 1 /\ night + 1 - l = night - (l - 1)
        BY <1>2, <2>3, <2>6
      <4> QED BY <4>1
    <3>2. Late(k) = {t \in T : stamp[t] <= night - k}
      BY <1>2 DEF Late, Upkeep!ToSet
    <3>3. PICK m \in 1..n : tableRows[m] \in New
      BY <1>2, <2>6 DEF Upkeep!ToSet
    <3>4. m > c
      BY <1>1, <1>2, <3>3
    <3>5. \A j \in 1..c : stamp[tableRows[j]] <= night - k
      <4> TAKE j \in 1..c
      <4>1. j \in 1..n /\ j < m
        BY <1>1, <1>2, <3>3, <3>4
      <4>2. stamp[tableRows[j]] <= stamp[tableRows[m]]
        BY <1>2, <3>3, <4>1 DEF UpkeepInv, RowsHold
      <4>3. stamp[tableRows[m]] <= night - k
        BY <3>1, <3>3
      <4>4. stamp[tableRows[j]] \in Int /\ stamp[tableRows[m]] \in Int
        BY <1>2, <3>3, <4>1
      <4> QED BY <1>2, <3>1, <4>2, <4>3, <4>4
    <3>6. S \subseteq Late(k) /\ New = Late(k) \ S
      BY <2>1, <3>1, <3>2, <3>5
    <3>7. Cardinality(S) = c
      <4>1. \A i, j \in DOMAIN slice' : slice'[i] = slice'[j] => i = j
        BY <1>1, <1>2 DEF UpkeepInv, RowsHold
      <4>2. Cardinality(Upkeep!ToSet(slice')) = c
        BY <1>1, <4>1, AsManyTitles
      <4>3. Upkeep!ToSet(slice') = S
        BY <1>1 DEF Upkeep!ToSet
      <4> QED BY <4>2, <4>3
    <3>8. Cardinality(New) = Cardinality(Late(k)) - c /\ Cardinality(Late(k)) \in Nat
      <4>1. Late(k) \subseteq T
        BY <3>2
      <4>2. IsFiniteSet(Late(k)) /\ Cardinality(Late(k)) \in Nat
        BY <2>1, <4>1, FS_Subset, FS_CardinalityType
      <4>3. Late(k) \cap S = S
        BY <3>6
      <4> HIDE DEF S, New
      <4>4. Cardinality(Late(k) \ S) = Cardinality(Late(k)) - Cardinality(Late(k) \cap S)
        BY <4>2, FS_Difference
      <4> QED BY <3>6, <3>7, <4>2, <4>3, <4>4
    <3>9. Buckets * Cardinality(Late(k)) <= (Buckets - k) * n
      BY DEF UpkeepInv, TurnsHold
    <3>10. PICK x \in Nat : x = Cardinality(Late(k))
      BY <3>8
    <3>11. Buckets * (x - c) = Buckets * x - Buckets * c
      BY <1>1, <2>3
    <3>12. (Buckets - l) * n = (Buckets - k) * n - n
      BY <1>2, <2>3, <3>1
    <3>13. Buckets * x \in Int /\ Buckets * c \in Int /\ (Buckets - k) * n \in Int
      BY <1>1, <1>2, <2>3, <3>1
    <3>14. Buckets * (x - c) <= (Buckets - l) * n
      BY <1>1, <1>2, <3>9, <3>10, <3>11, <3>12, <3>13
    <3> QED BY <2>1, <3>8, <3>10, <3>14
  <2> QED BY <2>4, <2>5, <2>6
<1> QED BY <1>3, <1>4, <1>5, <1>6 DEF UpkeepInv

LEMMA UpkeepStep == UpkeepInv /\ [Upkeep!Next]_maintainVars => UpkeepInv'
<1> SUFFICES ASSUME UpkeepInv, [Upkeep!Next]_maintainVars PROVE UpkeepInv'
  OBVIOUS
<1>1. CASE \/ \E a \in Clicks : Upkeep!Click(a) \/ Upkeep!Insert(a) \/ Upkeep!Commit(a) \/ Upkeep!Select(a)
           \/ \E d \in Drains : \/ \E a \in Clicks : Upkeep!Claim(d, a)
                                \/ \E ending \in {"done", "failed"} : Upkeep!Finish(d, ending)
                                \/ Upkeep!Die(d)
  <2>1. UNCHANGED <<tableRows, stamp, night, slice, failed>>
    BY <1>1 DEF Upkeep!Click, Upkeep!Insert, Upkeep!Commit, Upkeep!Select, Upkeep!Claim,
       Upkeep!Finish, Upkeep!Die, Upkeep!rowVars
  <2> QED BY <1>1, <2>1, JobsKeep
<1>2. CASE Upkeep!Nightfall
  BY <1>2, NightKeeps
<1>3. CASE Upkeep!Repull
  <2>1. slice \in Seq(Titles) /\ slice # <<>>
    BY <1>3 DEF UpkeepInv, Upkeep!TypeOK, Upkeep!Repull
  <2>2. /\ Head(slice) \in Titles /\ slice' \in Seq(Titles)
        /\ Upkeep!ToSet(slice) \subseteq Upkeep!ToSet(slice)' \cup {Head(slice)}
    BY <1>3, <2>1, TailHas DEF Upkeep!Repull
  <2> QED BY <1>3, <2>2, StoredKeeps DEF Upkeep!Repull, Upkeep!jobVars
<1>4. CASE Upkeep!RepullFails
  <2>1. slice \in Seq(Titles) /\ slice # <<>>
    BY <1>4 DEF UpkeepInv, Upkeep!TypeOK, Upkeep!RepullFails
  <2>2. slice' \in Seq(Titles)
    BY <1>4, <2>1, TailHas DEF Upkeep!RepullFails
  <2>3. UNCHANGED <<click, job, drain, ran, tableRows, stamp, night>> /\ failed' = TRUE
    BY <1>4 DEF Upkeep!RepullFails, Upkeep!jobVars
  <2> QED BY <2>2, <2>3 DEF UpkeepInv, Upkeep!TypeOK, JobsHold, RowsHold, TurnsHold
<1>5. ASSUME NEW t \in Titles, Upkeep!Browse(t) PROVE UpkeepInv'
  <2>1. /\ Upkeep!Stored(t) /\ UNCHANGED <<click, job, drain, ran, night, slice, failed>>
        /\ slice' \in Seq(Titles)
    BY <1>5 DEF Upkeep!Browse, Upkeep!jobVars, UpkeepInv, Upkeep!TypeOK
  <2>2. Upkeep!ToSet(slice) \subseteq Upkeep!ToSet(slice)' \cup {t}
    BY <2>1 DEF Upkeep!ToSet
  <2> QED BY <2>1, <2>2, StoredKeeps
<1>6. CASE UNCHANGED maintainVars
  BY <1>6 DEF maintainVars, UpkeepInv, Upkeep!TypeOK, JobsHold, RowsHold, TurnsHold, Late
<1> QED BY <1>1, <1>2, <1>3, <1>4, <1>5, <1>6 DEF Upkeep!Next

LEMMA UpkeepSafe == UpkeepInv => Upkeep!JobRunsOnce /\ Upkeep!TableCycles
<1> SUFFICES ASSUME UpkeepInv PROVE Upkeep!JobRunsOnce /\ Upkeep!TableCycles
  OBVIOUS
<1>1. Upkeep!JobRunsOnce
  BY DEF UpkeepInv, JobsHold, Upkeep!JobRunsOnce
<1>2. Upkeep!TableCycles
  <2> SUFFICES ASSUME slice = <<>>, ~failed, NEW t \in Upkeep!ToSet(tableRows)
               PROVE  night - stamp[t] < Buckets
    BY DEF Upkeep!TableCycles
  <2>1. /\ IsFiniteSet(Upkeep!ToSet(tableRows)) /\ t \in Titles /\ Len(tableRows) \in Nat
        /\ stamp[t] \in Nat /\ night \in Nat /\ Buckets \in Nat
    BY ElementsAre DEF UpkeepInv, Upkeep!TypeOK
  <2>2. Buckets \in 0..Buckets /\ (Buckets - Buckets) * Len(tableRows) = 0
    BY <2>1
  <2>3. Buckets * Cardinality(Late(Buckets)) <= 0
    BY <2>2 DEF UpkeepInv, TurnsHold
  <2>4. IsFiniteSet(Late(Buckets)) /\ Cardinality(Late(Buckets)) \in Nat
    BY <2>1, FS_Subset, FS_CardinalityType DEF Late
  <2>5. Cardinality(Late(Buckets)) = 0
    <3>1. PICK x \in Nat : x = Cardinality(Late(Buckets))
      BY <2>4
    <3>2. Buckets * x <= 0 /\ Buckets > 0
      BY <2>3, <3>1
    <3> QED BY <2>1, <3>1, <3>2
  <2>6. Late(Buckets) = {}
    BY <2>4, <2>5, FS_EmptySet
  <2>7. t \notin Upkeep!ToSet(slice)
    BY DEF Upkeep!ToSet
  <2>8. ~(stamp[t] <= night - Buckets)
    BY <2>6, <2>7 DEF Late
  <2> QED BY <2>1, <2>8
<1> QED BY <1>1, <1>2

-----------------------------------------------------------------------------
(* The rows of a rebuild.                                                  *)

\* A list, by its places.
LEMMA ListIs ==
    ASSUME NEW data \in Seq(Items)
    PROVE  /\ Len(data) \in Nat /\ DOMAIN data = 1..Len(data)
           /\ \A i \in DOMAIN data :
                  /\ i \in Nat /\ data[i] \in Items
                  /\ data[i].anilist \in Nat /\ data[i].tv \in Nat /\ data[i].season \in Nat
                  /\ Filing!SeasonOf(data[i]) \in Nat
<1>1. Len(data) \in Nat /\ DOMAIN data = 1..Len(data) /\ \A i \in DOMAIN data : data[i] \in Items
  BY LenProperties, ElementOfSeq
<1>2. ASSUME NEW i \in DOMAIN data
      PROVE  data[i].anilist \in Nat /\ data[i].tv \in Nat /\ data[i].season \in Nat
  BY <1>1, FilingAssumption
<1> QED BY <1>1, <1>2 DEF Filing!SeasonOf

\* The places up to n that belong to a show.
Until(data, show, n) == {i \in Filing!Group(data, show) : i <= n}

\* Every slot that one of the places claims has one of its best, the other places are left over.
Settled(data, show, n, a) ==
    /\ \A s : s \in DOMAIN a.chosen <=>
              s # 0 /\ \E i \in Until(data, show, n) : Filing!SeasonOf(data[i]) = s
    /\ \A s \in DOMAIN a.chosen :
           /\ a.chosen[s] \in Until(data, show, n) /\ Filing!SeasonOf(data[a.chosen[s]]) = s
           /\ \A j \in Until(data, show, n) :
                  Filing!SeasonOf(data[j]) = s => ~Filing!Wins(data[j], data[a.chosen[s]])
    /\ a.left = Until(data, show, n) \ {a.chosen[s] : s \in DOMAIN a.chosen}

LEMMA WinsOrder ==
    ASSUME NEW x, NEW y, NEW z,
           x.anilist \in Nat, y.anilist \in Nat, z.anilist \in Nat
    PROVE  /\ ~Filing!Wins(x, x)
           /\ Filing!Wins(x, y) => ~Filing!Wins(y, x)
           /\ Filing!Wins(x, y) /\ ~Filing!Wins(z, y) => ~Filing!Wins(z, x)
  BY DEF Filing!Wins

\* A turn of the loop.
LEMMA PlaceSettles ==
    ASSUME NEW data \in Seq(Items), NEW show, NEW n \in Filing!Group(data, show), NEW a,
           Settled(data, show, n - 1, a)
    PROVE  Settled(data, show, n, Filing!Place(data, a, n))
<1> DEFINE U == Until(data, show, n - 1)
           s0 == Filing!SeasonOf(data[n])
           b == Filing!Place(data, a, n)
<1>1. /\ n \in DOMAIN data /\ n \in Nat /\ s0 \in Nat /\ n \notin U
      /\ Until(data, show, n) = U \cup {n} /\ U \subseteq DOMAIN data
      /\ \A i \in DOMAIN data : data[i].anilist \in Nat
  BY ListIs DEF Filing!Group, Until
<1>2. /\ \A s : s \in DOMAIN a.chosen <=> s # 0 /\ \E i \in U : Filing!SeasonOf(data[i]) = s
      /\ \A s \in DOMAIN a.chosen :
             /\ a.chosen[s] \in U /\ Filing!SeasonOf(data[a.chosen[s]]) = s
             /\ \A j \in U : Filing!SeasonOf(data[j]) = s => ~Filing!Wins(data[j], data[a.chosen[s]])
      /\ a.left = U \ {a.chosen[s] : s \in DOMAIN a.chosen}
  BY DEF Settled
<1>3. b = IF s0 < 1 \/ (s0 \in DOMAIN a.chosen /\ ~Filing!Wins(data[n], data[a.chosen[s0]]))
          THEN [chosen |-> a.chosen, left |-> a.left \cup {n}]
          ELSE [chosen |-> [t \in DOMAIN a.chosen \cup {s0} |-> IF t = s0 THEN n ELSE a.chosen[t]],
                left |-> a.left \cup (IF s0 \in DOMAIN a.chosen THEN {a.chosen[s0]} ELSE {})]
  BY DEF Filing!Place
<1> HIDE DEF U, b
<1>4. CASE s0 < 1
  <2>1. s0 = 0 /\ b.chosen = a.chosen /\ b.left = a.left \cup {n}
    BY <1>1, <1>3, <1>4
  <2> HIDE DEF s0
  <2>2. \A s : s \in DOMAIN b.chosen <=>
              s # 0 /\ \E i \in U \cup {n} : Filing!SeasonOf(data[i]) = s
    BY <1>2, <2>1 DEF s0
  <2>3. \A s \in DOMAIN b.chosen :
             /\ b.chosen[s] \in U \cup {n} /\ Filing!SeasonOf(data[b.chosen[s]]) = s
             /\ \A j \in U \cup {n} : Filing!SeasonOf(data[j]) = s => ~Filing!Wins(data[j], data[b.chosen[s]])
    BY <1>2, <2>1 DEF s0
  <2>4. b.left = (U \cup {n}) \ {b.chosen[s] : s \in DOMAIN b.chosen}
    BY <1>1, <1>2, <2>1
  <2> QED BY <1>1, <2>2, <2>3, <2>4 DEF Settled, b
<1>5. CASE s0 >= 1 /\ s0 \in DOMAIN a.chosen /\ ~Filing!Wins(data[n], data[a.chosen[s0]])
  <2>1. b.chosen = a.chosen /\ b.left = a.left \cup {n}
    BY <1>1, <1>3, <1>5
  <2>2. \A s : s \in DOMAIN b.chosen <=>
              s # 0 /\ \E i \in U \cup {n} : Filing!SeasonOf(data[i]) = s
    BY <1>2, <1>5, <2>1
  <2>3. \A s \in DOMAIN b.chosen :
             /\ b.chosen[s] \in U \cup {n} /\ Filing!SeasonOf(data[b.chosen[s]]) = s
             /\ \A j \in U \cup {n} : Filing!SeasonOf(data[j]) = s => ~Filing!Wins(data[j], data[b.chosen[s]])
    BY <1>2, <1>5, <2>1
  <2>4. b.left = (U \cup {n}) \ {b.chosen[s] : s \in DOMAIN b.chosen}
    BY <1>1, <1>2, <2>1
  <2> QED BY <1>1, <2>2, <2>3, <2>4 DEF Settled, b
<1>6. CASE s0 >= 1 /\ ~(s0 \in DOMAIN a.chosen /\ ~Filing!Wins(data[n], data[a.chosen[s0]]))
  <2> DEFINE loser == IF s0 \in DOMAIN a.chosen THEN {a.chosen[s0]} ELSE {}
  <2>1. /\ DOMAIN b.chosen = DOMAIN a.chosen \cup {s0} /\ b.left = a.left \cup loser
        /\ b.chosen[s0] = n /\ \A s \in DOMAIN a.chosen : s # s0 => b.chosen[s] = a.chosen[s]
    BY <1>1, <1>3, <1>6
  <2>2. \A s : s \in DOMAIN b.chosen <=>
              s # 0 /\ \E i \in U \cup {n} : Filing!SeasonOf(data[i]) = s
    BY <1>2, <1>6, <2>1
  <2>3. ASSUME NEW s \in DOMAIN b.chosen
        PROVE  /\ b.chosen[s] \in U \cup {n} /\ Filing!SeasonOf(data[b.chosen[s]]) = s
               /\ \A j \in U \cup {n} :
                      Filing!SeasonOf(data[j]) = s => ~Filing!Wins(data[j], data[b.chosen[s]])
    <3>1. CASE s # s0
      BY <1>2, <2>1, <3>1
    <3>2. CASE s = s0
      <4>1. ~Filing!Wins(data[n], data[n])
        BY <1>1, WinsOrder
      <4>2. ASSUME NEW j \in U, Filing!SeasonOf(data[j]) = s0 PROVE ~Filing!Wins(data[j], data[n])
        <5>1. s0 \in DOMAIN a.chosen
          BY <1>2, <1>6, <4>2
        <5> DEFINE c == a.chosen[s0]
        <5>2. c \in U /\ ~Filing!Wins(data[j], data[c]) /\ Filing!Wins(data[n], data[c])
          BY <1>2, <1>6, <4>2, <5>1
        <5>3. data[j].anilist \in Nat /\ data[c].anilist \in Nat /\ data[n].anilist \in Nat
          BY <1>1, <5>2
        <5> HIDE DEF c
        <5> QED BY <5>2, <5>3, WinsOrder
      <4> QED BY <2>1, <3>2, <4>1, <4>2
    <3> QED BY <3>1, <3>2
  <2>4. b.left = (U \cup {n}) \ {b.chosen[s] : s \in DOMAIN b.chosen}
    <3>1. ASSUME NEW i \in b.left PROVE i \in U /\ \A s \in DOMAIN b.chosen : i # b.chosen[s]
      <4>1. CASE i \in a.left
        BY <1>1, <1>2, <2>1, <4>1
      <4>2. CASE i \in loser
        <5>1. s0 \in DOMAIN a.chosen /\ i = a.chosen[s0] /\ i \in U
          BY <1>2, <4>2
        <5>2. \A s \in DOMAIN a.chosen : s # s0 => a.chosen[s] # i
          BY <1>2, <5>1
        <5> QED BY <1>1, <2>1, <5>1, <5>2
      <4> QED BY <2>1, <3>1, <4>1, <4>2
    <3>2. ASSUME NEW i \in U \cup {n}, \A s \in DOMAIN b.chosen : i # b.chosen[s]
          PROVE  i \in b.left
      <4>1. i \in U
        BY <2>1, <3>2
      <4>2. CASE i \in a.left
        BY <2>1, <4>2
      <4>3. CASE i \notin a.left
        <5>1. PICK s \in DOMAIN a.chosen : i = a.chosen[s]
          BY <1>2, <4>1, <4>3
        <5>2. s = s0
          BY <2>1, <3>2, <5>1
        <5> QED BY <2>1, <5>1, <5>2
      <4> QED BY <4>2, <4>3
    <3> QED BY <3>1, <3>2
  <2> QED BY <1>1, <2>2, <2>3, <2>4 DEF Settled, b
<1> QED BY <1>1, <1>4, <1>5, <1>6

\* The loop turns from one entry of the list to the next.
NoSlots == [chosen |-> [s \in {} |-> 0], left |-> {}]
TurnOf(data, show, u, n) ==
    IF n = 0 THEN NoSlots
    ELSE IF n \in Filing!Group(data, show) THEN Filing!Place(data, u[n - 1], n) ELSE u[n - 1]

LEMMA TurnsAre ==
    ASSUME NEW data, NEW show, NEW m \in Nat
    PROVE  \E u : u = [n \in 0..m |-> TurnOf(data, show, u, n)]
<1> DEFINE Has(n) == \E u : \A k \in 0..n : u[k] = TurnOf(data, show, u, k)
           bad == {n \in Nat : ~Has(n)}
<1>1. Has(0)
  <2> DEFINE u == [k \in {0} |-> NoSlots]
  <2>1. u[0] = TurnOf(data, show, u, 0)
    BY DEF TurnOf
  <2>2. \A k \in 0..0 : k = 0
    OBVIOUS
  <2> HIDE DEF u
  <2> QED BY <2>1, <2>2
<1>2. ASSUME NEW n \in Nat, n # 0, Has(n - 1) PROVE Has(n)
  <2>1. PICK v : \A k \in 0..(n - 1) : v[k] = TurnOf(data, show, v, k)
    BY <1>2
  <2> DEFINE u == [k \in 0..n |-> IF k = n THEN TurnOf(data, show, v, n) ELSE v[k]]
  <2>2. \A k \in 0..(n - 1) : k \in Nat /\ k # n /\ k \in 0..n /\ (k # 0 => k - 1 \in 0..(n - 1))
    BY <1>2
  <2>3. u[n] = TurnOf(data, show, v, n) /\ \A k \in 0..(n - 1) : u[k] = v[k]
    BY <2>2
  <2> HIDE DEF u
  <2>4. ASSUME NEW k \in 0..n PROVE u[k] = TurnOf(data, show, u, k)
    <3>1. k # 0 => k - 1 \in 0..(n - 1)
      BY <1>2
    <3>2. TurnOf(data, show, u, k) = TurnOf(data, show, v, k)
      BY <2>3, <3>1 DEF TurnOf
    <3>3. CASE k = n
      BY <2>3, <3>2, <3>3
    <3>4. CASE k # n
      <4>1. k \in 0..(n - 1)
        BY <1>2, <3>4
      <4> QED BY <2>1, <2>3, <3>2, <4>1
    <3> QED BY <3>3, <3>4
  <2> QED BY <2>4
<1> HIDE DEF Has
<1>3. bad = {}
  <2>1. SUFFICES ASSUME bad # {} PROVE FALSE
    OBVIOUS
  <2>2. bad \in SUBSET Nat
    OBVIOUS
  <2>3. PICK n \in bad : \A k \in bad : n <= k
    <3> HIDE DEF bad
    <3> QED BY <2>1, <2>2, Least
  <2>4. n \in Nat /\ ~Has(n) /\ n # 0
    BY <1>1
  <2>5. n - 1 \in Nat /\ ~(n <= n - 1)
    BY <2>4
  <2>6. Has(n - 1)
    BY <2>3, <2>5
  <2> QED BY <1>2, <2>4, <2>6
<1>4. PICK v : \A k \in 0..m : v[k] = TurnOf(data, show, v, k)
  BY <1>3 DEF Has
<1> DEFINE u == [n \in 0..m |-> v[n]]
<1>5. \A k \in 0..m : u[k] = v[k] /\ (k # 0 => k - 1 \in 0..m)
  OBVIOUS
<1>6. u = [n \in 0..m |-> u[n]]
  OBVIOUS
<1> HIDE DEF u
<1>7. \A k \in 0..m : u[k] = TurnOf(data, show, u, k)
  <2> TAKE k \in 0..m
  <2>1. TurnOf(data, show, u, k) = TurnOf(data, show, v, k)
    BY <1>5 DEF TurnOf
  <2> QED BY <1>4, <1>5, <2>1
<1>8. u = [n \in 0..m |-> TurnOf(data, show, u, n)]
  <2> DEFINE w == [n \in 0..m |-> TurnOf(data, show, u, n)]
  <2>1. \A k \in 0..m : u[k] = w[k]
    BY <1>7
  <2>2. w = [n \in 0..m |-> w[n]]
    OBVIOUS
  <2> HIDE DEF w
  <2>3. u = w
    BY <1>6, <2>1, <2>2
  <2> QED BY <2>3 DEF w
<1> QED BY <1>8

LEMMA PlacedSettles ==
    ASSUME NEW data \in Seq(Items), NEW show
    PROVE  Settled(data, show, Len(data), Filing!Placed(data, show))
<1>1. Len(data) \in Nat
  BY ListIs
<1>2. \E u : u = [n \in 0..Len(data) |-> TurnOf(data, show, u, n)]
  BY <1>1, TurnsAre
<1>3. PICK u : /\ u = [n \in 0..Len(data) |-> TurnOf(data, show, u, n)]
               /\ Filing!Placed(data, show) = u[Len(data)]
  BY <1>2, Zenon DEF Filing!Placed, TurnOf, NoSlots
<1>4. \A n \in 0..Len(data) : u[n] = TurnOf(data, show, u, n)
  BY <1>3, Zenon
<1> DEFINE bad == {n \in 0..Len(data) : ~Settled(data, show, n, u[n])}
<1>5. bad = {}
  <2>1. SUFFICES ASSUME bad # {} PROVE FALSE
    OBVIOUS
  <2>2. bad \in SUBSET Nat
    OBVIOUS
  <2>3. PICK n \in bad : \A k \in bad : n <= k
    <3> HIDE DEF bad
    <3> QED BY <2>1, <2>2, Least
  <2>4. n \in Nat /\ n \in 0..Len(data) /\ ~Settled(data, show, n, u[n])
    OBVIOUS
  <2>5. u[n] = TurnOf(data, show, u, n)
    BY <1>4, <2>4
  <2>6. CASE n = 0
    <3>1. u[0] = NoSlots
      BY <2>5, <2>6 DEF TurnOf
    <3>2. Until(data, show, 0) = {}
      BY ListIs DEF Until, Filing!Group
    <3> HIDE DEF bad
    <3>3. Settled(data, show, 0, NoSlots)
      BY <3>2 DEF Settled, NoSlots
    <3> QED BY <2>4, <2>6, <3>1, <3>3
  <2>7. CASE n # 0
    <3>1. n - 1 \in 0..Len(data) /\ ~(n <= n - 1)
      BY <1>1, <2>4, <2>7
    <3>2. Settled(data, show, n - 1, u[n - 1])
      BY <2>3, <3>1
    <3> HIDE DEF bad
    <3>3. CASE n \in Filing!Group(data, show)
      <4>1. u[n] = Filing!Place(data, u[n - 1], n)
        BY <2>5, <2>7, <3>3 DEF TurnOf
      <4> QED BY <2>4, <3>2, <3>3, <4>1, PlaceSettles
    <3>4. CASE n \notin Filing!Group(data, show)
      <4>1. u[n] = u[n - 1]
        BY <2>5, <2>7, <3>4 DEF TurnOf
      <4>2. Until(data, show, n) = Until(data, show, n - 1)
        BY <2>4, <3>4, ListIs DEF Until, Filing!Group
      <4> QED BY <2>4, <3>2, <4>1, <4>2 DEF Settled
    <3> QED BY <3>3, <3>4
  <2> QED BY <2>6, <2>7
<1>6. Settled(data, show, Len(data), u[Len(data)])
  <2>1. Len(data) \in 0..Len(data)
    BY <1>1
  <2> QED BY <1>5, <2>1
<1> QED BY <1>3, <1>6

\* The entries that a slot goes to the best of.
Picks(data, show, s) ==
    IF \E i \in Filing!Group(data, show) : Filing!SeasonOf(data[i]) # 0
    THEN {i \in Filing!Group(data, show) : s # 0 /\ Filing!SeasonOf(data[i]) = s}
    ELSE {i \in Filing!Group(data, show) : s = 1 /\ data[i].type = "TV"}

Filed(data, show, a) ==
    /\ \A s : s \in DOMAIN a.chosen <=> Picks(data, show, s) # {}
    /\ \A s \in DOMAIN a.chosen :
           /\ a.chosen[s] \in Picks(data, show, s)
           /\ \A j \in Picks(data, show, s) : ~Filing!Wins(data[j], data[a.chosen[s]])
    /\ a.left = Filing!Group(data, show) \ {a.chosen[s] : s \in DOMAIN a.chosen}

LEMMA LowestIs ==
    ASSUME NEW data \in Seq(Items), NEW T, T \subseteq DOMAIN data, T # {}
    PROVE  \E i \in T : \A j \in T : data[i].anilist <= data[j].anilist
<1> DEFINE ids == {data[i].anilist : i \in T}
<1>1. ids \in SUBSET Nat
  <2>1. \A i \in T : data[i].anilist \in Nat
    BY ListIs
  <2> QED BY <2>1
<1>2. ids # {} /\ \A x \in ids : \E i \in T : x = data[i].anilist
  OBVIOUS
<1>3. \A i \in T : data[i].anilist \in ids
  OBVIOUS
<1> HIDE DEF ids
<1>4. PICK x \in ids : \A y \in ids : x <= y
  BY <1>1, <1>2, Least
<1> QED BY <1>2, <1>3, <1>4

LEMMA AssignedFiles ==
    ASSUME NEW data \in Seq(Items), NEW show
    PROVE  Filed(data, show, Filing!Assigned(data, show))
<1> DEFINE G == Filing!Group(data, show)
           a == Filing!Placed(data, show)
           b == Filing!Assigned(data, show)
           tv == {i \in a.left : data[i].type = "TV"}
           lowest == CHOOSE i \in tv : \A j \in tv : data[i].anilist <= data[j].anilist
<1>1. /\ \A i \in G : Filing!SeasonOf(data[i]) \in Nat /\ i \in DOMAIN data
      /\ Until(data, show, Len(data)) = G
  BY ListIs DEF Filing!Group, Until
<1>2. /\ \A s : s \in DOMAIN a.chosen <=> s # 0 /\ \E i \in G : Filing!SeasonOf(data[i]) = s
      /\ \A s \in DOMAIN a.chosen :
             /\ a.chosen[s] \in G /\ Filing!SeasonOf(data[a.chosen[s]]) = s
             /\ \A j \in G : Filing!SeasonOf(data[j]) = s => ~Filing!Wins(data[j], data[a.chosen[s]])
      /\ a.left = G \ {a.chosen[s] : s \in DOMAIN a.chosen}
  BY <1>1, PlacedSettles DEF Settled
<1>3. b = IF DOMAIN a.chosen # {} \/ tv = {} THEN a
          ELSE [chosen |-> [s \in {1} |-> lowest], left |-> a.left \ {lowest}]
  BY DEF Filing!Assigned, Filing!FirstSeason
<1> HIDE DEF G, a, b
<1>4. CASE DOMAIN a.chosen # {}
  <2>1. b = a
    BY <1>3, <1>4
  <2>2. \E i \in G : Filing!SeasonOf(data[i]) # 0
    BY <1>2, <1>4
  <2>3. \A s : Picks(data, show, s) = {i \in G : s # 0 /\ Filing!SeasonOf(data[i]) = s}
    BY <2>2 DEF Picks, G
  <2>4. 0 \notin DOMAIN a.chosen
    BY <1>2
  <2>5. \A s : s \in DOMAIN b.chosen <=> Picks(data, show, s) # {}
    BY <1>2, <2>1, <2>3
  <2>6. \A s \in DOMAIN b.chosen :
            /\ b.chosen[s] \in Picks(data, show, s)
            /\ \A j \in Picks(data, show, s) : ~Filing!Wins(data[j], data[b.chosen[s]])
    BY <1>2, <2>1, <2>3, <2>4
  <2> QED BY <1>2, <2>1, <2>5, <2>6 DEF Filed, G, b
<1>5. CASE DOMAIN a.chosen = {}
  <2>1. \A i \in G : Filing!SeasonOf(data[i]) = 0
    BY <1>2, <1>5
  <2>2. a.left = G /\ tv = {i \in G : data[i].type = "TV"}
    BY <1>2, <1>5
  <2>3. \A s : Picks(data, show, s) = IF s = 1 THEN tv ELSE {}
    BY <2>1, <2>2 DEF Picks, G
  <2>4. CASE tv = {}
    <3>1. b = a
      BY <1>3, <1>5, <2>4
    <3>2. \A s : Picks(data, show, s) = {}
      BY <2>3, <2>4
    <3> HIDE DEF tv
    <3> QED BY <1>5, <2>2, <3>1, <3>2 DEF Filed, G, b
  <2>5. CASE tv # {}
    <3>1. tv \subseteq DOMAIN data /\ \A i \in tv : data[i].type = "TV" /\ data[i].anilist \in Nat
      BY <1>1, <2>2, ListIs
    <3> HIDE DEF tv
    <3>2. lowest \in tv /\ \A j \in tv : data[lowest].anilist <= data[j].anilist
      BY <2>5, <3>1, LowestIs
    <3>3. b = [chosen |-> [s \in {1} |-> lowest], left |-> G \ {lowest}]
      BY <1>3, <1>5, <2>2, <2>5
    <3> HIDE DEF lowest
    <3>4. DOMAIN b.chosen = {1} /\ b.chosen[1] = lowest /\ b.left = G \ {lowest}
      BY <3>3
    <3>5. \A j \in tv : ~Filing!Wins(data[j], data[lowest])
      BY <3>1, <3>2 DEF Filing!Wins
    <3>6. b.left = G \ {b.chosen[s] : s \in DOMAIN b.chosen}
      BY <3>4
    <3>7. \A s : s \in DOMAIN b.chosen <=> Picks(data, show, s) # {}
      BY <2>3, <2>5, <3>4
    <3>8. \A s \in DOMAIN b.chosen :
            /\ b.chosen[s] \in Picks(data, show, s)
            /\ \A j \in Picks(data, show, s) : ~Filing!Wins(data[j], data[b.chosen[s]])
      BY <2>3, <3>2, <3>4, <3>5
    <3> QED BY <3>6, <3>7, <3>8 DEF Filed, G, b
  <2> QED BY <2>4, <2>5
<1> QED BY <1>4, <1>5

\* The best of some entries is one that none of them wins over.
LEMMA BestIs ==
    ASSUME dataset \in Seq(Items), NEW S, S \subseteq DOMAIN dataset, NEW c \in S,
           \A j \in S : ~Filing!Wins(dataset[j], dataset[c])
    PROVE  Filing!Best(S) = dataset[c].anilist
<1> DEFINE tv == {i \in S : dataset[i].type = "TV"}
           T == IF tv = {} THEN S ELSE tv
           ids == {dataset[i].anilist : i \in T}
<1>1. \A i \in S : dataset[i].anilist \in Nat
  BY ListIs
<1>2. c \in T /\ T \subseteq S
  <2>1. CASE dataset[c].type = "TV"
    BY <2>1
  <2>2. CASE dataset[c].type # "TV"
    <3>1. \A j \in S : dataset[j].type # "TV"
      BY <2>2 DEF Filing!Wins
    <3> QED BY <3>1
  <2> QED BY <2>1, <2>2
<1>3. ASSUME NEW j \in T PROVE dataset[c].anilist <= dataset[j].anilist
  <2>1. j \in S /\ (dataset[j].type = "TV" <=> dataset[c].type = "TV")
    BY <1>2
  <2>2. ~(dataset[j].anilist < dataset[c].anilist)
    BY <2>1 DEF Filing!Wins
  <2> QED BY <1>1, <2>1, <2>2
<1>4. Filing!Best(S) = Filing!Min(ids)
  BY DEF Filing!Best
<1>5. dataset[c].anilist \in ids /\ \A x \in ids : x \in Nat /\ dataset[c].anilist <= x
  BY <1>1, <1>2, <1>3
<1> HIDE DEF ids
<1>6. Filing!Min(ids) \in ids /\ \A x \in ids : Filing!Min(ids) <= x
  BY <1>5 DEF Filing!Min
<1> QED BY <1>4, <1>5, <1>6

\* The rows of a show.
LEMMA ShowRows ==
    ASSUME NEW data, NEW t \in Filing!Shows(data)
    PROVE  {<<r.season, r.anilist>> : r \in {q \in Filing!SeasonRows(data) : q.show = t}} =
           {<<s, data[Filing!Assigned(data, t).chosen[s]].anilist>> :
                s \in DOMAIN Filing!Assigned(data, t).chosen}
<1> DEFINE slots(u)  == DOMAIN Filing!Assigned(data, u).chosen
           id(u, s)  == data[Filing!Assigned(data, u).chosen[s]].anilist
           Row(u, s) == [show |-> u, season |-> s, anilist |-> id(u, s)]
           all       == Filing!SeasonRows(data)
<1>1. all = UNION {{Row(u, s) : s \in slots(u)} : u \in Filing!Shows(data)}
  BY DEF Filing!SeasonRows
<1>2. \A u, s : /\ Row(u, s).show = u /\ Row(u, s).season = s
               /\ Row(u, s).anilist = id(u, s)
  OBVIOUS
<1> HIDE DEF all, slots, id, Row
<1>3. ASSUME NEW q \in all, q.show = t
      PROVE  <<q.season, q.anilist>> \in {<<s, id(t, s)>> : s \in slots(t)}
  <2>1. PICK u \in Filing!Shows(data) : q \in {Row(u, s) : s \in slots(u)}
    BY <1>1
  <2>2. PICK s \in slots(u) : q = Row(u, s)
    BY <2>1
  <2>3. u = t /\ q.season = s /\ q.anilist = id(u, s)
    BY <1>2, <1>3, <2>2
  <2> QED BY <2>2, <2>3
<1>4. ASSUME NEW s \in slots(t)
      PROVE  <<s, id(t, s)>> \in {<<r.season, r.anilist>> : r \in {q \in all : q.show = t}}
  <2>1. Row(t, s) \in all
    BY <1>1
  <2> QED BY <1>2, <2>1
<1>5. {<<r.season, r.anilist>> : r \in {q \in all : q.show = t}} =
      {<<s, id(t, s)>> : s \in slots(t)}
  BY <1>3, <1>4
<1> QED BY <1>5 DEF all, id, slots

LEMMA BestTakes == ASSUME dataset \in Seq(Items) PROVE Filing!BestTakesSlot
<1> SUFFICES
      ASSUME NEW t \in Filing!Shows(dataset)
      PROVE  LET group   == Filing!Group(dataset, t)
                 claimed == {Filing!SeasonOf(dataset[i]) : i \in group} \ {0}
                 tv      == {i \in group : dataset[i].type = "TV"}
                 filed    == {<<r.season, r.anilist>> :
                                r \in {q \in Filing!SeasonRows(dataset) : q.show = t}}
             IN  /\ claimed # {} => filed = {<<s, Filing!Best(Filing!Claims(t, s))>> : s \in claimed}
                 /\ claimed = {} => filed = IF tv = {} THEN {} ELSE {<<1, Filing!Best(tv)>>}
  BY DEF Filing!BestTakesSlot
<1> DEFINE group   == Filing!Group(dataset, t)
           claimed == {Filing!SeasonOf(dataset[i]) : i \in group} \ {0}
           tv      == {i \in group : dataset[i].type = "TV"}
           a       == Filing!Assigned(dataset, t)
           filed    == {<<r.season, r.anilist>> :
                          r \in {q \in Filing!SeasonRows(dataset) : q.show = t}}
<1>1. filed = {<<s, dataset[a.chosen[s]].anilist>> : s \in DOMAIN a.chosen}
  BY ShowRows
<1>2. Filed(dataset, t, a)
  BY AssignedFiles
<1>3. group \subseteq DOMAIN dataset
  BY DEF Filing!Group
<1> HIDE DEF a, filed
<1>4. \A s \in DOMAIN a.chosen : Filing!Best(Picks(dataset, t, s)) = dataset[a.chosen[s]].anilist
  <2> TAKE s \in DOMAIN a.chosen
  <2>1. Picks(dataset, t, s) \subseteq DOMAIN dataset
    BY <1>3 DEF Picks
  <2> QED BY <1>2, <2>1, BestIs DEF Filed
<1>5. filed = {<<s, Filing!Best(Picks(dataset, t, s))>> : s \in DOMAIN a.chosen}
  BY <1>1, <1>4
<1>6. CASE claimed # {}
  <2>1. \A s : Picks(dataset, t, s) = IF s = 0 THEN {} ELSE Filing!Claims(t, s)
    BY <1>6 DEF Picks, Filing!Claims
  <2>2. DOMAIN a.chosen = claimed
    <3>1. \A s : s \in claimed <=> s # 0 /\ Filing!Claims(t, s) # {}
      BY DEF Filing!Claims
    <3> QED BY <1>2, <2>1, <3>1 DEF Filed
  <2>3. \A s \in claimed : Picks(dataset, t, s) = Filing!Claims(t, s)
    BY <2>1
  <2>4. filed = {<<s, Filing!Best(Filing!Claims(t, s))>> : s \in claimed}
    <3> HIDE DEF claimed
    <3> QED BY <1>5, <2>2, <2>3
  <2> QED BY <1>6, <2>4 DEF filed
<1>7. CASE claimed = {}
  <2>1. \A s : Picks(dataset, t, s) = IF s = 1 THEN tv ELSE {}
    BY <1>7 DEF Picks
  <2>2. DOMAIN a.chosen = IF tv = {} THEN {} ELSE {1}
    BY <1>2, <2>1 DEF Filed
  <2>3. filed = IF tv = {} THEN {} ELSE {<<1, Filing!Best(tv)>>}
    <3> HIDE DEF tv
    <3> QED BY <1>5, <2>1, <2>2
  <2> QED BY <1>7, <2>3 DEF filed
<1> QED BY <1>6, <1>7 DEF filed

\* Different slots have different entries, so that a show has as many filed as entries.
LEMMA AsManyRows ==
    ASSUME NEW data \in Seq(Items), NEW t, NEW a, Filed(data, t, a)
    PROVE  Cardinality(Filing!Group(data, t)) = Cardinality(DOMAIN a.chosen) + Cardinality(a.left)
<1> DEFINE G == Filing!Group(data, t)
           D == DOMAIN a.chosen
           R == {a.chosen[s] : s \in D}
<1>1. IsFiniteSet(G)
  <2>1. G \subseteq 1..Len(data) /\ Len(data) \in Nat
    BY ListIs DEF Filing!Group
  <2>2. IsFiniteSet(1..Len(data))
    BY <2>1, FS_Interval
  <2> HIDE DEF G
  <2> QED BY <2>1, <2>2, FS_Subset
<1>2. /\ \A s \in D : a.chosen[s] \in G
      /\ \A s, z \in D : s # z => a.chosen[s] # a.chosen[z]
  BY DEF Filed, Picks
<1>3. a.left = G \ R
  BY DEF Filed
<1> HIDE DEF G, D
<1>4. R \subseteq G
  BY <1>2
<1>5. ExistsBijection(R, D)
  <2> DEFINE slot == [i \in R |-> CHOOSE s \in D : a.chosen[s] = i]
  <2>1. \A i \in R : slot[i] \in D /\ a.chosen[slot[i]] = i
    OBVIOUS
  <2>2. \A s \in D : a.chosen[s] \in R /\ slot[a.chosen[s]] = s
    BY <1>2, <2>1
  <2>3. slot \in [R -> D]
    BY <2>1
  <2> HIDE DEF slot, R
  <2>4. slot \in Injection(R, D)
    BY <2>1, <2>3 DEF Injection, IsInjective
  <2>5. slot \in Surjection(R, D)
    BY <2>2, <2>3 DEF Surjection
  <2> QED BY <2>4, <2>5 DEF ExistsBijection, Bijection
<1> HIDE DEF R
<1>6. IsFiniteSet(R) /\ IsFiniteSet(D) /\ Cardinality(D) = Cardinality(R)
  BY <1>1, <1>4, <1>5, FS_Subset, FS_Bijection
<1>7. Cardinality(G \ R) = Cardinality(G) - Cardinality(G \cap R)
  BY <1>1, FS_Difference
<1>8. G \cap R = R
  BY <1>4
<1>9. Cardinality(G) \in Nat /\ Cardinality(R) \in Nat
  BY <1>1, <1>6, FS_CardinalityType
<1>10. Cardinality(a.left) = Cardinality(G) - Cardinality(R)
  BY <1>3, <1>7, <1>8
<1>11. Cardinality(G) = Cardinality(D) + Cardinality(a.left)
  <2>1. PICK g, r \in Nat : g = Cardinality(G) /\ r = Cardinality(R)
    BY <1>9
  <2>2. Cardinality(D) = r /\ Cardinality(a.left) = g - r
    BY <1>6, <1>10, <2>1
  <2>3. g = r + (g - r)
    BY <2>1
  <2> QED BY <2>1, <2>2, <2>3
<1> QED BY <1>11 DEF G, D

\* An entry of a show has a row, and only an entry of a show has one.
LEMMA RowsOfGroup ==
    ASSUME NEW data \in Seq(Items), NEW t \in Filing!Shows(data)
    PROVE  LET a == Filing!Assigned(data, t)
           IN  Filing!Group(data, t) = {a.chosen[s] : s \in DOMAIN a.chosen} \cup a.left
<1>1. Filed(data, t, Filing!Assigned(data, t))
  BY AssignedFiles
<1> QED BY <1>1 DEF Filed, Picks

LEMMA EntriesAreFiled == ASSUME dataset \in Seq(Items) PROVE Filing!EveryEntryIsFiled
<1>1. ASSUME NEW t \in Filing!Shows(dataset)
      PROVE  LET assigned == Filing!Assigned(dataset, t)
             IN  Filing!Cardinality(Filing!Group(dataset, t)) =
                 Filing!Cardinality(DOMAIN assigned.chosen) + Filing!Cardinality(assigned.left)
  <2>1. Filed(dataset, t, Filing!Assigned(dataset, t))
    BY AssignedFiles
  <2>2. \A S : Filing!Cardinality(S) = Cardinality(S)
    BY DEF Cardinality, Filing!Cardinality
  <2> QED BY <2>1, <2>2, AsManyRows
<1>2. ASSUME NEW i \in DOMAIN dataset, dataset[i].anilist # 0
      PROVE  /\ Filing!ShowOf(dataset, dataset[i]) # 0 =>
                    dataset[i].anilist \in
                        Filing!Ids(Filing!SeasonRows(dataset) \cup Filing!LeftOver(dataset))
             /\ dataset[i].movie # 0 => dataset[i].anilist \in Filing!Entries(dataset)
  <2> DEFINE t == Filing!ShowOf(dataset, dataset[i])
             a == Filing!Assigned(dataset, t)
  <2>1. i \in Filing!Group(dataset, t) /\ (t # 0 => t \in Filing!Shows(dataset))
    BY <1>2 DEF Filing!Group, Filing!Shows
  <2>2. t # 0 => dataset[i].anilist \in
                     Filing!Ids(Filing!SeasonRows(dataset) \cup Filing!LeftOver(dataset))
    <3> SUFFICES ASSUME t # 0 PROVE dataset[i].anilist \in
                     Filing!Ids(Filing!SeasonRows(dataset) \cup Filing!LeftOver(dataset))
      OBVIOUS
    <3> HIDE DEF t
    <3>1. i \in {a.chosen[s] : s \in DOMAIN a.chosen} \cup a.left
      BY <2>1, RowsOfGroup
    <3>2. CASE i \in a.left
      <4>1. [show |-> t, anilist |-> dataset[i].anilist] \in Filing!LeftOver(dataset)
        BY <2>1, <3>2 DEF Filing!LeftOver
      <4> QED BY <4>1 DEF Filing!Ids
    <3>3. CASE \E s \in DOMAIN a.chosen : i = a.chosen[s]
      <4>1. PICK s \in DOMAIN a.chosen : i = a.chosen[s]
        BY <3>3
      <4>2. [show |-> t, season |-> s, anilist |-> dataset[i].anilist] \in Filing!SeasonRows(dataset)
        BY <2>1, <4>1 DEF Filing!SeasonRows
      <4> QED BY <4>2 DEF Filing!Ids
    <3> QED BY <3>1, <3>2, <3>3
  <2>3. dataset[i].movie # 0 => dataset[i].anilist \in Filing!Entries(dataset)
    <3> HIDE DEF t
    <3>1. CASE t = 0
      BY <2>1, <3>1 DEF Filing!Entries, Filing!OrphanMovies
    <3>2. CASE t # 0
      BY <2>1, <3>2 DEF Filing!Entries
    <3> QED BY <3>1, <3>2
  <2> QED BY <2>2, <2>3
<1> QED BY <1>1, <1>2 DEF Filing!EveryEntryIsFiled

LEMMA KeysFit ==
    ASSUME dataset \in Seq(Items), overrides \in OverrideSets
    PROVE  Filing!KeysHold
<1> DEFINE Rows == Filing!SeasonRows(dataset)
           stated == {o \in overrides : o.anilist \in Filing!Entries(dataset)}
<1>1. \A r, q \in Rows : r.show = q.show /\ r.season = q.season => r = q
  BY DEF Filing!SeasonRows
<1>2. \A o, p \in stated : o.show = p.show /\ o.season = p.season => o = p
  BY FilingAssumption
<1>3. Filing!Seasons(dataset) =
          {r \in Rows : \A o \in stated : <<o.show, o.season>> # <<r.show, r.season>>} \cup stated
  BY DEF Filing!Seasons
<1>4. ASSUME NEW t \in Filing!Shows(dataset), NEW i \in Filing!Group(dataset, t)
      PROVE  dataset[i].anilist \in Filing!Entries(dataset)
  BY DEF Filing!Entries
<1>5. Filing!Ids(Rows) \subseteq Filing!Entries(dataset)
  <2> SUFFICES ASSUME NEW r \in Rows PROVE r.anilist \in Filing!Entries(dataset)
    BY DEF Filing!Ids
  <2>1. PICK t \in Filing!Shows(dataset) : \E s \in DOMAIN Filing!Assigned(dataset, t).chosen :
            r.anilist = dataset[Filing!Assigned(dataset, t).chosen[s]].anilist
    BY DEF Filing!SeasonRows
  <2> QED BY <1>4, <2>1, RowsOfGroup
<1>6. Filing!Ids(Filing!LeftOver(dataset)) \subseteq Filing!Entries(dataset)
  <2> SUFFICES ASSUME NEW r \in Filing!LeftOver(dataset) PROVE r.anilist \in Filing!Entries(dataset)
    BY DEF Filing!Ids
  <2>1. PICK t \in Filing!Shows(dataset) : \E i \in Filing!Assigned(dataset, t).left :
            r.anilist = dataset[i].anilist
    BY DEF Filing!LeftOver
  <2> QED BY <1>4, <2>1, RowsOfGroup
<1>7. Filing!Ids(Filing!Related(dataset)) \subseteq Filing!Entries(dataset)
  BY DEF Filing!Entries
<1> HIDE DEF Rows, stated
<1>8. \A r, q \in Filing!Seasons(dataset) : r.show = q.show /\ r.season = q.season => r = q
  BY <1>1, <1>2, <1>3
<1>9. Filing!Ids(Filing!Seasons(dataset)) \subseteq Filing!Entries(dataset)
  <2>1. \A r \in Rows : r.anilist \in Filing!Entries(dataset)
    BY <1>5 DEF Filing!Ids
  <2>2. \A r \in stated : r.anilist \in Filing!Entries(dataset)
    BY DEF stated
  <2> QED BY <1>3, <2>1, <2>2 DEF Filing!Ids
<1>10. Filing!Ids(Filing!Extras(dataset)) \subseteq Filing!Entries(dataset)
  BY <1>6, <1>7 DEF Filing!Extras, Filing!Ids
<1> QED BY <1>8, <1>9, <1>10 DEF Filing!KeysHold

\* The show of a series, where some entry names both.
LEMMA SeriesIs ==
    ASSUME NEW data \in Seq(Items), NEW v
    PROVE  LET naming == {i \in DOMAIN data : data[i].tvdb = v /\ data[i].tv # 0}
           IN  IF v = 0 \/ naming = {} THEN Filing!ShowOfTvdb(data, v) = 0
               ELSE \E i \in naming : Filing!ShowOfTvdb(data, v) = data[i].tv
<1> DEFINE naming == {i \in DOMAIN data : data[i].tvdb = v /\ data[i].tv # 0}
           earliest == CHOOSE i \in naming : \A j \in naming : i <= j
<1>1. Filing!ShowOfTvdb(data, v) = IF v = 0 \/ naming = {} THEN 0 ELSE data[earliest].tv
  BY DEF Filing!ShowOfTvdb
<1>2. CASE naming # {}
  <2>1. naming \in SUBSET Nat
    BY ListIs
  <2> HIDE DEF naming
  <2>2. \E i \in naming : \A j \in naming : i <= j
    BY <1>2, <2>1, Least
  <2>3. earliest \in naming
    BY <2>2
  <2> HIDE DEF earliest
  <2> QED BY <1>1, <1>2, <2>3 DEF naming
<1> QED BY <1>1, <1>2

\* Two lists with the same entries, where p has the place of each in the other, and where every
\* entry belongs to the same show.
Shuffled(data, other, p) ==
    /\ data \in Seq(Items) /\ other \in Seq(Items) /\ DOMAIN other = DOMAIN data
    /\ p \in [DOMAIN data -> DOMAIN data]
    /\ \A i \in DOMAIN data : /\ p[p[i]] = i /\ other[i] = data[p[i]]
                              /\ Filing!ShowOf(other, data[i]) = Filing!ShowOf(data, data[i])

LEMMA ShuffledBack ==
    ASSUME NEW data, NEW other, NEW p, Shuffled(data, other, p)
    PROVE  Shuffled(other, data, p)
  BY DEF Shuffled

LEMMA GroupsAgree ==
    ASSUME NEW data, NEW other, NEW p, Shuffled(data, other, p), NEW t
    PROVE  /\ \A i \in Filing!Group(data, t) : p[i] \in Filing!Group(other, t)
           /\ \A s : \A i \in Picks(data, t, s) : p[i] \in Picks(other, t, s)
<1>1. \A i \in DOMAIN data : p[i] \in DOMAIN other /\ other[p[i]] = data[i] /\ p[p[i]] = i
  BY DEF Shuffled
<1>2. ASSUME NEW i \in Filing!Group(data, t) PROVE p[i] \in Filing!Group(other, t)
  BY <1>1 DEF Filing!Group, Shuffled
<1>3. Shuffled(other, data, p)
  BY ShuffledBack
<1>4. ASSUME NEW i \in Filing!Group(other, t) PROVE p[i] \in Filing!Group(data, t)
  BY <1>1, <1>3 DEF Filing!Group, Shuffled
<1>5. \A i \in Filing!Group(data, t) : i \in DOMAIN data
  BY DEF Filing!Group
<1>6. \A i \in Filing!Group(other, t) : i \in DOMAIN data /\ other[i] = data[p[i]]
  BY DEF Filing!Group, Shuffled
<1>7. (\E i \in Filing!Group(data, t) : Filing!SeasonOf(data[i]) # 0)
      <=> \E i \in Filing!Group(other, t) : Filing!SeasonOf(other[i]) # 0
  BY <1>1, <1>2, <1>4, <1>5, <1>6
<1>8. ASSUME NEW s, NEW i \in Picks(data, t, s) PROVE p[i] \in Picks(other, t, s)
  BY <1>1, <1>2, <1>5, <1>7 DEF Picks
<1> QED BY <1>2, <1>8

\* The same slots, with the same ids.
LEMMA SlotsAgree ==
    ASSUME NEW data, NEW other, NEW p, Shuffled(data, other, p), NEW t, NEW a, NEW b,
           Filed(data, t, a), Filed(other, t, b)
    PROVE  /\ DOMAIN a.chosen = DOMAIN b.chosen
           /\ \A s \in DOMAIN a.chosen : other[b.chosen[s]].anilist = data[a.chosen[s]].anilist
<1>1. Shuffled(other, data, p)
  BY ShuffledBack
<1>2. \A s : s \in DOMAIN a.chosen <=> s \in DOMAIN b.chosen
  BY <1>1, GroupsAgree DEF Filed
<1>3. ASSUME NEW s \in DOMAIN a.chosen
      PROVE  other[b.chosen[s]].anilist = data[a.chosen[s]].anilist
  <2> DEFINE i == a.chosen[s]
             k == b.chosen[s]
  <2>1. i \in Picks(data, t, s) /\ k \in Picks(other, t, s)
    BY <1>2 DEF Filed
  <2>2. i \in DOMAIN data /\ k \in DOMAIN data
    BY <2>1 DEF Picks, Filing!Group, Shuffled
  <2>3. /\ p[i] \in Picks(other, t, s) /\ p[k] \in Picks(data, t, s)
        /\ other[p[i]] = data[i] /\ data[p[k]] = other[k]
    BY <1>1, <2>1, <2>2, GroupsAgree DEF Shuffled
  <2>4. ~Filing!Wins(other[p[i]], other[k]) /\ ~Filing!Wins(data[p[k]], data[i])
    BY <1>2, <2>3 DEF Filed
  <2>5. data[i].anilist \in Nat /\ other[k].anilist \in Nat
    BY <2>2, ListIs DEF Shuffled
  <2> HIDE DEF i, k
  <2>6. ~Filing!Wins(data[i], other[k]) /\ ~Filing!Wins(other[k], data[i])
    BY <2>3, <2>4
  <2>7. other[k].anilist = data[i].anilist
    BY <2>5, <2>6 DEF Filing!Wins
  <2> QED BY <2>7 DEF i, k
<1>4. DOMAIN a.chosen = DOMAIN b.chosen
  BY <1>2
<1> QED BY <1>3, <1>4

\* What is left over has the same ids.
LEMMA LeftAgree ==
    ASSUME NEW data, NEW other, NEW p, Shuffled(data, other, p), NEW t, NEW a, NEW b,
           Filed(data, t, a), Filed(other, t, b), NEW i \in a.left
    PROVE  \E k \in b.left : other[k].anilist = data[i].anilist
<1> DEFINE G == Filing!Group(data, t)
           H == Filing!Group(other, t)
<1>1. /\ G \subseteq DOMAIN data /\ H \subseteq DOMAIN data /\ i \in G
      /\ \A x \in G : p[x] \in H /\ p[p[x]] = x /\ other[p[x]] = data[x]
      /\ \A x \in H : p[x] \in G /\ p[p[x]] = x /\ data[p[x]] = other[x]
  BY ShuffledBack, GroupsAgree DEF Shuffled, Filed, Filing!Group
<1>2. /\ a.left = G \ {a.chosen[s] : s \in DOMAIN a.chosen}
      /\ b.left = H \ {b.chosen[s] : s \in DOMAIN b.chosen}
      /\ \A s \in DOMAIN a.chosen : a.chosen[s] \in G
  BY DEF Filed, Picks
<1>3. CASE p[i] \in b.left
  BY <1>1, <1>3
<1>4. CASE p[i] \notin b.left
  <2>1. PICK s \in DOMAIN b.chosen : p[i] = b.chosen[s]
    BY <1>1, <1>2, <1>4
  <2> DEFINE j == a.chosen[s]
  <2>2. s \in DOMAIN a.chosen /\ other[b.chosen[s]].anilist = data[j].anilist
    BY <2>1, SlotsAgree
  <2>3. j \in G /\ j # i /\ p[j] \in H
    BY <1>1, <1>2, <2>2
  <2>4. p[j] \in Picks(other, t, s)
    BY <2>2, GroupsAgree DEF Filed
  <2>5. ASSUME NEW z \in DOMAIN b.chosen, p[j] = b.chosen[z] PROVE FALSE
    <3>1. p[j] \in Picks(other, t, z)
      BY <2>5 DEF Filed
    <3>2. z = s
      BY <2>4, <3>1 DEF Picks
    <3>3. p[j] = p[i]
      BY <2>1, <2>5, <3>2
    <3> QED BY <1>1, <2>3, <3>3
  <2>6. p[j] \in b.left
    BY <1>2, <2>3, <2>5
  <2>7. other[p[j]].anilist = data[i].anilist
    BY <1>1, <2>1, <2>2, <2>3
  <2> QED BY <2>6, <2>7
<1> QED BY <1>3, <1>4

\* A list's rows are those of any order of it, as far as one inclusion goes.
LEMMA RowsAgree ==
    ASSUME NEW data, NEW other, NEW p, Shuffled(data, other, p)
    PROVE  /\ Filing!Shows(data) \subseteq Filing!Shows(other)
           /\ Filing!OrphanMovies(data) \subseteq Filing!OrphanMovies(other)
           /\ Filing!SeasonRows(data) \subseteq Filing!SeasonRows(other)
           /\ Filing!LeftOver(data) \subseteq Filing!LeftOver(other)
<1>1. \A i \in DOMAIN data : p[i] \in DOMAIN other /\ other[p[i]] = data[i]
  BY DEF Shuffled
<1>2. \A t : \A i \in Filing!Group(data, t) :
          i \in DOMAIN data /\ p[i] \in Filing!Group(other, t) /\ other[p[i]] = data[i]
  BY <1>1, GroupsAgree DEF Filing!Group
<1>3. Filing!Shows(data) \subseteq Filing!Shows(other)
  <2>1. \A i \in DOMAIN data : Filing!ShowOf(data, data[i]) = Filing!ShowOf(other, other[p[i]])
    BY <1>1 DEF Shuffled
  <2> QED BY <1>1, <2>1 DEF Filing!Shows
<1>4. Filing!OrphanMovies(data) \subseteq Filing!OrphanMovies(other)
  BY <1>2 DEF Filing!OrphanMovies
<1>5. ASSUME NEW t PROVE Filed(data, t, Filing!Assigned(data, t)) /\ Filed(other, t, Filing!Assigned(other, t))
  BY AssignedFiles DEF Shuffled
<1>6. ASSUME NEW r \in Filing!SeasonRows(data) PROVE r \in Filing!SeasonRows(other)
  <2>1. PICK t \in Filing!Shows(data) : \E s \in DOMAIN Filing!Assigned(data, t).chosen :
            r = [show |-> t, season |-> s,
                 anilist |-> data[Filing!Assigned(data, t).chosen[s]].anilist]
    BY DEF Filing!SeasonRows
  <2>2. PICK s \in DOMAIN Filing!Assigned(data, t).chosen :
            r = [show |-> t, season |-> s,
                 anilist |-> data[Filing!Assigned(data, t).chosen[s]].anilist]
    BY <2>1
  <2>3. /\ s \in DOMAIN Filing!Assigned(other, t).chosen
        /\ other[Filing!Assigned(other, t).chosen[s]].anilist =
           data[Filing!Assigned(data, t).chosen[s]].anilist
    BY <1>5, SlotsAgree
  <2>4. t \in Filing!Shows(other)
    BY <1>3
  <2> QED BY <2>2, <2>3, <2>4 DEF Filing!SeasonRows
<1>7. ASSUME NEW r \in Filing!LeftOver(data) PROVE r \in Filing!LeftOver(other)
  <2>1. PICK t \in Filing!Shows(data) : \E i \in Filing!Assigned(data, t).left :
            r = [show |-> t, anilist |-> data[i].anilist]
    BY DEF Filing!LeftOver
  <2>2. PICK i \in Filing!Assigned(data, t).left : r = [show |-> t, anilist |-> data[i].anilist]
    BY <2>1
  <2>3. PICK k \in Filing!Assigned(other, t).left : other[k].anilist = data[i].anilist
    BY <1>5, LeftAgree
  <2>4. t \in Filing!Shows(other)
    BY <1>3
  <2> QED BY <2>2, <2>3, <2>4 DEF Filing!LeftOver
<1> QED BY <1>3, <1>4, <1>6, <1>7

LEMMA TablesAgree ==
    ASSUME NEW data, NEW other, NEW p, Shuffled(data, other, p)
    PROVE  /\ Filing!Seasons(other) = Filing!Seasons(data)
           /\ Filing!Extras(other) = Filing!Extras(data)
           /\ Filing!Entries(other) = Filing!Entries(data)
<1>1. Shuffled(other, data, p)
  BY ShuffledBack
<1> DEFINE IdsOf(d, t) == {d[i].anilist : i \in Filing!Group(d, t)}
           Within(d, e) == /\ Filing!Shows(d) \subseteq Filing!Shows(e)
                           /\ Filing!OrphanMovies(d) \subseteq Filing!OrphanMovies(e)
                           /\ Filing!SeasonRows(d) \subseteq Filing!SeasonRows(e)
                           /\ Filing!LeftOver(d) \subseteq Filing!LeftOver(e)
<1>2. Within(data, other) /\ Within(other, data)
  <2>1. Within(data, other)
    BY RowsAgree, Zenon
  <2>2. Within(other, data)
    BY <1>1, RowsAgree, Zenon
  <2> QED BY <2>1, <2>2
<1>3. ASSUME NEW t PROVE IdsOf(other, t) = IdsOf(data, t)
  <2>1. \A i \in Filing!Group(data, t) :
            p[i] \in Filing!Group(other, t) /\ other[p[i]].anilist = data[i].anilist
    BY <1>1, GroupsAgree DEF Shuffled, Filing!Group
  <2>2. \A i \in Filing!Group(other, t) :
            p[i] \in Filing!Group(data, t) /\ data[p[i]].anilist = other[i].anilist
    BY <1>1, GroupsAgree DEF Shuffled, Filing!Group
  <2> QED BY <2>1, <2>2
<1> HIDE DEF IdsOf
<1>4. /\ Filing!Shows(other) = Filing!Shows(data)
      /\ Filing!OrphanMovies(other) = Filing!OrphanMovies(data)
      /\ Filing!SeasonRows(other) = Filing!SeasonRows(data)
      /\ Filing!LeftOver(other) = Filing!LeftOver(data)
  BY <1>2
<1>5. Filing!Related(other) = Filing!Related(data)
  BY <1>4 DEF Filing!Related
<1>6. Filing!Extras(other) = Filing!Extras(data)
  BY <1>4, <1>5 DEF Filing!Extras
<1>7. Filing!Entries(other) = Filing!Entries(data)
  <2>1. \A d : Filing!Entries(d) = (Filing!OrphanMovies(d) \cup Filing!Ids(Filing!Related(d)))
                                   \cup UNION {IdsOf(d, t) : t \in Filing!Shows(d)}
    BY DEF Filing!Entries, IdsOf
  <2>2. {IdsOf(other, t) : t \in Filing!Shows(other)} = {IdsOf(data, t) : t \in Filing!Shows(data)}
    BY <1>3, <1>4
  <2> QED BY <1>4, <1>5, <2>1, <2>2
<1>8. Filing!Seasons(other) = Filing!Seasons(data)
  BY <1>4, <1>7 DEF Filing!Seasons
<1> QED BY <1>6, <1>7, <1>8

LEMMA SameRows == ASSUME dataset \in Seq(Items) PROVE Filing!SameOnEveryRebuild
<1> SUFFICES
      ASSUME Filing!SeriesHaveOneShow, NEW i \in 1..(Len(dataset) - 1)
      PROVE  LET other == [dataset EXCEPT ![i] = dataset[i + 1], ![i + 1] = dataset[i]]
             IN  /\ Filing!Seasons(other) = Filing!Seasons(dataset)
                 /\ Filing!Extras(other) = Filing!Extras(dataset)
                 /\ Filing!Entries(other) = Filing!Entries(dataset)
  BY DEF Filing!SameOnEveryRebuild
<1> DEFINE n == Len(dataset)
           other == [dataset EXCEPT ![i] = dataset[i + 1], ![i + 1] = dataset[i]]
           p == [k \in 1..n |-> IF k = i THEN i + 1 ELSE IF k = i + 1 THEN i ELSE k]
<1>1. /\ n \in Nat /\ DOMAIN dataset = 1..n /\ dataset \in [1..n -> Items]
      /\ i \in 1..n /\ i + 1 \in 1..n /\ i # i + 1
  BY ListIs
<1>2. p \in [1..n -> 1..n] /\ p[i] = i + 1 /\ p[i + 1] = i
      /\ \A k \in 1..n : k # i /\ k # i + 1 => p[k] = k
  BY <1>1
<1>3. /\ DOMAIN other = 1..n /\ other[i] = dataset[i + 1] /\ other[i + 1] = dataset[i]
      /\ \A k \in 1..n : k # i /\ k # i + 1 => other[k] = dataset[k]
      /\ other \in [1..n -> Items]
  BY <1>1
<1> HIDE DEF other, p
<1>4. \A k \in 1..n : p[p[k]] = k /\ other[k] = dataset[p[k]] /\ other[p[k]] = dataset[k]
  BY <1>1, <1>2, <1>3
<1>5. other \in Seq(Items)
  BY <1>1, <1>3
<1>6. ASSUME NEW v PROVE Filing!ShowOfTvdb(other, v) = Filing!ShowOfTvdb(dataset, v)
  <2> DEFINE names(data) == {k \in DOMAIN data : data[k].tvdb = v /\ data[k].tv # 0}
  <2>1. names(other) # {} <=> names(dataset) # {}
    BY <1>1, <1>2, <1>3, <1>4
  <2>2. CASE v = 0 \/ names(dataset) = {}
    <3>1. names(other) = {} \/ v = 0
      BY <2>1, <2>2
    <3> QED BY <1>5, <2>2, <3>1, SeriesIs
  <2>3. CASE v # 0 /\ names(dataset) # {}
    <3>1. PICK k \in names(dataset) : Filing!ShowOfTvdb(dataset, v) = dataset[k].tv
      BY <2>3, SeriesIs
    <3>2. names(other) # {}
      BY <2>1, <2>3
    <3>3. PICK m \in names(other) : Filing!ShowOfTvdb(other, v) = other[m].tv
      BY <1>5, <2>3, <3>2, SeriesIs
    <3>4. p[m] \in 1..n /\ other[m] = dataset[p[m]]
      BY <1>2, <1>3, <1>4
    <3>5. dataset[k].tv = dataset[p[m]].tv
      BY <1>1, <2>3, <3>1, <3>3, <3>4 DEF Filing!SeriesHaveOneShow
    <3> QED BY <3>1, <3>3, <3>4, <3>5
  <2> QED BY <2>2, <2>3
<1>7. \A x : Filing!ShowOf(other, x) = Filing!ShowOf(dataset, x)
  BY <1>6 DEF Filing!ShowOf
<1>8. Shuffled(dataset, other, p)
  BY <1>1, <1>2, <1>3, <1>4, <1>5, <1>7 DEF Shuffled
<1> QED BY <1>8, TablesAgree DEF other

\* What a rebuild files of any dataset.
LEMMA FilingSafe ==
    ASSUME Filing!TypeOK
    PROVE  /\ Filing!BestTakesSlot /\ Filing!EveryEntryIsFiled
           /\ Filing!SameOnEveryRebuild /\ Filing!KeysHold
  BY BestTakes, EntriesAreFiled, SameRows, KeysFit DEF Filing!TypeOK

\* The dataset only grows.
LEMMA FilingInit == Filing!Init => Filing!TypeOK
  BY FilingAssumption DEF Filing!Init, Filing!TypeOK

LEMMA FilingTypes ==
    ASSUME Filing!TypeOK, [Filing!Next]_filingVars PROVE Filing!TypeOK'
<1>1. CASE UNCHANGED filingVars
  BY <1>1 DEF filingVars, Filing!TypeOK
<1>2. ASSUME NEW x \in Items, Filing!Publish(x) PROVE Filing!TypeOK'
  <2>1. dataset \in Seq(Items) /\ Len(dataset) < MaxItems
    BY <1>2 DEF Filing!Publish, Filing!TypeOK
  <2>2. Append(dataset, x) \in Seq(Items) /\ Len(Append(dataset, x)) = Len(dataset) + 1
    BY <2>1, AppendProperties
  <2>3. Len(dataset) + 1 <= MaxItems
    BY <2>1, LenProperties, FilingAssumption
  <2> QED BY <1>2, <2>2, <2>3 DEF Filing!Publish, Filing!TypeOK
<1> QED BY <1>1, <1>2 DEF Filing!Next

\* A backfill job is begun once, through any clicks, replicas and deaths (_claim_backfill_job), and
\* while no re-pull fails no row is older than the buckets' number of nights once a night's slice is
\* done (refresh_daily_slice), for any table that grows and is browsed meanwhile. A rebuild of any
\* dataset gives every slot to its best claim, files every entry, makes the same of another order of
\* the list, and its rows fit the tables' keys (fribb.py, _apply_overrides).
THEOREM UpkeepDone == AllSpec => []UpkeepHolds
<1>1. AllInit => UpkeepInv /\ Filing!TypeOK
  BY UpkeepInit, FilingInit DEF AllInit
<1>2. UpkeepInv /\ Filing!TypeOK
      /\ [AllNext]_<<part, vars, mappingVars, maintainVars, browseVars, bootVars,
                     supportersVars, settingsVars, filingVars>>
      => UpkeepInv' /\ Filing!TypeOK'
  BY PartsAlone, UpkeepStep, FilingTypes
<1>3. UpkeepInv /\ Filing!TypeOK => UpkeepHolds
  BY UpkeepSafe, FilingSafe DEF UpkeepHolds
<1> QED BY <1>1, <1>2, <1>3, PTL DEF AllSpec

-----------------------------------------------------------------------------
(* Replicas that start, serve and stop.                                    *)

USE BootAssumption

\* Rows of schema_migrations, and a process.
Tables == UNION {[D -> Booting!Texts] : D \in SUBSET Booting!Versions}
Process == [at : Booting!Stages, image : Images \cup {<<>>}, left : 0..Stores, already : Tables,
            added : SUBSET Booting!Versions, failed : BOOLEAN, pool : BOOLEAN,
            busy : SUBSET {"worker", "job"}]

BootTyped ==
    /\ recorded \in Tables /\ bootRan \in [Booting!Versions -> Nat]
    /\ lock \in Replicas \cup {Nobody} /\ starts \in 0..Starts
    /\ boot \in [Replicas -> Process]

\* A batch of migrations is one transaction under the lock, over rows that nobody else writes.
BatchHeld(r) ==
    /\ boot[r].at \in {"read", "apply"} => lock = r
    /\ boot[r].at = "apply" =>
          /\ boot[r].already = recorded
          /\ boot[r].added \subseteq DOMAIN boot[r].image \ DOMAIN recorded
    /\ boot[r].at # "apply" => boot[r].added = {}
    /\ boot[r].at \in {"init", "migrate", "read", "apply"} => boot[r].image \in Images
    /\ boot[r].at = "init" => boot[r].left > 0

\* What serves has its schema.
SchemaHeld(r) ==
    /\ boot[r].at \in {"init", "migrate", "read", "apply"} => ~boot[r].failed
    /\ boot[r].at \in {"admins", "workers", "up"} /\ ~boot[r].failed =>
          DOMAIN boot[r].image \subseteq DOMAIN recorded

\* What uses the pool, while it is open.
PoolHeld(r) ==
    /\ boot[r].at \notin {"down", "close"} => boot[r].pool
    /\ "worker" \in boot[r].busy => boot[r].at \in {"up", "drain"}
    /\ "job" \in boot[r].busy => boot[r].at \in {"workers", "up", "drain", "scheduler"}

\* The SQL of a version was executed as often as its row is there.
RanOnce == \A v \in Booting!Versions : bootRan[v] = IF v \in DOMAIN recorded THEN 1 ELSE 0

BootInv ==
    /\ BootTyped /\ RanOnce
    /\ \A r \in Replicas : BatchHeld(r) /\ SchemaHeld(r) /\ PoolHeld(r)

LEMMA NoRows == <<>> \in Tables /\ DOMAIN <<>> = {}
<1>1. <<>> \in [{} -> Booting!Texts]
  OBVIOUS
<1> QED BY <1>1 DEF Tables

LEMMA DownTyped == Booting!Down \in Process
  BY NoRows DEF Booting!Down, Process, Booting!Stages

LEMMA BootInit == Booting!Init => BootInv
<1> SUFFICES ASSUME Booting!Init PROVE BootInv
  OBVIOUS
<1>1. BootTyped
  BY NoRows, DownTyped DEF Booting!Init, BootTyped
<1>2. \A r \in Replicas : BatchHeld(r) /\ SchemaHeld(r) /\ PoolHeld(r)
  BY DEF Booting!Init, Booting!Down, BatchHeld, SchemaHeld, PoolHeld
<1>3. RanOnce
  BY NoRows DEF Booting!Init, RanOnce
<1> QED BY <1>1, <1>2, <1>3 DEF BootInv

\* One replica moves, and the rows stay.
LEMMA OneBoots ==
    ASSUME BootInv, NEW r \in Replicas, NEW p \in Process, boot' = [boot EXCEPT ![r] = p],
           UNCHANGED <<recorded, bootRan>>, starts' \in 0..Starts,
           lock' \in {lock, r} \/ (lock = r /\ lock' = Nobody),
           lock' = r => lock \in {r, Nobody},
           BatchHeld(r)', SchemaHeld(r)', PoolHeld(r)'
    PROVE  BootInv'
<1>1. BootTyped'
  BY DEF BootInv, BootTyped
<1>2. ASSUME NEW q \in Replicas, q # r PROVE BatchHeld(q)' /\ SchemaHeld(q)' /\ PoolHeld(q)'
  <2>1. boot'[q] = boot[q] /\ BatchHeld(q) /\ SchemaHeld(q) /\ PoolHeld(q)
    BY <1>2 DEF BootInv, BootTyped
  <2>2. lock = q => lock' = q
    BY <1>2
  <2> QED BY <2>1, <2>2 DEF BatchHeld, SchemaHeld, PoolHeld
<1>3. RanOnce'
  BY DEF BootInv, RanOnce
<1> QED BY <1>1, <1>2, <1>3 DEF BootInv

LEMMA ProcessIs ==
    ASSUME BootInv, NEW r \in Replicas
    PROVE  boot[r] \in Process /\ BatchHeld(r) /\ SchemaHeld(r) /\ PoolHeld(r) /\ BootTyped
  BY DEF BootInv, BootTyped

\* The process goes on to a stage; its work that uses the pool may change.
LEMMA Onwards ==
    ASSUME BootInv, NEW r \in Replicas, NEW stage \in Booting!Stages,
           NEW work \in SUBSET {"worker", "job"},
           boot' = [boot EXCEPT ![r] = [boot[r] EXCEPT !.at = stage, !.busy = work]],
           UNCHANGED <<recorded, bootRan, starts>>, lock' = lock,
           boot[r].at # "apply", stage \notin {"init", "read", "apply"},
           stage \in {"migrate", "admins"} => boot[r].at = stage,
           stage \in {"workers", "up"} => boot[r].at \in {"admins", "workers", "up"},
           stage \notin {"down", "close"} => boot[r].at \notin {"down", "close"},
           "worker" \in work => stage \in {"up", "drain"},
           "job" \in work => stage \in {"workers", "up", "drain", "scheduler"}
    PROVE  BootInv'
<1> DEFINE p == [boot[r] EXCEPT !.at = stage, !.busy = work]
<1>1. boot[r] \in Process /\ BatchHeld(r) /\ SchemaHeld(r) /\ PoolHeld(r) /\ BootTyped
  BY ProcessIs
<1>2. /\ p \in Process /\ p.at = stage /\ p.busy = work /\ p.image = boot[r].image /\ p.pool = boot[r].pool
      /\ p.added = boot[r].added /\ p.failed = boot[r].failed
  BY <1>1 DEF Process
<1> HIDE DEF p
<1>3. boot'[r] = p
  BY <1>1 DEF BootTyped, p
<1>4. BatchHeld(r)' /\ SchemaHeld(r)' /\ PoolHeld(r)'
  BY <1>1, <1>2, <1>3 DEF BatchHeld, SchemaHeld, PoolHeld
<1>5. boot' = [boot EXCEPT ![r] = p]
  BY DEF p
<1>6. starts' \in 0..Starts
  BY <1>1 DEF BootTyped
<1> QED BY <1>2, <1>4, <1>5, <1>6, OneBoots

LEMMA StartKeeps ==
    ASSUME BootInv, NEW r \in Replicas, NEW image \in Images, Booting!Start(r, image)
    PROVE  BootInv'
<1> DEFINE p == [Booting!Down EXCEPT !.at = "init", !.image = image, !.left = Stores, !.pool = TRUE]
<1>1. /\ boot[r].at = "down" /\ boot' = [boot EXCEPT ![r] = p]
      /\ starts < Starts /\ starts' = starts + 1 /\ UNCHANGED <<recorded, bootRan, lock>>
  BY DEF Booting!Start
<1>2. /\ p \in Process /\ p.at = "init" /\ p.image = image /\ p.left = Stores /\ p.added = {}
      /\ p.failed = FALSE /\ p.pool = TRUE /\ p.busy = {}
  <2> DEFINE q0 == [Booting!Down EXCEPT !.at = "init"]
             q1 == [q0 EXCEPT !.image = image]
             q2 == [q1 EXCEPT !.left = Stores]
             Empty(q) == /\ q \in Process /\ q.at = "init" /\ q.added = {}
                         /\ q.failed = FALSE /\ q.busy = {}
  <2>1. Empty(q0)
    <3>1. /\ Booting!Down.added = {} /\ Booting!Down.failed = FALSE /\ Booting!Down.busy = {}
      BY DEF Booting!Down
    <3> QED BY <3>1, DownTyped DEF Process, Booting!Stages
  <2>2. Empty(q1) /\ q1.image = image
    <3> HIDE DEF q0
    <3> QED BY <2>1 DEF Process
  <2>3. Empty(q2) /\ q2.image = image /\ q2.left = Stores
    <3> HIDE DEF q1
    <3> QED BY <2>2 DEF Process
  <2>4. p = [q2 EXCEPT !.pool = TRUE]
    OBVIOUS
  <2> HIDE DEF p, q2
  <2> QED BY <2>3, <2>4 DEF Process
<1> HIDE DEF p
<1>3. boot'[r] = p /\ starts' \in 0..Starts
  BY <1>1, ProcessIs DEF BootTyped
<1>4. BatchHeld(r)' /\ SchemaHeld(r)' /\ PoolHeld(r)'
  BY <1>2, <1>3 DEF BatchHeld, SchemaHeld, PoolHeld
<1> QED BY <1>1, <1>2, <1>3, <1>4, OneBoots

\* A transaction that takes the lock, ...
LEMMA TakeLockKeeps == ASSUME BootInv, NEW r \in Replicas, Booting!TakeLock(r) PROVE BootInv'
<1>1. /\ boot[r].at \in {"init", "migrate"} /\ lock = Nobody /\ lock' = r
      /\ UNCHANGED <<recorded, bootRan, starts>>
  BY DEF Booting!TakeLock
<1>2. boot[r] \in Process /\ BatchHeld(r) /\ SchemaHeld(r) /\ PoolHeld(r) /\ BootTyped
  BY ProcessIs
<1>3. PICK s \in {"init", "read"} :
          /\ boot' = [boot EXCEPT ![r] = [boot[r] EXCEPT !.at = s]]
          /\ s = "init" <=> boot[r].at = "init"
  <2>1. CASE boot[r].at = "migrate"
    BY <1>2, <2>1 DEF Booting!TakeLock, Booting!Goes, BootTyped
  <2>2. CASE boot[r].at = "init"
    <3>1. boot' = boot /\ boot[r] = [boot[r] EXCEPT !.at = "init"]
      BY <1>2, <2>2 DEF Booting!TakeLock, Process
    <3> QED BY <1>2, <2>2, <3>1 DEF BootTyped
  <2> QED BY <1>1, <2>1, <2>2
<1> DEFINE p == [boot[r] EXCEPT !.at = s]
<1>4. /\ p \in Process /\ p.at = s /\ p.busy = boot[r].busy /\ p.image = boot[r].image
      /\ p.pool = boot[r].pool /\ p.added = boot[r].added /\ p.failed = boot[r].failed
      /\ p.left = boot[r].left
  BY <1>2 DEF Process, Booting!Stages
<1>5. boot' = [boot EXCEPT ![r] = p]
  BY <1>3
<1> HIDE DEF p
<1>6. boot'[r] = p
  BY <1>2, <1>5 DEF BootTyped
<1>7. BatchHeld(r)' /\ SchemaHeld(r)' /\ PoolHeld(r)'
  BY <1>1, <1>2, <1>3, <1>4, <1>6 DEF BatchHeld, SchemaHeld, PoolHeld
<1>8. starts' \in 0..Starts
  BY <1>1, <1>2 DEF BootTyped
<1> QED BY <1>1, <1>4, <1>5, <1>7, <1>8, OneBoots

\* ... and ones that end without new rows.
LEMMA InitDbKeeps == ASSUME BootInv, NEW r \in Replicas, Booting!InitDb(r) PROVE BootInv'
<1> DEFINE s == IF boot[r].left = 1 THEN "migrate" ELSE "init"
           q0 == [boot[r] EXCEPT !.left = @ - 1]
           p == [q0 EXCEPT !.at = s]
<1>1. /\ boot[r].at = "init" /\ lock = r /\ lock' = Nobody /\ UNCHANGED <<recorded, bootRan, starts>>
  BY DEF Booting!InitDb
<1>2. boot[r] \in Process /\ BatchHeld(r) /\ SchemaHeld(r) /\ PoolHeld(r) /\ BootTyped
  BY ProcessIs
<1>3. boot[r].left \in 1..Stores
  BY <1>1, <1>2 DEF BatchHeld, Process
<1>4. /\ q0 \in Process /\ q0.busy = boot[r].busy /\ q0.image = boot[r].image
      /\ q0.pool = boot[r].pool /\ q0.added = boot[r].added /\ q0.failed = boot[r].failed
      /\ q0.left = boot[r].left - 1
  BY <1>2, <1>3 DEF Process
<1>5. boot' = [boot EXCEPT ![r] = p]
  BY <1>2 DEF Booting!InitDb, BootTyped
<1>6. s \in {"migrate", "init"} /\ (s = "init" => boot[r].left > 1)
  BY <1>3
<1> HIDE DEF q0, s
<1>7. /\ p \in Process /\ p.busy = boot[r].busy /\ p.image = boot[r].image
      /\ p.pool = boot[r].pool /\ p.added = boot[r].added /\ p.failed = boot[r].failed
      /\ p.left = boot[r].left - 1 /\ p.at = s
  BY <1>4, <1>6 DEF Process, Booting!Stages
<1> HIDE DEF p
<1>8. boot'[r] = p /\ starts' \in 0..Starts
  BY <1>1, <1>2, <1>5 DEF BootTyped
<1>9. BatchHeld(r)' /\ SchemaHeld(r)' /\ PoolHeld(r)'
  BY <1>1, <1>2, <1>3, <1>6, <1>7, <1>8 DEF BatchHeld, SchemaHeld, PoolHeld
<1> QED BY <1>1, <1>5, <1>7, <1>8, <1>9, OneBoots

LEMMA ReadAppliedKeeps == ASSUME BootInv, NEW r \in Replicas, Booting!ReadApplied(r) PROVE BootInv'
<1> DEFINE q0 == [boot[r] EXCEPT !.already = recorded]
           p == [q0 EXCEPT !.at = "apply"]
<1>1. boot[r].at = "read" /\ UNCHANGED <<recorded, bootRan, lock, starts>>
  BY DEF Booting!ReadApplied
<1>2. boot[r] \in Process /\ BatchHeld(r) /\ SchemaHeld(r) /\ PoolHeld(r) /\ BootTyped
  BY ProcessIs
<1>3. /\ q0 \in Process /\ q0.busy = boot[r].busy /\ q0.image = boot[r].image /\ q0.already = recorded
      /\ q0.pool = boot[r].pool /\ q0.added = boot[r].added /\ q0.failed = boot[r].failed
  BY <1>2 DEF Process, BootTyped
<1>4. boot' = [boot EXCEPT ![r] = p]
  BY <1>2 DEF Booting!ReadApplied, BootTyped
<1> HIDE DEF q0
<1>5. /\ p \in Process /\ p.busy = boot[r].busy /\ p.image = boot[r].image /\ p.already = recorded
      /\ p.pool = boot[r].pool /\ p.added = boot[r].added /\ p.failed = boot[r].failed
      /\ p.at = "apply"
  BY <1>3 DEF Process, Booting!Stages
<1> HIDE DEF p
<1>6. boot'[r] = p /\ starts' \in 0..Starts
  BY <1>1, <1>2, <1>4 DEF BootTyped
<1>7. BatchHeld(r)' /\ SchemaHeld(r)' /\ PoolHeld(r)'
  BY <1>1, <1>2, <1>5, <1>6 DEF BatchHeld, SchemaHeld, PoolHeld
<1> QED BY <1>1, <1>4, <1>5, <1>6, <1>7, OneBoots

\* The least of a set of numbers is in it.
LEMMA MinIn == ASSUME NEW S \in SUBSET Nat, S # {} PROVE Booting!Min(S) \in S
  BY Least DEF Booting!Min

\* A migration of the batch is one of the image.
LEMMA ApplyOneKeeps == ASSUME BootInv, NEW r \in Replicas, Booting!ApplyOne(r) PROVE BootInv'
<1> DEFINE v == Booting!Min(Booting!Pending(r))
           p == [boot[r] EXCEPT !.added = @ \cup {v}]
<1>1. /\ boot[r].at = "apply" /\ Booting!Pending(r) # {} /\ v \notin DOMAIN recorded
      /\ UNCHANGED <<recorded, bootRan, lock, starts>>
  BY DEF Booting!ApplyOne
<1>2. boot[r] \in Process /\ BatchHeld(r) /\ SchemaHeld(r) /\ PoolHeld(r) /\ BootTyped
  BY ProcessIs
<1>3. boot' = [boot EXCEPT ![r] = p]
  BY <1>2 DEF Booting!ApplyOne, BootTyped
<1>4. boot[r].image \in Images
  BY <1>1, <1>2 DEF BatchHeld
<1>5. v \in DOMAIN boot[r].image
  <2>1. Booting!Pending(r) \in SUBSET Nat /\ Booting!Pending(r) \subseteq DOMAIN boot[r].image
    BY <1>4 DEF Booting!Pending
  <2> QED BY <1>1, <2>1, MinIn
<1> HIDE DEF v
<1>6. v \in Booting!Versions
  BY <1>4, <1>5 DEF Booting!Versions
<1>7. /\ p \in Process /\ p.busy = boot[r].busy /\ p.image = boot[r].image /\ p.already = boot[r].already
      /\ p.pool = boot[r].pool /\ p.added = boot[r].added \cup {v} /\ p.failed = boot[r].failed
      /\ p.at = "apply"
  BY <1>1, <1>2, <1>6 DEF Process
<1> HIDE DEF p
<1>8. boot'[r] = p /\ starts' \in 0..Starts
  BY <1>1, <1>2, <1>3 DEF BootTyped
<1>9. BatchHeld(r)' /\ SchemaHeld(r)' /\ PoolHeld(r)'
  BY <1>1, <1>2, <1>5, <1>7, <1>8 DEF BatchHeld, SchemaHeld, PoolHeld
<1> QED BY <1>1, <1>3, <1>7, <1>8, <1>9, OneBoots

LEMMA ApplyFailsKeeps == ASSUME BootInv, NEW r \in Replicas, Booting!ApplyFails(r) PROVE BootInv'
<1> DEFINE q0 == [boot[r] EXCEPT !.at = "admins"]
           q1 == [q0 EXCEPT !.failed = TRUE]
           p == [q1 EXCEPT !.added = {}]
<1>1. boot[r].at = "apply" /\ lock' = Nobody /\ UNCHANGED <<recorded, bootRan, starts>>
  BY DEF Booting!ApplyFails
<1>2. boot[r] \in Process /\ BatchHeld(r) /\ SchemaHeld(r) /\ PoolHeld(r) /\ BootTyped
  BY ProcessIs
<1>3. boot' = [boot EXCEPT ![r] = p]
  BY <1>2 DEF Booting!ApplyFails, BootTyped
<1>4. q0 \in Process /\ q0.busy = boot[r].busy /\ q0.pool = boot[r].pool /\ q0.at = "admins"
  BY <1>2 DEF Process, Booting!Stages
<1> HIDE DEF q0
<1>5. /\ q1 \in Process /\ q1.busy = boot[r].busy /\ q1.pool = boot[r].pool /\ q1.at = "admins"
      /\ q1.failed = TRUE
  BY <1>4 DEF Process
<1> HIDE DEF q1
<1>6. /\ p \in Process /\ p.busy = boot[r].busy /\ p.pool = boot[r].pool /\ p.at = "admins"
      /\ p.failed = TRUE /\ p.added = {}
  BY <1>5 DEF Process
<1> HIDE DEF p
<1>7. boot'[r] = p /\ starts' \in 0..Starts
  BY <1>1, <1>2, <1>3 DEF BootTyped
<1>8. BatchHeld(r)' /\ SchemaHeld(r)' /\ PoolHeld(r)' /\ lock = r
  BY <1>1, <1>2, <1>6, <1>7 DEF BatchHeld, SchemaHeld, PoolHeld
<1> QED BY <1>1, <1>3, <1>6, <1>7, <1>8, OneBoots

LEMMA CommitBatchKeeps == ASSUME BootInv, NEW r \in Replicas, Booting!CommitBatch(r) PROVE BootInv'
<1> DEFINE q0 == [boot[r] EXCEPT !.at = "admins"]
           p == [q0 EXCEPT !.added = {}]
           D == DOMAIN recorded \cup boot[r].added
<1>1. /\ boot[r].at = "apply" /\ lock' = Nobody /\ UNCHANGED starts
      /\ Booting!Pending(r) = {}
      /\ recorded' = [v \in D |-> IF v \in DOMAIN recorded THEN recorded[v] ELSE boot[r].image[v]]
      /\ bootRan' = [v \in Booting!Versions |-> IF v \in boot[r].added THEN bootRan[v] + 1 ELSE bootRan[v]]
  BY DEF Booting!CommitBatch
<1>2. boot[r] \in Process /\ BatchHeld(r) /\ SchemaHeld(r) /\ PoolHeld(r) /\ BootTyped
  BY ProcessIs
<1>3. /\ boot[r].already = recorded /\ boot[r].added \subseteq DOMAIN boot[r].image \ DOMAIN recorded
      /\ lock = r /\ boot[r].image \in Images /\ ~boot[r].failed
  BY <1>1, <1>2 DEF BatchHeld, SchemaHeld
<1>4. boot' = [boot EXCEPT ![r] = p]
  BY <1>2 DEF Booting!CommitBatch, BootTyped
<1>5. /\ q0 \in Process /\ q0.busy = boot[r].busy /\ q0.pool = boot[r].pool /\ q0.at = "admins"
      /\ q0.image = boot[r].image
  BY <1>2 DEF Process, Booting!Stages
<1> HIDE DEF q0
<1>6. /\ p \in Process /\ p.busy = boot[r].busy /\ p.pool = boot[r].pool /\ p.at = "admins"
      /\ p.image = boot[r].image /\ p.added = {}
  BY <1>5 DEF Process
<1> HIDE DEF p
<1>7. boot'[r] = p
  BY <1>2, <1>4 DEF BootTyped
<1>8. DOMAIN recorded' = D /\ DOMAIN boot[r].image \subseteq D
  BY <1>1, <1>3 DEF Booting!Pending
<1>9. BootTyped'
  <2>1. PICK E \in SUBSET Booting!Versions : recorded \in [E -> Booting!Texts]
    BY <1>2 DEF BootTyped, Tables
  <2>2. D \in SUBSET Booting!Versions
    BY <1>2, <2>1 DEF Process
  <2>3. \A v \in boot[r].added : boot[r].image[v] \in Booting!Texts
    BY <1>3
  <2>4. recorded' \in [D -> Booting!Texts]
    BY <1>1, <2>1, <2>3
  <2>5. recorded' \in Tables
    BY <2>2, <2>4 DEF Tables
  <2> QED BY <1>1, <1>2, <1>4, <1>6, <2>5 DEF BootTyped
<1>10. RanOnce'
  BY <1>1, <1>3, <1>8 DEF BootInv, RanOnce
<1>11. ASSUME NEW q \in Replicas PROVE BatchHeld(q)' /\ SchemaHeld(q)' /\ PoolHeld(q)'
  <2>1. CASE q = r
    <3>1. DOMAIN boot'[r].image \subseteq DOMAIN recorded' /\ boot'[r].at = "admins"
      BY <1>6, <1>7, <1>8
    <3>2. BatchHeld(r)' /\ SchemaHeld(r)'
      BY <1>6, <1>7, <3>1 DEF BatchHeld, SchemaHeld
    <3>3. PoolHeld(r)'
      BY <1>1, <1>2, <1>6, <1>7 DEF PoolHeld
    <3> QED BY <2>1, <3>2, <3>3
  <2>2. CASE q # r
    <3>1. boot'[q] = boot[q] /\ BatchHeld(q) /\ SchemaHeld(q) /\ PoolHeld(q)
      BY <1>2, <1>4, <2>2 DEF BootInv, BootTyped
    <3> QED BY <1>3, <1>8, <2>2, <3>1 DEF BatchHeld, SchemaHeld, PoolHeld
  <2> QED BY <2>1, <2>2
<1> QED BY <1>9, <1>10, <1>11 DEF BootInv

\* The steps that only serve, and the process's end.
LEMMA ServeKeeps ==
    ASSUME BootInv, NEW r \in Replicas,
           \/ Booting!StartScheduler(r) \/ Booting!StartWorkers(r)
           \/ Booting!RunJob(r) \/ Booting!EndJob(r)
           \/ Booting!Shutdown(r) \/ Booting!Drained(r) \/ Booting!StopScheduler(r)
    PROVE  BootInv'
<1> DEFINE p(stage, work) == [boot[r] EXCEPT !.at = stage, !.busy = work]
           Goes(stage, work) == boot' = [boot EXCEPT ![r] = p(stage, work)]
<1>1. boot[r] \in Process /\ BatchHeld(r) /\ SchemaHeld(r) /\ PoolHeld(r) /\ BootTyped
  BY ProcessIs
<1>2. boot[r].busy \in SUBSET {"worker", "job"} /\ boot \in [Replicas -> Process]
  BY <1>1 DEF Process, BootTyped
<1>3. ASSUME NEW stage \in Booting!Stages PROVE [boot[r] EXCEPT !.at = stage] = p(stage, boot[r].busy)
  BY <1>1 DEF Process
<1>4. ASSUME NEW work \in SUBSET {"worker", "job"}
      PROVE  [boot[r] EXCEPT !.busy = work] = p(boot[r].at, work)
  BY <1>1 DEF Process
<1>5. \A stage \in Booting!Stages : Booting!Goes(r, stage) => Goes(stage, boot[r].busy)
  <2> SUFFICES ASSUME NEW stage \in Booting!Stages, Booting!Goes(r, stage)
               PROVE  Goes(stage, boot[r].busy)
    OBVIOUS
  <2>1. boot' = [boot EXCEPT ![r] = [boot[r] EXCEPT !.at = stage]]
    BY <1>2 DEF Booting!Goes
  <2> QED BY <1>3, <2>1
<1>6. \A work \in SUBSET {"worker", "job"} :
          boot' = [boot EXCEPT ![r].busy = work] => Goes(boot[r].at, work)
  <2> SUFFICES ASSUME NEW work \in SUBSET {"worker", "job"}, boot' = [boot EXCEPT ![r].busy = work]
               PROVE  Goes(boot[r].at, work)
    OBVIOUS
  <2>1. boot' = [boot EXCEPT ![r] = [boot[r] EXCEPT !.busy = work]]
    BY <1>2
  <2> QED BY <1>4, <2>1
<1>7. boot[r].at \in Booting!Stages /\ {"admins", "workers", "up", "drain", "scheduler", "close"} \subseteq Booting!Stages
  BY <1>1 DEF Process, Booting!Stages
<1> DEFINE Fits(stage, work) ==
             /\ boot[r].at # "apply" /\ stage \notin {"init", "read", "apply"}
             /\ stage \in {"migrate", "admins"} => boot[r].at = stage
             /\ stage \in {"workers", "up"} => boot[r].at \in {"admins", "workers", "up"}
             /\ stage \notin {"down", "close"} => boot[r].at \notin {"down", "close"}
             /\ "worker" \in work => stage \in {"up", "drain"}
             /\ "job" \in work => stage \in {"workers", "up", "drain", "scheduler"}
<1> HIDE DEF p
<1>8. UNCHANGED <<recorded, bootRan, starts>> /\ lock' = lock
  BY DEF Booting!StartScheduler, Booting!StartWorkers, Booting!RunJob, Booting!EndJob,
     Booting!Shutdown, Booting!Drained, Booting!StopScheduler
<1>9. \E stage \in Booting!Stages, work \in SUBSET {"worker", "job"} : Goes(stage, work) /\ Fits(stage, work)
  <2>1. CASE Booting!StartScheduler(r)
    <3>1. Goes("workers", boot[r].busy) /\ Fits("workers", boot[r].busy)
      BY <1>1, <1>5, <1>7, <2>1 DEF Booting!StartScheduler, PoolHeld
    <3> QED BY <1>2, <1>7, <3>1, ZenonT(40)
  <2>2. CASE Booting!StartWorkers(r)
    <3> DEFINE work == boot[r].busy \cup {"worker"}
    <3>1. boot[r].at = "workers" /\ work \in SUBSET {"worker", "job"}
      BY <1>2, <2>2 DEF Booting!StartWorkers
    <3>2. boot' = [boot EXCEPT ![r] = p("up", work)]
      BY <1>2, <2>2 DEF Booting!StartWorkers, p
    <3>3. Fits("up", work)
      BY <1>1, <3>1 DEF PoolHeld
    <3> QED BY <1>7, <3>1, <3>2, <3>3
  <2>3. CASE Booting!RunJob(r)
    <3> DEFINE work == boot[r].busy \cup {"job"}
    <3>1. /\ boot[r].at \in {"workers", "up", "drain", "scheduler"} /\ work \in SUBSET {"worker", "job"}
          /\ boot' = [boot EXCEPT ![r].busy = work]
      BY <1>2, <2>3 DEF Booting!RunJob
    <3>2. Goes(boot[r].at, work)
      BY <1>6, <3>1
    <3>3. Fits(boot[r].at, work)
      BY <1>1, <3>1 DEF PoolHeld
    <3> QED BY <1>7, <3>1, <3>2, <3>3
  <2>4. CASE Booting!EndJob(r)
    <3> DEFINE work == boot[r].busy \ {"job"}
    <3>1. /\ "job" \in boot[r].busy /\ work \in SUBSET {"worker", "job"}
          /\ boot' = [boot EXCEPT ![r].busy = work]
      BY <1>2, <2>4 DEF Booting!EndJob
    <3>2. Goes(boot[r].at, work)
      BY <1>6, <3>1
    <3>3. Fits(boot[r].at, work)
      BY <1>1, <3>1 DEF PoolHeld
    <3> QED BY <1>7, <3>1, <3>2, <3>3
  <2>5. CASE Booting!Shutdown(r)
    <3>1. Goes("drain", boot[r].busy) /\ Fits("drain", boot[r].busy)
      BY <1>1, <1>5, <1>7, <2>5 DEF Booting!Shutdown, PoolHeld
    <3> QED BY <1>2, <1>7, <3>1
  <2>6. CASE Booting!Drained(r)
    <3> DEFINE work == boot[r].busy \ {"worker"}
    <3>1. boot[r].at = "drain" /\ work \in SUBSET {"worker", "job"}
      BY <1>2, <2>6 DEF Booting!Drained
    <3>2. boot' = [boot EXCEPT ![r] = p("scheduler", work)]
      BY <1>2, <2>6 DEF Booting!Drained, p
    <3>3. Fits("scheduler", work)
      BY <1>1, <3>1 DEF PoolHeld
    <3> QED BY <1>7, <3>1, <3>2, <3>3
  <2>7. CASE Booting!StopScheduler(r)
    <3>1. Goes("close", boot[r].busy) /\ Fits("close", boot[r].busy)
      BY <1>1, <1>5, <1>7, <2>7 DEF Booting!StopScheduler, PoolHeld
    <3> QED BY <1>2, <1>7, <3>1
  <2> QED BY <2>1, <2>2, <2>3, <2>4, <2>5, <2>6, <2>7
<1>10. PICK stage \in Booting!Stages, work \in SUBSET {"worker", "job"} : Goes(stage, work) /\ Fits(stage, work)
  BY <1>9
<1> QED BY <1>8, <1>10, Onwards DEF p

LEMMA ExitKeeps ==
    ASSUME BootInv, NEW r \in Replicas, Booting!ClosePool(r) \/ Booting!Exit(r) PROVE BootInv'
<1>1. boot[r] \in Process /\ BatchHeld(r) /\ SchemaHeld(r) /\ PoolHeld(r) /\ BootTyped
  BY ProcessIs
<1>2. CASE Booting!Exit(r)
  <2>1. /\ boot' = [boot EXCEPT ![r] = Booting!Down] /\ UNCHANGED <<recorded, bootRan, starts>>
        /\ lock' = IF lock = r THEN Nobody ELSE lock
    BY <1>2 DEF Booting!Exit
  <2>2. boot'[r] = Booting!Down /\ starts' \in 0..Starts
    BY <1>1, <2>1 DEF BootTyped
  <2>3. BatchHeld(r)' /\ SchemaHeld(r)' /\ PoolHeld(r)'
    BY <2>2 DEF BatchHeld, SchemaHeld, PoolHeld, Booting!Down
  <2> QED BY <2>1, <2>2, <2>3, DownTyped, OneBoots
<1>3. CASE Booting!ClosePool(r)
  <2> DEFINE p == [boot[r] EXCEPT !.pool = FALSE]
  <2>1. /\ boot[r].at = "close" /\ UNCHANGED <<recorded, bootRan, lock, starts>>
        /\ boot' = [boot EXCEPT ![r] = p]
    BY <1>1, <1>3 DEF Booting!ClosePool, BootTyped
  <2>2. /\ p \in Process /\ p.at = "close" /\ p.busy = boot[r].busy /\ p.added = boot[r].added
    BY <1>1, <2>1 DEF Process
  <2> HIDE DEF p
  <2>3. boot'[r] = p /\ starts' \in 0..Starts
    BY <1>1, <2>1 DEF BootTyped
  <2>4. BatchHeld(r)' /\ SchemaHeld(r)' /\ PoolHeld(r)'
    BY <1>1, <2>1, <2>2, <2>3 DEF BatchHeld, SchemaHeld, PoolHeld
  <2> QED BY <2>1, <2>2, <2>3, <2>4, OneBoots
<1> QED BY <1>2, <1>3

LEMMA BootStep == BootInv /\ [Booting!Next]_bootVars => BootInv'
<1> SUFFICES ASSUME BootInv, [Booting!Next]_bootVars PROVE BootInv'
  OBVIOUS
<1>1. CASE UNCHANGED bootVars
  BY <1>1 DEF bootVars, BootInv, BootTyped, RanOnce, BatchHeld, SchemaHeld, PoolHeld
<1>2. CASE Booting!Next
  BY <1>2, StartKeeps, TakeLockKeeps, InitDbKeeps, ReadAppliedKeeps, ApplyOneKeeps, ApplyFailsKeeps,
     CommitBatchKeeps, ServeKeeps, ExitKeeps DEF Booting!Next
<1> QED BY <1>1, <1>2

\* No start meets a row that is not in what it read, and no job or worker meets a closed pool.
LEMMA BootSafe == BootInv => Booting!SchemaIsWhole /\ Booting!PoolOutlivesJobs
<1> SUFFICES ASSUME BootInv PROVE Booting!SchemaIsWhole /\ Booting!PoolOutlivesJobs
  OBVIOUS
<1>1. Booting!SchemaIsWhole
  <2>1. ASSUME NEW r \in Replicas, boot[r].at = "apply"
        PROVE  Booting!Pending(r) \cap DOMAIN recorded = {}
    BY <2>1 DEF BootInv, BatchHeld, Booting!Pending
  <2>2. ASSUME NEW r \in Replicas, boot[r].at \in {"workers", "up"}, ~boot[r].failed
        PROVE  DOMAIN boot[r].image \subseteq DOMAIN recorded
    BY <2>2 DEF BootInv, SchemaHeld
  <2> QED BY <2>1, <2>2 DEF Booting!SchemaIsWhole, BootInv, RanOnce
<1>2. Booting!PoolOutlivesJobs
  <2>1. ASSUME NEW r \in Replicas, boot[r].busy # {} PROVE boot[r].pool
    <3>1. boot[r].busy \in SUBSET {"worker", "job"} /\ PoolHeld(r)
      BY ProcessIs DEF Process
    <3>2. "worker" \in boot[r].busy \/ "job" \in boot[r].busy
      BY <2>1, <3>1
    <3> QED BY <3>1, <3>2 DEF PoolHeld
  <2> QED BY <2>1 DEF Booting!PoolOutlivesJobs
<1> QED BY <1>1, <1>2

\* Before the first start nothing runs and nothing is recorded.
Started == starts > 0 \/ (DOMAIN recorded = {} /\ \A r \in Replicas : boot[r].at = "down")

LEMMA StartedInit == Booting!Init => Started
  BY DEF Booting!Init, Booting!Down, Started

LEMMA StartedStep == ASSUME BootInv, Started, [Booting!Next]_bootVars PROVE Started'
<1>1. starts \in Nat
  BY DEF BootInv, BootTyped
<1>2. CASE UNCHANGED bootVars
  BY <1>2 DEF bootVars, Started
<1>3. ASSUME Booting!Next, starts > 0 PROVE starts' > 0
  <2>1. ASSUME NEW r \in Replicas PROVE
            /\ \A image \in Images : Booting!Start(r, image) => starts' = starts + 1
            /\ Booting!TakeLock(r) \/ Booting!InitDb(r) \/ Booting!ReadApplied(r) \/ Booting!ApplyOne(r)
                  \/ Booting!ApplyFails(r) \/ Booting!CommitBatch(r) => starts' = starts
            /\ Booting!StartScheduler(r) \/ Booting!StartWorkers(r) \/ Booting!RunJob(r)
                  \/ Booting!EndJob(r) \/ Booting!Shutdown(r) \/ Booting!Drained(r)
                  \/ Booting!StopScheduler(r) \/ Booting!ClosePool(r) \/ Booting!Exit(r) => starts' = starts
    BY ZenonT(40) DEF Booting!Start, Booting!TakeLock, Booting!InitDb, Booting!ReadApplied,
       Booting!ApplyOne, Booting!ApplyFails, Booting!CommitBatch, Booting!StartScheduler,
       Booting!StartWorkers, Booting!RunJob, Booting!EndJob, Booting!Shutdown, Booting!Drained,
       Booting!StopScheduler, Booting!ClosePool, Booting!Exit
  <2>2. starts' = starts \/ starts' = starts + 1
    BY <1>3, <2>1 DEF Booting!Next
  <2> QED BY <1>1, <1>3, <2>2
<1>4. ASSUME Booting!Next, starts = 0 PROVE starts' > 0
  <2>1. \A r \in Replicas : boot[r].at = "down" /\ "job" \notin boot[r].busy
    BY <1>4 DEF Started, BootInv, PoolHeld
  <2>2. PICK r \in Replicas, image \in Images : Booting!Start(r, image)
    BY <1>4, <2>1 DEF Booting!Next, Booting!TakeLock, Booting!InitDb, Booting!ReadApplied,
       Booting!ApplyOne, Booting!ApplyFails, Booting!CommitBatch, Booting!StartScheduler,
       Booting!StartWorkers, Booting!RunJob, Booting!EndJob, Booting!Shutdown, Booting!Drained,
       Booting!StopScheduler, Booting!ClosePool, Booting!Exit
  <2> QED BY <1>1, <2>2 DEF Booting!Start
<1> QED BY <1>1, <1>2, <1>3, <1>4 DEF Started

LEMMA BootTypes == BootInv /\ Started => Booting!TypeOK
<1> SUFFICES ASSUME BootInv, Started PROVE Booting!TypeOK
  OBVIOUS
<1>1. BootTyped /\ RanOnce
  BY DEF BootInv
<1>2. \A table \in Tables :
          DOMAIN table \subseteq Booting!Versions /\ Booting!Range(table) \subseteq Booting!Texts
  BY DEF Tables, Booting!Range
<1>3. bootRan \in [Booting!Versions -> 0..Starts]
  <2>1. ASSUME NEW v \in Booting!Versions PROVE bootRan[v] \in 0..Starts
    BY <1>1, <2>1 DEF Started, RanOnce, BootTyped
  <2> QED BY <1>1, <2>1 DEF BootTyped
<1>4. ASSUME NEW r \in Replicas PROVE boot[r] \in Process
  BY <1>1 DEF BootTyped
<1>5. ASSUME NEW r \in Replicas
      PROVE  /\ boot[r].at \in Booting!Stages /\ boot[r].image \in Images \cup {<<>>}
             /\ boot[r].left \in 0..Stores
             /\ DOMAIN boot[r].already \subseteq Booting!Versions /\ boot[r].added \subseteq Booting!Versions
             /\ boot[r].failed \in BOOLEAN /\ boot[r].pool \in BOOLEAN
             /\ boot[r].busy \subseteq {"worker", "job"}
  BY <1>2, <1>4 DEF Process
<1> QED BY <1>1, <1>2, <1>3, <1>5 DEF Booting!TypeOK, BootTyped

\* Replicas that boot together leave a schema that is whole, each migration applied once, and the
\* pool is closed after the last job that uses it (startup.py, migrations.py), for any replicas,
\* images, starts and failures.
THEOREM SchemaAndPool == AllSpec => []BootHolds
<1>1. AllInit => BootInv
  BY BootInit DEF AllInit
<1>2. BootInv /\ [AllNext]_<<part, vars, mappingVars, maintainVars, browseVars, bootVars,
                             supportersVars, settingsVars, filingVars>> => BootInv'
  BY PartsAlone, BootStep
<1>3. BootInv => BootHolds
  BY BootSafe DEF BootHolds
<1> QED BY <1>1, <1>2, <1>3, PTL DEF AllSpec

-----------------------------------------------------------------------------
(* The caches of the settings.                                             *)

USE SettingsAssumption DEF Settings!NoneAssumption, Settings!TimesAssumption

\* A thread ends its call in time, and what it is about to store was in the database after it
\* began.
ThreadsHold ==
    \A t \in Settings!Threads :
        /\ begun[t] <= settingsNow
        /\ threadPc[t] # "idle" => settingsNow <= begun[t] + MaxCall
        /\ threadPc[t] \in {"put", "putStamp"} =>
              threadGot[t] \in Settings!Versions /\ replaced[threadGot[t]] >= begun[t]

\* The value was in the database no longer than a call before its stamp, or before any stamp that
\* a thread which stored its value has yet to set.
ValueHolds ==
    value # NoValue =>
        /\ replaced[value] >= cachedAt - MaxCall
        /\ \A t \in Settings!Threads :
              threadPc[t] = "putStamp" => replaced[value] >= begun[t] - MaxCall

SettingsInv ==
    /\ Settings!TypeOK /\ ThreadsHold /\ ValueHolds
    /\ \A v \in Settings!Versions : v >= db => replaced[v] = Settings!Never
    /\ cachedAt <= settingsNow

LEMMA SettingsInit == Settings!Init => SettingsInv
  BY DEF Settings!Init, SettingsInv, Settings!TypeOK, ThreadsHold, ValueHolds, Settings!Versions,
     Settings!Never

\* A thread takes a step of its call, after which the value and its stamp are what they were.
LEMMA QuietStep ==
    ASSUME SettingsInv, NEW t \in Settings!Threads,
           \/ Settings!Begin(t) \/ Settings!LoadValue(t) \/ Settings!Hit(t) \/ Settings!Expired(t)
           \/ Settings!Query(t) \/ Settings!QueryError(t)
    PROVE  SettingsInv'
<1>1. Settings!TypeOK /\ ThreadsHold /\ ValueHolds
  BY DEF SettingsInv
<1>2. UNCHANGED <<settingsNow, db, replaced, value, cachedAt>>
  BY DEF Settings!Begin, Settings!LoadValue, Settings!Hit, Settings!Expired, Settings!Query,
     Settings!QueryError
<1>3. Settings!TypeOK'
  BY <1>1 DEF Settings!TypeOK, Settings!Begin, Settings!LoadValue, Settings!Hit, Settings!Expired, Settings!Query,
     Settings!QueryError, Settings!Return, Settings!Goto
<1>4. replaced[db] = Settings!Never /\ db \in Settings!Versions
  BY <1>1 DEF SettingsInv, Settings!TypeOK, Settings!Versions
<1>5. ThreadsHold'
  BY <1>1, <1>2, <1>4 DEF ThreadsHold, Settings!TypeOK, Settings!Begin, Settings!LoadValue, Settings!Hit,
     Settings!Expired, Settings!Query, Settings!QueryError, Settings!Return, Settings!Goto, Settings!Never
<1>6. \A s \in Settings!Threads : threadPc'[s] = "putStamp" =>
          threadPc[s] = "putStamp" /\ begun'[s] = begun[s]
  BY <1>1 DEF Settings!TypeOK, Settings!Begin, Settings!LoadValue, Settings!Hit,
     Settings!Expired, Settings!Query, Settings!QueryError, Settings!Return, Settings!Goto
<1>7. ValueHolds'
  BY <1>1, <1>2, <1>6 DEF ValueHolds
<1> QED BY <1>2, <1>3, <1>5, <1>7 DEF SettingsInv

LEMMA PutValueKeeps ==
    ASSUME SettingsInv, NEW t \in Settings!Threads, Settings!PutValue(t) PROVE SettingsInv'
<1>1. Settings!TypeOK /\ ThreadsHold
  BY DEF SettingsInv
<1>2. /\ threadPc[t] = "put" /\ threadPc' = [threadPc EXCEPT ![t] = "putStamp"] /\ value' = threadGot[t]
      /\ UNCHANGED <<settingsNow, db, replaced, cachedAt, begun, threadGot, errors>>
  BY DEF Settings!PutValue, Settings!Goto
<1>3. /\ threadGot[t] \in Settings!Versions /\ replaced[threadGot[t]] >= begun[t]
      /\ settingsNow <= begun[t] + MaxCall
  BY <1>1, <1>2 DEF ThreadsHold
<1>4. Settings!TypeOK' /\ ThreadsHold'
  BY <1>1, <1>2, <1>3 DEF Settings!TypeOK, ThreadsHold
<1>5. replaced[threadGot[t]] >= settingsNow - MaxCall
  BY <1>1, <1>3 DEF Settings!TypeOK
<1>6. /\ replaced[threadGot[t]] >= cachedAt - MaxCall
      /\ \A s \in Settings!Threads : replaced[threadGot[t]] >= begun[s] - MaxCall
  BY <1>1, <1>3, <1>5 DEF Settings!TypeOK, ThreadsHold, SettingsInv
<1>7. ValueHolds'
  BY <1>2, <1>6 DEF ValueHolds
<1> QED BY <1>2, <1>4, <1>7 DEF SettingsInv

LEMMA PutStampKeeps ==
    ASSUME SettingsInv, NEW t \in Settings!Threads, Settings!PutStamp(t) \/ Settings!Bump(t)
    PROVE  SettingsInv'
<1>1. Settings!TypeOK /\ ThreadsHold /\ ValueHolds
  BY DEF SettingsInv
<1>2. /\ \/ threadPc[t] = "putStamp" /\ cachedAt' = begun[t] /\ value' = value
         \/ threadPc[t] = "bump" /\ cachedAt' = cachedAt /\ value' = NoValue
      /\ threadPc' = [threadPc EXCEPT ![t] = "idle"] /\ begun' = [begun EXCEPT ![t] = 0]
      /\ threadGot' = [threadGot EXCEPT ![t] = NoValue]
      /\ UNCHANGED <<settingsNow, db, replaced, errors>>
  BY DEF Settings!PutStamp, Settings!Bump, Settings!Goto, Settings!Return
<1>3. Settings!TypeOK'
  BY <1>1, <1>2 DEF Settings!TypeOK
<1>4. ThreadsHold'
  BY <1>1, <1>2 DEF Settings!TypeOK, ThreadsHold
<1>5. ValueHolds'
  BY <1>1, <1>2 DEF Settings!TypeOK, ValueHolds
<1>6. cachedAt' <= settingsNow'
  BY <1>1, <1>2 DEF Settings!TypeOK, ThreadsHold, SettingsInv
<1> QED BY <1>2, <1>3, <1>4, <1>5, <1>6 DEF SettingsInv

LEMMA WriteKeeps ==
    ASSUME SettingsInv,
           Settings!WriteElsewhere \/ \E t \in Settings!Threads : Settings!Commit(t)
    PROVE  SettingsInv'
<1>1. Settings!TypeOK /\ ThreadsHold /\ ValueHolds
  BY DEF SettingsInv
<1>2. /\ db < MaxWrite /\ db' = db + 1 /\ replaced' = [replaced EXCEPT ![db] = settingsNow]
      /\ UNCHANGED <<settingsNow, value, cachedAt, errors>>
  BY DEF Settings!WriteElsewhere, Settings!Commit, Settings!NewVersion
<1>3. \/ UNCHANGED <<threadPc, begun, threadGot>>
      \/ \E t \in Settings!Threads :
            /\ threadPc' = [threadPc EXCEPT ![t] = "bump"] /\ begun' = [begun EXCEPT ![t] = settingsNow]
            /\ threadGot' = [threadGot EXCEPT ![t] = db']
  BY DEF Settings!WriteElsewhere, Settings!Commit, Settings!Goto, Settings!threadVars
<1>4. Settings!TypeOK'
  <2>1. db' \in Settings!Versions
    BY <1>1, <1>2 DEF Settings!TypeOK, Settings!Versions
  <2>2. replaced' \in [Settings!Versions -> 0..Settings!Never]
    BY <1>1, <1>2 DEF Settings!TypeOK, Settings!Never
  <2>3. /\ begun' \in [Settings!Threads -> 0..LastTime]
        /\ threadGot' \in [Settings!Threads -> Settings!Versions \cup {NoValue}]
        /\ threadPc' \in [Settings!Threads -> {"idle", "value", "stamp", "query", "put", "putStamp", "bump"}]
    BY <1>1, <1>3, <2>1 DEF Settings!TypeOK
  <2> QED BY <1>1, <1>2, <2>1, <2>2, <2>3 DEF Settings!TypeOK
<1>5. \A v \in Settings!Versions : replaced'[v] = replaced[v] \/ replaced'[v] = settingsNow
  BY <1>1, <1>2 DEF Settings!TypeOK
<1>6. ThreadsHold'
  <2> SUFFICES ASSUME NEW s \in Settings!Threads
               PROVE  /\ begun'[s] <= settingsNow
                      /\ threadPc'[s] # "idle" => settingsNow <= begun'[s] + MaxCall
                      /\ threadPc'[s] \in {"put", "putStamp"} =>
                            threadGot'[s] \in Settings!Versions /\ replaced'[threadGot'[s]] >= begun'[s]
    BY <1>2 DEF ThreadsHold
  <2>1. CASE threadPc'[s] = threadPc[s] /\ begun'[s] = begun[s] /\ threadGot'[s] = threadGot[s]
    BY <1>1, <1>5, <2>1 DEF ThreadsHold, Settings!TypeOK
  <2>2. CASE threadPc'[s] = "bump" /\ begun'[s] = settingsNow
    BY <1>1, <2>2 DEF Settings!TypeOK
  <2> QED BY <1>1, <1>3, <2>1, <2>2 DEF Settings!TypeOK
<1>7. ValueHolds'
  <2>1. \A s \in Settings!Threads : threadPc'[s] = "putStamp" =>
            threadPc[s] = "putStamp" /\ begun'[s] = begun[s]
    BY <1>1, <1>3 DEF Settings!TypeOK
  <2> SUFFICES ASSUME value # NoValue
               PROVE  /\ replaced'[value] >= cachedAt - MaxCall
                      /\ \A s \in Settings!Threads :
                            threadPc[s] = "putStamp" => replaced'[value] >= begun[s] - MaxCall
    BY <1>2, <2>1 DEF ValueHolds
  <2>2. replaced'[value] = replaced[value] \/ replaced'[value] = settingsNow
    BY <1>1, <1>5 DEF Settings!TypeOK
  <2> QED BY <1>1, <2>2 DEF Settings!TypeOK, ValueHolds, ThreadsHold, SettingsInv
<1>8. \A v \in Settings!Versions : v >= db' => replaced'[v] = Settings!Never
  BY <1>1, <1>2 DEF Settings!TypeOK, Settings!Versions, SettingsInv
<1> QED BY <1>2, <1>4, <1>6, <1>7, <1>8 DEF SettingsInv

LEMMA SettingsStep == SettingsInv /\ [Settings!Next]_settingsVars => SettingsInv'
<1> SUFFICES ASSUME SettingsInv, [Settings!Next]_settingsVars PROVE SettingsInv'
  OBVIOUS
<1>1. CASE UNCHANGED settingsVars
  BY <1>1 DEF settingsVars, SettingsInv, Settings!TypeOK, ThreadsHold, ValueHolds
<1>2. CASE Settings!Tick
  <2>1. /\ settingsNow' = settingsNow + 1 /\ settingsNow < LastTime
        /\ \A t \in Settings!Threads : threadPc[t] # "idle" => settingsNow < begun[t] + MaxCall
        /\ UNCHANGED <<db, replaced, value, cachedAt, threadPc, begun, threadGot, errors>>
    BY <1>2 DEF Settings!Tick, Settings!threadVars
  <2>2. Settings!TypeOK' /\ ThreadsHold' /\ ValueHolds' /\ cachedAt' <= settingsNow'
    BY <2>1 DEF SettingsInv, Settings!TypeOK, ThreadsHold, ValueHolds
  <2> QED BY <2>1, <2>2 DEF SettingsInv
<1>3. CASE Settings!Next /\ ~Settings!Tick
  BY <1>3, QuietStep, PutValueKeeps, PutStampKeeps, WriteKeeps DEF Settings!Next, Settings!Read
<1> QED BY <1>1, <1>2, <1>3

LEMMA SettingsSafe == SettingsInv => Settings!StoredIsRecent
  BY DEF SettingsInv, Settings!StoredIsRecent, Settings!CurrentSince, ValueHolds, Settings!TypeOK

-----------------------------------------------------------------------------
(* The caches of a browse hub.                                             *)

USE BrowseAssumption

Cache == [items : Nat, derived : Nat, until : Nat]
Reading == [view : Browsing!Views, at : {"idle", "api", "build", "store", "finish"}, got : Nat,
            answer : [items : Nat, derived : Nat]]

BrowseTyped ==
    /\ hour \in Nat \ {0} /\ version \in Nat /\ hasFallback \in BOOLEAN
    /\ stored \in [val : Nat, until : Nat]
    /\ browseLocal \in [Browsing!Entries -> Cache] /\ reader \in [Readers -> Reading]

\* The facets are of the list, unless the other loader of the anime hub put another list beside
\* them; the body has the facets that are there, and then its list too.
Fitting(cache) ==
    /\ cache["items"].until > 0 /\ cache["derived"].until > 0 /\ ~hasFallback =>
          cache["items"].items = cache["derived"].derived
    /\ cache["body"].until > 0 /\ cache["derived"].until > 0 =>
          cache["body"].derived = cache["derived"].derived
    /\ cache["body"].until > 0 /\ ~hasFallback => cache["body"].items = cache["body"].derived

BrowseInv ==
    /\ BrowseTyped /\ Fitting(browseLocal)
    /\ \A q \in Readers : reader[q].view = "fallback" => hasFallback

LEMMA BrowseInit == Browsing!Init => BrowseInv
<1> SUFFICES ASSUME Browsing!Init PROVE BrowseInv
  OBVIOUS
<1>1. Browsing!NoEntry \in Cache /\ Browsing!NoEntry.until = 0
  BY DEF Browsing!NoEntry, Cache
<1>2. [view |-> "whole", at |-> "idle", got |-> 0, answer |-> Browsing!Nothing] \in Reading
  BY DEF Reading, Browsing!Views, Browsing!Nothing
<1>3. BrowseTyped
  BY <1>1, <1>2 DEF Browsing!Init, BrowseTyped
<1>4. Fitting(browseLocal)
  BY <1>1 DEF Browsing!Init, Browsing!Entries, Fitting
<1>5. \A q \in Readers : reader[q].view = "whole"
  BY DEF Browsing!Init
<1> QED BY <1>3, <1>4, <1>5 DEF BrowseInv

LEMMA EntryFresh ==
    ASSUME BrowseInv, NEW i \in Nat, NEW d \in Nat
    PROVE  /\ Browsing!Entry(i, d) \in Cache /\ Browsing!Entry(i, d).until > 0
           /\ Browsing!Entry(i, d).items = i /\ Browsing!Entry(i, d).derived = d
<1>1. hour \in Nat \ {0} /\ LocalLife \in Nat
  BY DEF BrowseInv, BrowseTyped
<1>2. hour + LocalLife \in Nat /\ hour + LocalLife > 0
  BY <1>1
<1> QED BY <1>2 DEF Browsing!Entry, Cache

\* What a load leaves has its facets of its list.
LEMMA LoadedFits ==
    ASSUME BrowseInv, NEW i \in Nat, NEW view \in Browsing!Views, view = "fallback" => hasFallback
    PROVE  LET cache == Browsing!Loaded(i, view)
           IN  /\ cache \in [Browsing!Entries -> Cache] /\ Fitting(cache)
               /\ cache["items"].until > 0 /\ (view # "fallback" => cache["derived"].until > 0)
               /\ view # "fallback" => cache["derived"].derived = i /\ cache["body"].until = 0
<1>1. /\ Browsing!Entry(i, 0) \in Cache /\ Browsing!Entry(i, 0).until > 0 /\ Browsing!Entry(i, 0).items = i
      /\ Browsing!Entry(0, i) \in Cache /\ Browsing!Entry(0, i).until > 0 /\ Browsing!Entry(0, i).derived = i
  BY EntryFresh
<1>2. Browsing!NoEntry \in Cache /\ Browsing!NoEntry.until = 0
  BY DEF Browsing!NoEntry, Cache
<1>3. browseLocal \in [Browsing!Entries -> Cache] /\ Fitting(browseLocal) /\ hasFallback \in BOOLEAN
  BY DEF BrowseInv, BrowseTyped
<1> DEFINE cache == Browsing!Loaded(i, view)
<1>4. CASE view = "fallback"
  <2>1. cache = [browseLocal EXCEPT !["items"] = Browsing!Entry(i, 0)]
    BY <1>4 DEF Browsing!Loaded
  <2>2. /\ cache \in [Browsing!Entries -> Cache] /\ cache["items"] = Browsing!Entry(i, 0)
        /\ cache["derived"] = browseLocal["derived"] /\ cache["body"] = browseLocal["body"]
    BY <1>1, <1>3, <2>1 DEF Browsing!Entries
  <2> HIDE DEF cache
  <2>3. Fitting(cache)
    BY <1>3, <1>4, <2>2 DEF Fitting
  <2> QED BY <1>1, <1>4, <2>2, <2>3 DEF cache
<1>5. CASE view # "fallback"
  <2>1. cache = [browseLocal EXCEPT !["items"] = Browsing!Entry(i, 0), !["derived"] = Browsing!Entry(0, i),
                                    !["body"] = Browsing!NoEntry]
    BY <1>5 DEF Browsing!Loaded
  <2>2. /\ cache \in [Browsing!Entries -> Cache] /\ cache["items"] = Browsing!Entry(i, 0)
        /\ cache["derived"] = Browsing!Entry(0, i) /\ cache["body"] = Browsing!NoEntry
    BY <1>1, <1>2, <1>3, <2>1 DEF Browsing!Entries
  <2> HIDE DEF cache
  <2>3. Fitting(cache)
    BY <1>1, <1>2, <2>2 DEF Fitting
  <2> QED BY <1>1, <1>2, <1>5, <2>2, <2>3 DEF cache
<1> QED BY <1>4, <1>5

\* A request is answered from a cache that fits, and has the entries that its view needs.
LEMMA ServeFits ==
    ASSUME BrowseInv, NEW q \in Readers, NEW view \in Browsing!Views, view = "fallback" => hasFallback,
           NEW cache \in [Browsing!Entries -> Cache], Fitting(cache),
           view # "fallback" => cache["items"].until > 0 /\ cache["derived"].until > 0,
           Browsing!Serve(q, view, cache), UNCHANGED <<hour, version, hasFallback, stored>>
    PROVE  BrowseInv' /\ Browsing!AnswerFits
<1> DEFINE pair == [items |-> cache["items"].items, derived |-> cache["derived"].derived]
           memo == [items |-> cache["body"].items, derived |-> cache["body"].derived]
           memoized == cache["body"].until > hour
           body == Browsing!Entry(pair.items, pair.derived)
           answer == CASE view = "whole" /\ memoized -> memo
                       [] view = "fallback"       -> Browsing!Nothing
                       [] OTHER                   -> pair
           r == [view |-> view, at |-> "idle", got |-> 0, answer |-> answer]
<1>1. /\ browseLocal' = IF view = "whole" /\ ~memoized THEN [cache EXCEPT !["body"] = body] ELSE cache
      /\ reader' = [reader EXCEPT ![q] = r]
  BY DEF Browsing!Serve
<1>2. /\ cache["items"] \in Cache /\ cache["derived"] \in Cache /\ cache["body"] \in Cache
      /\ hour \in Nat \ {0} /\ reader \in [Readers -> Reading] /\ hasFallback \in BOOLEAN
  BY DEF BrowseInv, BrowseTyped, Browsing!Entries
<1>3. /\ body \in Cache /\ body.until > 0 /\ body.items = pair.items /\ body.derived = pair.derived
  BY <1>2, EntryFresh DEF Cache
<1>4. answer \in [items : Nat, derived : Nat]
  <2>1. pair \in [items : Nat, derived : Nat] /\ memo \in [items : Nat, derived : Nat]
    BY <1>2 DEF Cache
  <2>2. Browsing!Nothing \in [items : Nat, derived : Nat]
    BY DEF Browsing!Nothing
  <2>3. answer \in {pair, memo, Browsing!Nothing}
    OBVIOUS
  <2> HIDE DEF answer, pair, memo
  <2> QED BY <2>1, <2>2, <2>3
<1>5. /\ browseLocal' \in [Browsing!Entries -> Cache]
      /\ browseLocal'["items"] = cache["items"] /\ browseLocal'["derived"] = cache["derived"]
      /\ browseLocal'["body"] = IF view = "whole" /\ ~memoized THEN body ELSE cache["body"]
  <2> HIDE DEF body, memoized
  <2> QED BY <1>1, <1>3 DEF Browsing!Entries
<1>6. Fitting(browseLocal)'
  <2>1. CASE view = "whole" /\ ~memoized
    BY <1>2, <1>3, <1>5, <2>1 DEF Fitting
  <2>2. CASE ~(view = "whole" /\ ~memoized)
    BY <1>2, <1>5, <2>2 DEF Fitting
  <2> QED BY <2>1, <2>2
<1>7. /\ ~hasFallback => answer.items = answer.derived
      /\ view = "whole" => answer.derived = cache["derived"].derived
  BY <1>2 DEF Fitting, Browsing!Views, Cache
<1> HIDE DEF answer
<1>8. r \in Reading /\ r.view = view /\ r.answer = answer
  BY <1>4 DEF Reading
<1> HIDE DEF r
<1>9. reader' \in [Readers -> Reading] /\ reader'[q] = r /\ \A p \in Readers \ {q} : reader'[p] = reader[p]
  BY <1>1, <1>2, <1>8
<1>10. BrowseInv'
  BY <1>5, <1>6, <1>8, <1>9 DEF BrowseInv, BrowseTyped
<1>11. Browsing!AnswerFits
  BY <1>5, <1>7, <1>8, <1>9 DEF Browsing!AnswerFits
<1> QED BY <1>10, <1>11

\* A step that answers nobody.
LEMMA SilentStep ==
    ASSUME BrowseInv, BrowseTyped', Fitting(browseLocal)', UNCHANGED hasFallback,
           \A q \in Readers : /\ reader'[q].answer = reader[q].answer \/ reader'[q].at # "idle"
                              /\ reader'[q].view = "fallback" => hasFallback
    PROVE  BrowseInv' /\ Browsing!AnswerFits
  BY DEF BrowseInv, Browsing!AnswerFits

LEMMA AskFits ==
    ASSUME BrowseInv, NEW q \in Readers, NEW view \in Browsing!Views, Browsing!Ask(q, view)
    PROVE  BrowseInv' /\ Browsing!AnswerFits
<1>1. /\ view = "fallback" => hasFallback
      /\ UNCHANGED <<hour, version, hasFallback, stored>> /\ BrowseTyped /\ Fitting(browseLocal)
  BY DEF Browsing!Ask, BrowseInv
<1>2. /\ browseLocal["items"] \in Cache /\ browseLocal["derived"] \in Cache /\ hour \in Nat \ {0}
      /\ browseLocal \in [Browsing!Entries -> Cache] /\ reader \in [Readers -> Reading]
  BY <1>1 DEF BrowseTyped, Browsing!Entries
<1>3. CASE Browsing!Alive("items") /\ (view = "fallback" \/ Browsing!Alive("derived"))
  <2>1. Browsing!Serve(q, view, browseLocal)
    BY <1>3 DEF Browsing!Ask
  <2>2. view # "fallback" => browseLocal["items"].until > 0 /\ browseLocal["derived"].until > 0
    BY <1>2, <1>3 DEF Browsing!Alive, Cache
  <2> QED BY <1>1, <1>2, <2>1, <2>2, ServeFits
<1>4. CASE Browsing!Alive("items") /\ view # "fallback" /\ ~Browsing!Alive("derived")
  <2> DEFINE i == browseLocal["items"].items
             loaded == Browsing!Loaded(i, view)
             cache == [loaded EXCEPT !["items"] = browseLocal["items"]]
  <2>1. Browsing!Serve(q, view, cache)
    BY <1>4 DEF Browsing!Ask
  <2>2. /\ loaded \in [Browsing!Entries -> Cache] /\ loaded["derived"].until > 0
        /\ loaded["derived"].derived = i /\ loaded["body"].until = 0
    BY <1>1, <1>2, <1>4, LoadedFits DEF Cache
  <2>3. browseLocal["items"].until > 0
    BY <1>2, <1>4 DEF Browsing!Alive, Cache
  <2> HIDE DEF loaded
  <2>4. /\ cache \in [Browsing!Entries -> Cache] /\ cache["items"] = browseLocal["items"]
        /\ cache["derived"] = loaded["derived"] /\ cache["body"] = loaded["body"]
    BY <1>2, <2>2 DEF Browsing!Entries
  <2> HIDE DEF cache
  <2>5. Fitting(cache)
    BY <2>2, <2>4 DEF Fitting
  <2> QED BY <1>1, <2>1, <2>2, <2>3, <2>4, <2>5, ServeFits
<1>5. CASE ~Browsing!Alive("items")
  <2> DEFINE r == [view |-> view, at |-> "api", got |-> 0, answer |-> Browsing!Nothing]
  <2>1. reader' = [reader EXCEPT ![q] = r] /\ UNCHANGED browseLocal
    BY <1>5 DEF Browsing!Ask
  <2>2. r \in Reading /\ r.at = "api" /\ r.view = view
    BY DEF Reading, Browsing!Nothing
  <2> HIDE DEF r
  <2>3. reader' \in [Readers -> Reading] /\ reader'[q] = r /\ \A p \in Readers \ {q} : reader'[p] = reader[p]
    BY <1>2, <2>1, <2>2
  <2>4. BrowseTyped' /\ Fitting(browseLocal)'
    BY <1>1, <2>1, <2>3 DEF BrowseTyped, Fitting
  <2>5. \A p \in Readers : /\ reader'[p].answer = reader[p].answer \/ reader'[p].at # "idle"
                           /\ reader'[p].view = "fallback" => hasFallback
    BY <1>1, <2>2, <2>3 DEF BrowseInv
  <2> QED BY <1>1, <2>4, <2>5, SilentStep
<1> QED BY <1>3, <1>4, <1>5

\* A request goes on without an answer.
LEMMA OnwardsFits ==
    ASSUME BrowseInv, NEW q \in Readers, NEW stage \in {"build", "store", "finish"}, NEW listed \in Nat,
           reader' = [reader EXCEPT ![q] = [reader[q] EXCEPT !.at = stage, !.got = listed]],
           UNCHANGED <<hour, version, hasFallback, browseLocal>>,
           stored' \in [val : Nat, until : Nat]
    PROVE  BrowseInv' /\ Browsing!AnswerFits
<1> DEFINE r == [reader[q] EXCEPT !.at = stage, !.got = listed]
<1>1. reader \in [Readers -> Reading] /\ BrowseTyped /\ Fitting(browseLocal)
  BY DEF BrowseInv, BrowseTyped
<1>2. r \in Reading /\ r.at # "idle" /\ r.view = reader[q].view
  BY <1>1, ZenonT(40) DEF Reading
<1>3. reader' = [reader EXCEPT ![q] = r]
  OBVIOUS
<1> HIDE DEF r
<1>4. reader' \in [Readers -> Reading] /\ reader'[q] = r /\ \A p \in Readers \ {q} : reader'[p] = reader[p]
  BY <1>1, <1>2, <1>3
<1>5. BrowseTyped' /\ Fitting(browseLocal)'
  BY <1>1, <1>4 DEF BrowseTyped, Fitting
<1>6. \A p \in Readers : /\ reader'[p].answer = reader[p].answer \/ reader'[p].at # "idle"
                         /\ reader'[p].view = "fallback" => hasFallback
  BY <1>2, <1>4 DEF BrowseInv
<1> QED BY <1>5, <1>6, SilentStep

LEMMA LoadFits ==
    ASSUME BrowseInv, NEW q \in Readers,
           \/ Browsing!Build(q)
           \/ \E ok \in BOOLEAN : Browsing!ReadStored(q, ok) \/ Browsing!Store(q, ok)
    PROVE  BrowseInv' /\ Browsing!AnswerFits
<1>1. /\ reader \in [Readers -> Reading] /\ hour \in Nat /\ version \in Nat /\ StoredLife \in Nat
      /\ stored \in [val : Nat, until : Nat]
  BY DEF BrowseInv, BrowseTyped
<1>2. reader[q] \in Reading /\ reader[q].got \in Nat /\ stored.val \in Nat
  BY <1>1 DEF Reading
<1>3. CASE Browsing!Build(q)
  <2> DEFINE stage == IF version = 0 THEN "finish" ELSE "store"
  <2>1. /\ reader' = [reader EXCEPT ![q] = [reader[q] EXCEPT !.at = stage, !.got = version]]
        /\ UNCHANGED <<hour, version, hasFallback, browseLocal, stored>>
    BY <1>1, <1>3 DEF Browsing!Build
  <2>2. stage \in {"build", "store", "finish"}
    OBVIOUS
  <2> QED BY <1>1, <2>1, <2>2, OnwardsFits
<1>4. ASSUME NEW ok \in BOOLEAN, Browsing!ReadStored(q, ok)
      PROVE  BrowseInv' /\ Browsing!AnswerFits
  <2> DEFINE hit == ok /\ stored.until > hour
             stage == IF hit THEN "finish" ELSE "build"
             listed == IF hit THEN stored.val ELSE 0
  <2>1. /\ reader' = [reader EXCEPT ![q] = [reader[q] EXCEPT !.at = stage, !.got = listed]]
        /\ UNCHANGED <<hour, version, hasFallback, browseLocal, stored>>
    BY <1>1, <1>4 DEF Browsing!ReadStored
  <2>2. stage \in {"build", "store", "finish"} /\ listed \in Nat
    BY <1>2
  <2> QED BY <1>1, <2>1, <2>2, OnwardsFits
<1>5. ASSUME NEW ok \in BOOLEAN, Browsing!Store(q, ok)
      PROVE  BrowseInv' /\ Browsing!AnswerFits
  <2> DEFINE listed == reader[q].got
  <2>1. reader' = [reader EXCEPT ![q].at = "finish"] /\ UNCHANGED <<hour, version, hasFallback, browseLocal>>
    BY <1>5 DEF Browsing!Store
  <2>2. [reader[q] EXCEPT !.at = "finish"] = [reader[q] EXCEPT !.at = "finish", !.got = listed]
    BY <1>2 DEF Reading
  <2>3. reader' = [reader EXCEPT ![q] = [reader[q] EXCEPT !.at = "finish", !.got = listed]]
    BY <1>1, <2>1, <2>2
  <2>4. stored' \in [val : Nat, until : Nat]
    BY <1>1, <1>2, <1>5 DEF Browsing!Store
  <2> QED BY <1>2, <2>1, <2>3, <2>4, OnwardsFits
<1> QED BY <1>3, <1>4, <1>5

LEMMA FinishFits ==
    ASSUME BrowseInv, NEW q \in Readers, Browsing!Finish(q) PROVE BrowseInv' /\ Browsing!AnswerFits
<1> DEFINE view == reader[q].view
           listed == reader[q].got
           cache == Browsing!Loaded(listed, view)
<1>1. /\ view \in Browsing!Views /\ listed \in Nat /\ (view = "fallback" => hasFallback)
      /\ Browsing!Serve(q, view, cache) /\ UNCHANGED <<hour, version, hasFallback, stored>>
  BY DEF BrowseInv, BrowseTyped, Reading, Browsing!Finish
<1> HIDE DEF view, listed
<1>2. /\ cache \in [Browsing!Entries -> Cache] /\ Fitting(cache)
      /\ view # "fallback" => cache["items"].until > 0 /\ cache["derived"].until > 0
  BY <1>1, LoadedFits
<1> QED BY <1>1, <1>2, ServeFits

\* The tables change, the clock ticks or an entry goes: nobody is answered.
LEMMA AroundFits ==
    ASSUME BrowseInv,
           \/ Browsing!Rebuild \/ Browsing!Upsert \/ Browsing!Tick
           \/ \E e \in Browsing!Entries : Browsing!Evict(e)
    PROVE  BrowseInv' /\ Browsing!AnswerFits
<1>1. BrowseTyped /\ Fitting(browseLocal) /\ UNCHANGED <<hasFallback, reader>>
  BY DEF BrowseInv, Browsing!Rebuild, Browsing!Upsert, Browsing!Tick, Browsing!Evict
<1>2. \A q \in Readers : reader[q].view = "fallback" => hasFallback
  BY DEF BrowseInv
<1>3. BrowseTyped' /\ Fitting(browseLocal)'
  <2>1. CASE Browsing!Rebuild \/ Browsing!Upsert
    <3>1. UNCHANGED <<hour, browseLocal>> /\ version' = version + 1
          /\ stored' \in {stored, [val |-> 0, until |-> 0]}
      BY <2>1 DEF Browsing!Rebuild, Browsing!Upsert
    <3> QED BY <1>1, <3>1 DEF BrowseTyped, Fitting
  <2>2. CASE Browsing!Tick
    BY <1>1, <2>2 DEF BrowseTyped, Fitting, Browsing!Tick
  <2>3. ASSUME NEW e \in Browsing!Entries, Browsing!Evict(e)
        PROVE  BrowseTyped' /\ Fitting(browseLocal)'
    <3>1. /\ browseLocal' = [browseLocal EXCEPT ![e] = Browsing!NoEntry]
          /\ UNCHANGED <<hour, version, stored>>
      BY <2>3 DEF Browsing!Evict
    <3>2. Browsing!NoEntry \in Cache /\ Browsing!NoEntry.until = 0
      BY DEF Browsing!NoEntry, Cache
    <3>3. /\ browseLocal' \in [Browsing!Entries -> Cache]
          /\ \A f \in Browsing!Entries :
                browseLocal'[f] = browseLocal[f] \/ browseLocal'[f].until = 0
      BY <1>1, <3>1, <3>2 DEF BrowseTyped
    <3>4. BrowseTyped'
      BY <1>1, <3>1, <3>3 DEF BrowseTyped
    <3>5. Fitting(browseLocal)'
      BY <1>1, <3>3 DEF Fitting, Browsing!Entries
    <3> QED BY <3>4, <3>5
  <2> QED BY <2>1, <2>2, <2>3
<1> QED BY <1>1, <1>2, <1>3, SilentStep

LEMMA BrowseStep ==
    BrowseInv /\ [Browsing!Next]_browseVars => BrowseInv' /\ [Browsing!AnswerFits]_browseVars
<1> SUFFICES ASSUME BrowseInv, [Browsing!Next]_browseVars
             PROVE  BrowseInv' /\ [Browsing!AnswerFits]_browseVars
  OBVIOUS
<1>1. CASE UNCHANGED browseVars
  BY <1>1 DEF browseVars, BrowseInv, BrowseTyped, Fitting
<1>2. CASE Browsing!Next
  <2>1. BrowseInv' /\ Browsing!AnswerFits
    BY <1>2, AskFits, LoadFits, FinishFits, AroundFits DEF Browsing!Next
  <2> QED BY <2>1
<1> QED BY <1>1, <1>2

\* Versions and expiries of the browse caches, within the bounds of the tables and of the clock.
Cells == [items : 0..LastVersion, derived : 0..LastVersion, until : 0..(LastHour + LocalLife)]
Asking == [view : Browsing!Views, at : {"idle", "api", "build", "store", "finish"},
           got : 0..LastVersion, answer : [items : 0..LastVersion, derived : 0..LastVersion]]
HubsTyped ==
    /\ hour \in 1..LastHour /\ version \in 0..LastVersion /\ hasFallback \in BOOLEAN
    /\ stored \in [val : 0..LastVersion, until : 0..(LastHour + StoredLife)]
    /\ browseLocal \in [Browsing!Entries -> Cells] /\ reader \in [Readers -> Asking]

LEMMA HubsTypes == HubsTyped => Browsing!TypeOK
  BY DEF HubsTyped, Cells, Asking, Browsing!TypeOK

LEMMA HubsInit == Browsing!Init => HubsTyped
<1> SUFFICES ASSUME Browsing!Init PROVE HubsTyped
  OBVIOUS
<1>1. 0 \in 0..LastVersion /\ 0 \in 0..(LastHour + LocalLife) /\ 0 \in 0..(LastHour + StoredLife)
      /\ 1 \in 1..LastHour
  OBVIOUS
<1>2. Browsing!NoEntry \in Cells /\ [val |-> 0, until |-> 0] \in [val : 0..LastVersion, until : 0..(LastHour + StoredLife)]
  BY <1>1 DEF Browsing!NoEntry, Cells
<1>3. [view |-> "whole", at |-> "idle", got |-> 0, answer |-> Browsing!Nothing] \in Asking
  BY <1>1 DEF Asking, Browsing!Views, Browsing!Nothing
<1> QED BY <1>1, <1>2, <1>3 DEF Browsing!Init, HubsTyped

LEMMA EntryTyped ==
    ASSUME HubsTyped, NEW i \in 0..LastVersion, NEW d \in 0..LastVersion
    PROVE  Browsing!Entry(i, d) \in Cells
<1>1. hour + LocalLife \in 0..(LastHour + LocalLife)
  BY DEF HubsTyped
<1> QED BY <1>1 DEF Browsing!Entry, Cells

LEMMA LoadedTyped ==
    ASSUME HubsTyped, NEW i \in 0..LastVersion, NEW view \in Browsing!Views
    PROVE  Browsing!Loaded(i, view) \in [Browsing!Entries -> Cells]
<1>1. 0 \in 0..LastVersion /\ 0 \in 0..(LastHour + LocalLife)
  OBVIOUS
<1>2. Browsing!Entry(i, 0) \in Cells /\ Browsing!Entry(0, i) \in Cells /\ Browsing!NoEntry \in Cells
  BY <1>1, EntryTyped DEF Browsing!NoEntry, Cells
<1>3. browseLocal \in [Browsing!Entries -> Cells]
  BY DEF HubsTyped
<1> QED BY <1>2, <1>3 DEF Browsing!Loaded

LEMMA ServeTyped ==
    ASSUME HubsTyped, NEW q \in Readers, NEW view \in Browsing!Views,
           NEW cache \in [Browsing!Entries -> Cells], Browsing!Serve(q, view, cache),
           UNCHANGED <<hour, version, hasFallback, stored>>
    PROVE  HubsTyped'
<1> DEFINE pair == [items |-> cache["items"].items, derived |-> cache["derived"].derived]
           memo == [items |-> cache["body"].items, derived |-> cache["body"].derived]
           answer == CASE view = "whole" /\ cache["body"].until > hour -> memo
                       [] view = "fallback" -> Browsing!Nothing
                       [] OTHER -> pair
           r == [view |-> view, at |-> "idle", got |-> 0, answer |-> answer]
<1>1. cache["items"] \in Cells /\ cache["derived"] \in Cells /\ cache["body"] \in Cells
      /\ 0 \in 0..LastVersion
  BY DEF Browsing!Entries
<1>2. /\ pair \in [items : 0..LastVersion, derived : 0..LastVersion]
      /\ memo \in [items : 0..LastVersion, derived : 0..LastVersion]
      /\ Browsing!Nothing \in [items : 0..LastVersion, derived : 0..LastVersion]
  BY <1>1 DEF Cells, Browsing!Nothing
<1>3. Browsing!Entry(pair.items, pair.derived) \in Cells
  BY <1>2, EntryTyped
<1>4. browseLocal' \in [Browsing!Entries -> Cells]
  <2>1. browseLocal' \in {cache, [cache EXCEPT !["body"] = Browsing!Entry(pair.items, pair.derived)]}
    BY DEF Browsing!Serve
  <2> QED BY <1>3, <2>1
<1>5. answer \in [items : 0..LastVersion, derived : 0..LastVersion]
  BY <1>2
<1>6. reader' = [reader EXCEPT ![q] = r]
  BY DEF Browsing!Serve
<1> HIDE DEF answer
<1>7. r \in Asking
  BY <1>1, <1>5 DEF Asking
<1> HIDE DEF r
<1> QED BY <1>4, <1>6, <1>7 DEF HubsTyped

\* A request goes on, and perhaps what is stored is replaced.
LEMMA OnwardsTyped ==
    ASSUME HubsTyped, NEW q \in Readers, NEW stage \in {"build", "store", "finish"},
           NEW listed \in 0..LastVersion,
           reader' = [reader EXCEPT ![q] = [reader[q] EXCEPT !.at = stage, !.got = listed]],
           UNCHANGED <<hour, version, hasFallback, browseLocal>>,
           stored' \in [val : 0..LastVersion, until : 0..(LastHour + StoredLife)]
    PROVE  HubsTyped'
<1> DEFINE r == [reader[q] EXCEPT !.at = stage, !.got = listed]
<1>1. reader[q] \in Asking
  BY DEF HubsTyped
<1>2. r \in Asking
  BY <1>1, ZenonT(40) DEF Asking
<1>3. reader' = [reader EXCEPT ![q] = r]
  OBVIOUS
<1> HIDE DEF r
<1> QED BY <1>2, <1>3 DEF HubsTyped

LEMMA HubsStep == ASSUME HubsTyped, [Browsing!Next]_browseVars PROVE HubsTyped'
<1>1. /\ hour \in 1..LastHour /\ version \in 0..LastVersion /\ reader \in [Readers -> Asking]
      /\ stored \in [val : 0..LastVersion, until : 0..(LastHour + StoredLife)]
      /\ browseLocal \in [Browsing!Entries -> Cells] /\ 0 \in 0..LastVersion
  BY DEF HubsTyped
<1>2. CASE UNCHANGED browseVars
  BY <1>2 DEF browseVars, HubsTyped
<1>3. ASSUME NEW q \in Readers, NEW view \in Browsing!Views, Browsing!Ask(q, view) PROVE HubsTyped'
  <2>1. UNCHANGED <<hour, version, hasFallback, stored>> /\ browseLocal["items"] \in Cells
    BY <1>1, <1>3 DEF Browsing!Ask, Browsing!Entries
  <2>2. CASE Browsing!Serve(q, view, browseLocal)
    BY <1>1, <2>1, <2>2, ServeTyped
  <2>3. CASE Browsing!Serve(q, view, [Browsing!Loaded(browseLocal["items"].items, view)
                                          EXCEPT !["items"] = browseLocal["items"]])
    <3> DEFINE loaded == Browsing!Loaded(browseLocal["items"].items, view)
               cache == [loaded EXCEPT !["items"] = browseLocal["items"]]
    <3>1. loaded \in [Browsing!Entries -> Cells]
      BY <2>1, LoadedTyped DEF Cells
    <3> HIDE DEF loaded
    <3>2. cache \in [Browsing!Entries -> Cells] /\ Browsing!Serve(q, view, cache)
      BY <2>1, <2>3, <3>1 DEF loaded
    <3> HIDE DEF cache
    <3> QED BY <2>1, <3>2, ServeTyped
  <2>4. CASE /\ reader' = [reader EXCEPT ![q] = [view |-> view, at |-> "api", got |-> 0, answer |-> Browsing!Nothing]]
             /\ UNCHANGED browseLocal
    <3> DEFINE r == [view |-> view, at |-> "api", got |-> 0, answer |-> Browsing!Nothing]
    <3>1. r \in Asking /\ reader' = [reader EXCEPT ![q] = r]
      BY <1>1, <2>4 DEF Asking, Browsing!Nothing
    <3> HIDE DEF r
    <3> QED BY <2>1, <2>4, <3>1 DEF HubsTyped
  <2> QED BY <1>3, <2>2, <2>3, <2>4 DEF Browsing!Ask
<1>4. ASSUME NEW q \in Readers, Browsing!Build(q) PROVE HubsTyped'
  <2> DEFINE stage == IF version = 0 THEN "finish" ELSE "store"
  <2>1. /\ reader' = [reader EXCEPT ![q] = [reader[q] EXCEPT !.at = stage, !.got = version]]
        /\ UNCHANGED <<hour, version, hasFallback, browseLocal, stored>>
    BY <1>1, <1>4 DEF Browsing!Build
  <2> QED BY <1>1, <2>1, OnwardsTyped
<1>5. ASSUME NEW q \in Readers, NEW ok \in BOOLEAN, Browsing!ReadStored(q, ok) PROVE HubsTyped'
  <2> DEFINE hit == ok /\ stored.until > hour
             stage == IF hit THEN "finish" ELSE "build"
             listed == IF hit THEN stored.val ELSE 0
  <2>1. /\ reader' = [reader EXCEPT ![q] = [reader[q] EXCEPT !.at = stage, !.got = listed]]
        /\ UNCHANGED <<hour, version, hasFallback, browseLocal, stored>>
    BY <1>1, <1>5 DEF Browsing!ReadStored
  <2>2. stage \in {"build", "store", "finish"} /\ listed \in 0..LastVersion
    BY <1>1
  <2> QED BY <1>1, <2>1, <2>2, OnwardsTyped
<1>6. ASSUME NEW q \in Readers, NEW ok \in BOOLEAN, Browsing!Store(q, ok) PROVE HubsTyped'
  <2> DEFINE listed == reader[q].got
  <2>1. reader' = [reader EXCEPT ![q].at = "finish"] /\ UNCHANGED <<hour, version, hasFallback, browseLocal>>
    BY <1>6 DEF Browsing!Store
  <2>2. reader[q] \in Asking /\ listed \in 0..LastVersion
    BY <1>1 DEF Asking
  <2>3. [reader[q] EXCEPT !.at = "finish"] = [reader[q] EXCEPT !.at = "finish", !.got = listed]
    BY <2>2 DEF Asking
  <2>4. reader' = [reader EXCEPT ![q] = [reader[q] EXCEPT !.at = "finish", !.got = listed]]
    BY <1>1, <2>1, <2>3
  <2>5. hour + StoredLife \in 0..(LastHour + StoredLife)
    BY <1>1
  <2>6. stored' \in [val : 0..LastVersion, until : 0..(LastHour + StoredLife)]
    BY <1>1, <1>6, <2>2, <2>5 DEF Browsing!Store
  <2> QED BY <2>1, <2>2, <2>4, <2>6, OnwardsTyped
<1>7. ASSUME NEW q \in Readers, Browsing!Finish(q) PROVE HubsTyped'
  <2> DEFINE view == reader[q].view
             listed == reader[q].got
  <2>1. view \in Browsing!Views /\ listed \in 0..LastVersion
    BY <1>1 DEF Asking
  <2>2. /\ Browsing!Serve(q, view, Browsing!Loaded(listed, view))
        /\ UNCHANGED <<hour, version, hasFallback, stored>>
    BY <1>7 DEF Browsing!Finish
  <2> HIDE DEF view, listed
  <2>3. Browsing!Loaded(listed, view) \in [Browsing!Entries -> Cells]
    BY <2>1, LoadedTyped
  <2> QED BY <2>1, <2>2, <2>3, ServeTyped
<1>8. CASE Browsing!Rebuild \/ Browsing!Upsert \/ Browsing!Tick
  <2>1. UNCHANGED <<hasFallback, browseLocal, reader>>
    BY <1>8 DEF Browsing!Rebuild, Browsing!Upsert, Browsing!Tick
  <2>2. hour' \in 1..LastHour /\ version' \in 0..LastVersion
    BY <1>1, <1>8 DEF Browsing!Rebuild, Browsing!Upsert, Browsing!Tick
  <2>3. stored' = stored \/ stored' = [val |-> 0, until |-> 0]
    BY <1>8 DEF Browsing!Rebuild, Browsing!Upsert, Browsing!Tick
  <2>4. stored' \in [val : 0..LastVersion, until : 0..(LastHour + StoredLife)]
    BY <1>1, <2>3
  <2> QED BY <2>1, <2>2, <2>4 DEF HubsTyped
<1>9. ASSUME NEW e \in Browsing!Entries, Browsing!Evict(e) PROVE HubsTyped'
  <2>1. Browsing!NoEntry \in Cells
    BY <1>1 DEF Browsing!NoEntry, Cells
  <2>2. browseLocal' \in [Browsing!Entries -> Cells]
    BY <1>1, <1>9, <2>1 DEF Browsing!Evict
  <2> QED BY <1>9, <2>2 DEF HubsTyped, Browsing!Evict
<1> QED BY <1>2, <1>3, <1>4, <1>5, <1>6, <1>7, <1>8, <1>9 DEF Browsing!Next

-----------------------------------------------------------------------------
(* The list of supporters.                                                 *)

USE PaymentsAssumption

\* What this replica has answered for is in the ledger, at a time that has come.
LedgerHolds ==
    /\ tick \in Nat /\ generation \in Nat
    /\ \A i \in DOMAIN ledger : ledger[i] \in Payments /\ ledger[i].at <= tick
    /\ \A p \in announced : p \in Payments /\ Fans!Id(p) \in DOMAIN ledger /\ ledger[Fans!Id(p)] = p

\* Whoever paid is in a list, with a payment that is as late.
Lists(list, p) ==
    Fans!Key(p) \in DOMAIN list /\ list[Fans!Key(p)].last \in Nat /\ list[Fans!Key(p)].last >= p.at
ListsAll(list) == \A p \in announced \ posting : p.public => Lists(list, p)

\* A list that may be stored, its generation being the replica's, or that is held, has them all.
Viewing(lists) == [at : {"idle", "query", "store"}, generation : Nat, list : lists]
ViewersHold ==
    /\ viewer = [v \in Viewers |-> viewer[v]]
    /\ \A v \in Viewers :
          /\ viewer[v] \in Viewing({viewer[v].list}) /\ viewer[v].generation <= generation
          /\ viewer[v].at = "store" /\ viewer[v].generation = generation => ListsAll(viewer[v].list)

FansInv == LedgerHolds /\ ViewersHold /\ (rows.held => ListsAll(rows.list))

\* The greatest of a bounded set of numbers is in it.
LEMMA Greatest ==
    ASSUME NEW S \in SUBSET Nat, S # {}, NEW n \in Nat, \A x \in S : x <= n
    PROVE  Fans!Max(S) \in S /\ \A x \in S : x <= Fans!Max(S)
<1> DEFINE gaps == {n - x : x \in S}
<1>1. gaps \in SUBSET Nat /\ gaps # {}
  OBVIOUS
<1>2. PICK y \in gaps : \A z \in gaps : y <= z
  BY <1>1, Least
<1>3. PICK x \in S : y = n - x
  BY <1>2
<1>4. ASSUME NEW w \in S PROVE w <= x
  <2>1. n - w \in gaps
    OBVIOUS
  <2>2. n - x <= n - w
    BY <1>2, <1>3, <2>1
  <2> QED BY <2>2
<1>5. \A w \in S : x >= w
  BY <1>4
<1>6. Fans!Max(S) \in S /\ \A w \in S : Fans!Max(S) >= w
  BY <1>5 DEF Fans!Max
<1> QED BY <1>6

LEMMA FansInit == Fans!Init => FansInv
  BY DEF Fans!Init, FansInv, LedgerHolds, ViewersHold, Viewing, ListsAll, Fans!Nothing

\* What is aggregated from the ledger has whoever was answered for.
LEMMA AggregatedLists == ASSUME LedgerHolds PROVE ListsAll(Fans!Aggregated)
<1> SUFFICES ASSUME NEW p \in announced, p.public PROVE Lists(Fans!Aggregated, p)
  BY DEF ListsAll
<1> DEFINE public == {i \in DOMAIN ledger : ledger[i].public}
           key == Fans!Key(p)
           Of(k) == {i \in public : Fans!Key(ledger[i]) = k}
           times == {ledger[i].at : i \in Of(key)}
<1>1. /\ Fans!Id(p) \in public /\ ledger[Fans!Id(p)] = p /\ p.at \in Nat
      /\ \A i \in public : ledger[i].at \in Nat /\ ledger[i].at <= tick
      /\ tick \in Nat
  BY DEF LedgerHolds
<1>2. Fans!Id(p) \in Of(key)
  BY <1>1
<1>3. times \in SUBSET Nat /\ p.at \in times /\ \A x \in times : x <= tick
  BY <1>1, <1>2
<1>4. Fans!Max(times) \in times /\ p.at <= Fans!Max(times)
  <2> HIDE DEF times
  <2> QED BY <1>1, <1>3, Greatest
<1>5. key \in {Fans!Key(ledger[i]) : i \in public}
  BY <1>1
<1>6. /\ DOMAIN Fans!Aggregated = {Fans!Key(ledger[i]) : i \in public}
      /\ Fans!Aggregated[key].last = Fans!Max(times)
  BY <1>5 DEF Fans!Aggregated
<1> QED BY <1>1, <1>3, <1>4, <1>5, <1>6 DEF Lists

LEMMA RecordLists ==
    ASSUME FansInv, NEW p \in Payments, NEW here \in BOOLEAN, Fans!Record(p, here) PROVE FansInv'
<1> DEFINE retry == Fans!Id(p) \in DOMAIN ledger
<1>1. /\ p.at <= tick /\ UNCHANGED <<rows, generation, viewer, tick>>
      /\ LedgerHolds /\ ViewersHold /\ (rows.held => ListsAll(rows.list))
  BY DEF FansInv, Fans!Record
<1>2. CASE retry
  <2>1. UNCHANGED <<ledger, posting, announced>>
    BY <1>2 DEF Fans!Record
  <2> QED BY <1>1, <2>1 DEF FansInv, LedgerHolds, ViewersHold, ListsAll, Lists
<1>3. CASE ~retry
  <2>1. /\ ledger' = [i \in DOMAIN ledger \cup {Fans!Id(p)} |-> IF i = Fans!Id(p) THEN p ELSE ledger[i]]
        /\ announced' \subseteq announced \cup {p}
        /\ announced' \ posting' \subseteq announced \ posting
    BY <1>3 DEF Fans!Record
  <2>2. LedgerHolds'
    BY <1>1, <1>3, <2>1 DEF LedgerHolds
  <2>3. \A list : ListsAll(list) => \A q \in announced' \ posting' : q.public => Lists(list, q)
    BY <2>1 DEF ListsAll
  <2> QED BY <1>1, <2>2, <2>3 DEF FansInv, ViewersHold, ListsAll, Lists
<1> QED BY <1>2, <1>3

\* No list read before an invalidation is of the generation after it.
LEMMA InvalidateLists == ASSUME FansInv, NEW p \in Payments, Fans!Invalidate(p) PROVE FansInv'
<1>1. /\ generation' = generation + 1 /\ rows' = Fans!Nothing /\ UNCHANGED <<ledger, announced, viewer, tick>>
      /\ LedgerHolds /\ ViewersHold
  BY DEF FansInv, Fans!Invalidate
<1>2. ~rows'.held
  BY <1>1 DEF Fans!Nothing
<1>3. \A v \in Viewers : viewer[v].generation \in Nat /\ viewer[v].generation <= generation
  BY <1>1 DEF ViewersHold, Viewing
<1>4. LedgerHolds'
  BY <1>1 DEF LedgerHolds
<1>5. \A v \in Viewers : viewer[v].generation # generation' /\ viewer[v].generation <= generation'
  BY <1>1, <1>3 DEF LedgerHolds
<1>6. ViewersHold'
  BY <1>1, <1>5 DEF ViewersHold
<1> QED BY <1>2, <1>4, <1>6 DEF FansInv

\* One viewer goes on.
LEMMA OneViews ==
    ASSUME FansInv, NEW v \in Viewers, NEW r, r \in Viewing({r.list}), r.generation <= generation,
           viewer' = [viewer EXCEPT ![v] = r],
           UNCHANGED <<ledger, posting, announced, generation, tick>>,
           r.at = "store" /\ r.generation = generation => ListsAll(r.list)
    PROVE  LedgerHolds' /\ ViewersHold'
<1>1. LedgerHolds /\ ViewersHold
  BY DEF FansInv
<1>2. LedgerHolds'
  BY <1>1 DEF LedgerHolds
<1>3. viewer = [w \in Viewers |-> viewer[w]]
  BY <1>1 DEF ViewersHold
<1>4. viewer' = [w \in Viewers |-> IF w = v THEN r ELSE viewer[w]]
  BY <1>3
<1>5. viewer' = [w \in Viewers |-> viewer'[w]] /\ viewer'[v] = r /\ \A w \in Viewers \ {v} : viewer'[w] = viewer[w]
  BY <1>4
<1>6. ASSUME NEW w \in Viewers
      PROVE  /\ viewer'[w] \in Viewing({viewer'[w].list}) /\ viewer'[w].generation <= generation
             /\ viewer'[w].at = "store" /\ viewer'[w].generation = generation => ListsAll(viewer'[w].list)
  BY <1>1, <1>5 DEF ViewersHold
<1>7. ViewersHold'
  BY <1>5, <1>6 DEF ViewersHold, ListsAll, Lists
<1> QED BY <1>2, <1>7

LEMMA ViewLists ==
    ASSUME FansInv, NEW v \in Viewers, Fans!Look(v) \/ Fans!Query(v) \/ Fans!Store(v) PROVE FansInv'
<1>1. /\ UNCHANGED <<ledger, posting, announced, generation, tick>> /\ LedgerHolds /\ ViewersHold
      /\ rows.held => ListsAll(rows.list)
  BY DEF FansInv, Fans!Look, Fans!Query, Fans!Store
<1>2. /\ viewer = [w \in Viewers |-> viewer[w]] /\ generation \in Nat
      /\ viewer[v] \in Viewing({viewer[v].list}) /\ viewer[v].generation <= generation
  BY <1>1 DEF ViewersHold, LedgerHolds
<1>3. ASSUME rows'.held => ListsAll(rows'.list), LedgerHolds', ViewersHold' PROVE FansInv'
  BY <1>1, <1>3 DEF FansInv, ListsAll, Lists
<1>4. CASE Fans!Look(v)
  <2> DEFINE r == [viewer[v] EXCEPT !.at = "query", !.generation = generation]
  <2>1. viewer' = [viewer EXCEPT ![v] = r] /\ rows' = rows
    BY <1>4 DEF Fans!Look
  <2>2. r \in Viewing({r.list}) /\ r.generation = generation /\ r.at = "query"
    BY <1>2 DEF Viewing
  <2> HIDE DEF r
  <2>3. LedgerHolds' /\ ViewersHold'
    BY <1>1, <1>2, <2>1, <2>2, OneViews
  <2> QED BY <1>1, <1>3, <2>1, <2>3
<1>5. CASE Fans!Query(v)
  <2> DEFINE r == [viewer[v] EXCEPT !.at = "store", !.list = Fans!Aggregated]
  <2>1. viewer' = [viewer EXCEPT ![v] = r] /\ rows' = rows
    BY <1>2, <1>5 DEF Fans!Query
  <2>2. r \in Viewing({r.list}) /\ r.generation = viewer[v].generation /\ r.list = Fans!Aggregated
    BY <1>2 DEF Viewing
  <2> HIDE DEF r
  <2>3. LedgerHolds' /\ ViewersHold'
    BY <1>1, <1>2, <2>1, <2>2, OneViews, AggregatedLists
  <2> QED BY <1>1, <1>3, <2>1, <2>3
<1>6. CASE Fans!Store(v)
  <2> DEFINE r == [at |-> "idle", generation |-> 0, list |-> Fans!NoList]
  <2>1. /\ viewer' = [viewer EXCEPT ![v] = r] /\ viewer[v].at = "store"
        /\ rows' = IF viewer[v].generation = generation
                   THEN [list |-> viewer[v].list, at |-> tick, held |-> TRUE] ELSE rows
    BY <1>6 DEF Fans!Store
  <2>2. r \in Viewing({r.list}) /\ r.generation = 0 /\ r.at = "idle"
    BY DEF Viewing
  <2> HIDE DEF r
  <2>3. LedgerHolds' /\ ViewersHold'
    BY <1>1, <1>2, <2>1, <2>2, OneViews
  <2>4. rows'.held => ListsAll(rows'.list)
    BY <1>1, <2>1 DEF ViewersHold
  <2> QED BY <1>3, <2>3, <2>4
<1> QED BY <1>4, <1>5, <1>6

LEMMA FansStep == FansInv /\ [Fans!Next]_supportersVars => FansInv'
<1> SUFFICES ASSUME FansInv, [Fans!Next]_supportersVars PROVE FansInv'
  OBVIOUS
<1>1. CASE UNCHANGED supportersVars
  BY <1>1 DEF supportersVars, FansInv, LedgerHolds, ViewersHold, ListsAll, Lists
<1>2. CASE Fans!Tick
  BY <1>2 DEF Fans!Tick, FansInv, LedgerHolds, ViewersHold, ListsAll, Lists
<1>3. CASE Fans!Next /\ ~Fans!Tick
  BY <1>3, RecordLists, InvalidateLists, ViewLists DEF Fans!Next
<1> QED BY <1>1, <1>2, <1>3

LEMMA FansSafe == FansInv => Fans!PayersAreListed
<1> SUFFICES ASSUME FansInv, rows.held, NEW p \in announced \ posting, p.public
             PROVE  /\ Fans!Key(p) \in DOMAIN rows.list
                    /\ p.at >= tick - Window => Fans!Key(p) \in Fans!Active(rows.list)
  BY DEF Fans!PayersAreListed
<1>1. Lists(rows.list, p) /\ p.at \in Nat /\ tick \in Nat /\ Window \in Nat
  BY DEF FansInv, ListsAll, LedgerHolds
<1> QED BY <1>1 DEF Lists, Fans!Active

\* What has been invalidated and what has yet to be are payments that were announced.
FansTyped ==
    /\ FansInv
    /\ \A i \in DOMAIN ledger : Fans!Id(ledger[i]) = i
    /\ posting \subseteq announced /\ announced \subseteq Payments
    /\ generation + Cardinality(posting) <= Cardinality(announced)
    /\ rows.held \in BOOLEAN /\ rows.at \in 0..tick /\ tick <= LastTick

\* Announced payments are finitely many.
LEMMA PaymentsCount ==
    ASSUME NEW S \in SUBSET Payments
    PROVE  /\ IsFiniteSet(S) /\ Cardinality(S) \in Nat /\ Cardinality(S) <= Cardinality(Payments)
           /\ \A p \in Payments : Cardinality(S \cup {p}) = Cardinality(S) + (IF p \in S THEN 0 ELSE 1)
           /\ \A p \in S : Cardinality(S \ {p}) = Cardinality(S) - 1
<1>1. IsFiniteSet(S)
  BY FS_Subset
<1>2. Cardinality(S) \in Nat /\ Cardinality(S) <= Cardinality(Payments)
  BY <1>1, FS_CardinalityType, FS_Subset
<1>3. \A p \in Payments : Cardinality(S \cup {p}) = Cardinality(S) + (IF p \in S THEN 0 ELSE 1)
  <2>1. ASSUME NEW p \in S PROVE S \cup {p} = S
    OBVIOUS
  <2>2. ASSUME NEW p, p \notin S PROVE Cardinality(S \cup {p}) = Cardinality(S) + 1
    BY <1>1, <2>2, FS_AddElement
  <2>3. ASSUME NEW p \in Payments
        PROVE  Cardinality(S \cup {p}) = Cardinality(S) + (IF p \in S THEN 0 ELSE 1)
    <3>1. CASE p \in S
      <4>1. Cardinality(S \cup {p}) = Cardinality(S)
        BY <2>1, <3>1, Zenon
      <4> QED BY <1>2, <3>1, <4>1
    <3>2. CASE p \notin S
      BY <1>2, <2>2, <3>2
    <3> QED BY <3>1, <3>2
  <2> QED BY <2>3
<1>4. \A p \in S : Cardinality(S \ {p}) = Cardinality(S) - 1
  BY <1>1, <1>2, FS_RemoveElement
<1> QED BY <1>1, <1>2, <1>3, <1>4

LEMMA FansTypedInit == Fans!Init => FansTyped
<1> SUFFICES ASSUME Fans!Init PROVE FansTyped
  OBVIOUS
<1>1. FansInv
  BY FansInit
<1>2. posting = {} /\ announced = {} /\ generation = 0 /\ tick = 0 /\ rows = Fans!Nothing
      /\ DOMAIN ledger = {}
  BY DEF Fans!Init
<1>3. Cardinality(posting) = 0 /\ Cardinality(announced) = 0
  BY <1>2, FS_EmptySet
<1> QED BY <1>1, <1>2, <1>3 DEF FansTyped, Fans!Nothing

LEMMA FansTypedStep == ASSUME FansTyped, [Fans!Next]_supportersVars PROVE FansTyped'
<1>1. /\ FansInv' /\ FansInv /\ tick \in Nat /\ generation \in Nat
      /\ posting \in SUBSET Payments /\ announced \in SUBSET Payments
  BY FansStep DEF FansTyped, FansInv, LedgerHolds
<1>2. CASE UNCHANGED supportersVars
  BY <1>1, <1>2 DEF supportersVars, FansTyped
<1>3. CASE Fans!Tick
  BY <1>1, <1>3 DEF Fans!Tick, FansTyped
<1>4. ASSUME NEW p \in Payments, NEW here \in BOOLEAN, Fans!Record(p, here) PROVE FansTyped'
  <2>1. UNCHANGED <<rows, generation, tick>>
    BY <1>4 DEF Fans!Record
  <2>2. CASE Fans!Id(p) \in DOMAIN ledger
    <3>1. UNCHANGED <<ledger, posting, announced>>
      BY <1>4, <2>2 DEF Fans!Record
    <3> QED BY <1>1, <2>1, <3>1 DEF FansTyped
  <2>3. CASE Fans!Id(p) \notin DOMAIN ledger
    <3>1. /\ ledger' = [i \in DOMAIN ledger \cup {Fans!Id(p)} |-> IF i = Fans!Id(p) THEN p ELSE ledger[i]]
          /\ \/ UNCHANGED <<posting, announced>>
             \/ posting' = posting \cup {p} /\ announced' = announced \cup {p}
      BY <1>4, <2>3 DEF Fans!Record
    <3>2. p \notin announced /\ p \notin posting
      BY <1>1, <2>3 DEF FansInv, LedgerHolds, FansTyped
    <3>3. \A i \in DOMAIN ledger' : Fans!Id(ledger'[i]) = i
      BY <3>1 DEF FansTyped
    <3>4. generation' + Cardinality(posting') <= Cardinality(announced')
      BY <1>1, <2>1, <3>1, <3>2, PaymentsCount DEF FansTyped
    <3>5. posting' \subseteq announced' /\ announced' \subseteq Payments
      BY <1>1, <3>1 DEF FansTyped
    <3> QED BY <1>1, <2>1, <3>3, <3>4, <3>5 DEF FansTyped
  <2> QED BY <2>2, <2>3
<1>5. ASSUME NEW p \in Payments, Fans!Invalidate(p) PROVE FansTyped'
  <2>1. /\ p \in posting /\ posting' = posting \ {p} /\ generation' = generation + 1
        /\ rows' = Fans!Nothing /\ UNCHANGED <<ledger, announced, tick>>
    BY <1>5 DEF Fans!Invalidate
  <2>2. generation' + Cardinality(posting') <= Cardinality(announced')
    BY <1>1, <2>1, PaymentsCount DEF FansTyped
  <2>3. rows'.held \in BOOLEAN /\ rows'.at \in 0..tick'
    BY <1>1, <2>1 DEF Fans!Nothing
  <2> QED BY <1>1, <2>1, <2>2, <2>3 DEF FansTyped
<1>6. ASSUME NEW v \in Viewers, Fans!Look(v) \/ Fans!Query(v) \/ Fans!Store(v) PROVE FansTyped'
  <2>1. UNCHANGED <<ledger, posting, announced, generation, tick>>
    BY <1>6 DEF Fans!Look, Fans!Query, Fans!Store
  <2>2. rows' = rows \/ rows' = [list |-> viewer[v].list, at |-> tick, held |-> TRUE]
    BY <1>6 DEF Fans!Look, Fans!Query, Fans!Store
  <2>3. rows'.held \in BOOLEAN /\ rows'.at \in 0..tick
    <3>1. CASE rows' = rows
      BY <3>1 DEF FansTyped
    <3>2. CASE rows' = [list |-> viewer[v].list, at |-> tick, held |-> TRUE]
      BY <1>1, <3>2
    <3> QED BY <2>2, <3>1, <3>2
  <2> QED BY <1>1, <2>1, <2>3 DEF FansTyped
<1> QED BY <1>2, <1>3, <1>4, <1>5, <1>6 DEF Fans!Next

LEMMA FansTypes == FansTyped => Fans!TypeOK
<1> SUFFICES ASSUME FansTyped PROVE Fans!TypeOK
  OBVIOUS
<1>1. /\ LedgerHolds /\ ViewersHold /\ tick \in Nat /\ generation \in Nat
      /\ posting \in SUBSET Payments /\ announced \in SUBSET Payments
  BY DEF FansTyped, FansInv, LedgerHolds
<1>2. generation \in 0..Fans!Cardinality(Payments)
  <2>1. /\ Cardinality(posting) \in Nat /\ Cardinality(announced) \in Nat
        /\ Cardinality(announced) <= Cardinality(Payments)
    BY <1>1, PaymentsCount
  <2>2. generation + Cardinality(posting) <= Cardinality(announced)
    BY DEF FansTyped
  <2>3. Cardinality(Payments) \in Nat
    BY PaymentsCount
  <2>4. generation \in 0..Cardinality(Payments)
    BY <1>1, <2>1, <2>2, <2>3
  <2> QED BY <2>4 DEF Cardinality, Fans!Cardinality
<1>3. \A v \in Viewers : /\ viewer[v].at \in {"idle", "query", "store"}
                         /\ viewer[v].generation \in 0..generation
  BY <1>1 DEF ViewersHold, Viewing
<1>4. \A i \in DOMAIN ledger : ledger[i] \in Payments /\ Fans!Id(ledger[i]) = i
  BY <1>1 DEF LedgerHolds, FansTyped
<1> QED BY <1>1, <1>2, <1>3, <1>4 DEF FansTyped, Fans!TypeOK

-----------------------------------------------------------------------------
\* What a replica's caches say is recent (cache_engine/db.py, supporters_engine/service.py,
\* browse.py): for any threads, requests, viewers and payments, any lives of the entries and any
\* length of a call, settings are no older than their TTL and one call, whoever paid is in every
\* list that is served, and an answer's list, facets and body are of one version.
THEOREM RecentAnswers == AllSpec => CachesHold
<1> DEFINE Held == SettingsInv /\ FansInv /\ BrowseInv
           Step == [AllNext]_<<part, vars, mappingVars, maintainVars, browseVars, bootVars,
                               supportersVars, settingsVars, filingVars>>
<1>1. AllInit => Held
  BY SettingsInit, FansInit, BrowseInit DEF AllInit
<1>2. Held /\ Step => Held' /\ [Browsing!AnswerFits]_browseVars
  BY PartsAlone, SettingsStep, FansStep, BrowseStep
<1>3. Held => (part = "settings" => Settings!StoredIsRecent) /\ (part = "supporters" => Fans!PayersAreListed)
  BY SettingsSafe, FansSafe
<1>4. [Browsing!AnswerFits]_browseVars => [Browsing!AnswerFits]_Browsing!vars
  BY DEF browseVars, Browsing!vars
<1>5. AllSpec => [](Held /\ (part = "settings" => Settings!StoredIsRecent)
                         /\ (part = "supporters" => Fans!PayersAreListed))
                 /\ [][Browsing!AnswerFits]_Browsing!vars
  <2> HIDE DEF Held
  <2> QED BY <1>1, <1>2, <1>3, <1>4, PTL DEF AllSpec
<1> QED BY <1>5, PTL DEF CachesHold, Browsing!AnswersFit

-----------------------------------------------------------------------------
(* The rebuilds of the mapping.                                            *)

USE DataAssumption, EtagsAssumption DEF Mapping!DataAssumption, Mapping!StartAssumption

Marks == [slot : Slots, ver : Mapping!Versions, tx : Nat]
MappingTyped ==
    /\ upstream \in Mapping!Versions \ {0} /\ runs \in 0..MaxRuns /\ etag \in Mapping!Etag
    /\ rebuildPc \in [Rebuilders -> {"idle", "head", "get", "begin", "seasons", "between",
                                     "entries", "insert", "commit"}]
    /\ head \in [Rebuilders -> Mapping!Etag] /\ got \in [Rebuilders -> Mapping!Versions]
    /\ tx \in [Rebuilders -> Nat] /\ seen \in [Rebuilders -> SUBSET Marks]
    /\ gone \in [Rebuilders -> [seasons : SUBSET Marks, entries : SUBSET Marks]]
    /\ new \in [Rebuilders -> [seasons : SUBSET Marks, entries : SUBSET Marks]]

\* The tables hold one dataset, which run n filed.
Whole(v, n) ==
    /\ v \in Mapping!Versions /\ n \in 0..runs /\ (n = 0 => v = StartVersion)
    /\ seasons = Mapping!RowsOf(v, n) /\ entries = Mapping!RowsOf(v, n)

\* A run whose snapshot of the seasons went stale deletes none of them, and then cannot delete the
\* entries; any other has deleted all that is there.
RunHolds(r, v, n) ==
    /\ rebuildPc[r] # "idle" => tx[r] \in 1..runs /\ tx[r] # n
    /\ rebuildPc[r] = "get" /\ head[r] \in Mapping!Versions => head[r] <= upstream
    /\ rebuildPc[r] \notin {"idle", "head", "get"} =>
          got[r] # 0 /\ (head[r] \in Mapping!Versions => head[r] <= got[r])
    /\ rebuildPc[r] \in {"idle", "head", "get", "begin", "seasons"} => gone[r].seasons = {}
    /\ rebuildPc[r] = "seasons" =>
          seen[r] = seasons \/ (n > 0 /\ v > 0 /\ seen[r] \cap seasons = {})
    /\ rebuildPc[r] \in {"between", "entries"} =>
          gone[r].seasons = seasons \/ (n > 0 /\ v > 0 /\ gone[r].seasons = {})
    /\ rebuildPc[r] = "entries" => seen[r] = entries
    /\ rebuildPc[r] \in {"insert", "commit"} => gone[r].seasons = seasons /\ gone[r].entries = entries
    /\ rebuildPc[r] = "commit" => /\ new[r].seasons = Mapping!RowsOf(got[r], tx[r])
                                  /\ new[r].entries = Mapping!RowsOf(got[r], tx[r])

\* Of the runs under way, one at most has deleted seasons.
Apart ==
    \A r, o \in Rebuilders : r # o /\ rebuildPc[r] # "idle" /\ rebuildPc[o] # "idle" =>
        /\ tx[r] # tx[o]
        /\ gone[r].seasons = {} \/ gone[o].seasons = {}

Rebuilt(v, n) == Whole(v, n) /\ Apart /\ \A r \in Rebuilders : RunHolds(r, v, n)
MappingInv == MappingTyped /\ \E v \in Mapping!Versions, n \in Nat : Rebuilt(v, n)

\* At most two runs of a table that has rows, or any number of runs of one process: a third run
\* that commits within another's snapshot can leave rows of two datasets.
Overlapping == \/ StartVersion = 1 /\ MaxRuns <= 2
               \/ \A r, o \in Rebuilders : r = o

LEMMA RowsTyped ==
    ASSUME NEW v \in Mapping!Versions, NEW n \in Nat
    PROVE  /\ Mapping!RowsOf(v, n) \subseteq Marks /\ Data[v] \subseteq Slots
           /\ (v # 0 => Data[v] # {}) /\ (v = 0 => Data[v] = {})
           /\ \A x \in Mapping!RowsOf(v, n) : x.tx = n /\ x.ver = v
           /\ Mapping!SlotsOf(Mapping!RowsOf(v, n)) = Data[v]
<1>1. Data[v] \subseteq Slots /\ (v # 0 => Data[v] # {}) /\ (v = 0 => Data[v] = {})
  <2>1. v = 0 \/ v \in 1..MaxVersion
    BY SMTT(30) DEF Mapping!Versions
  <2>2. Data \in [Mapping!Versions -> SUBSET Slots]
    OBVIOUS
  <2>3. Data[v] \subseteq Slots
    BY <2>2
  <2> QED BY <2>1, <2>3
<1>2. Mapping!RowsOf(v, n) \subseteq Marks
  BY <1>1 DEF Mapping!RowsOf, Marks
<1>3. Mapping!SlotsOf(Mapping!RowsOf(v, n)) = Data[v]
  <2>1. ASSUME NEW s \in Data[v] PROVE s \in Mapping!SlotsOf(Mapping!RowsOf(v, n))
    <3>1. [slot |-> s, ver |-> v, tx |-> n] \in Mapping!RowsOf(v, n)
      BY DEF Mapping!RowsOf
    <3> QED BY <3>1 DEF Mapping!SlotsOf
  <2>2. ASSUME NEW s \in Mapping!SlotsOf(Mapping!RowsOf(v, n)) PROVE s \in Data[v]
    BY DEF Mapping!RowsOf, Mapping!SlotsOf
  <2> QED BY <2>1, <2>2
<1> QED BY <1>1, <1>2, <1>3 DEF Mapping!RowsOf

\* Readers see the dataset that the tables hold.
LEMMA ShownIs ==
    \A v \in Mapping!Versions, n \in Nat :
        seasons = Mapping!RowsOf(v, n) /\ entries = Mapping!RowsOf(v, n) => Mapping!Shown = v
<1> SUFFICES ASSUME NEW v \in Mapping!Versions, NEW n \in Nat,
                    seasons = Mapping!RowsOf(v, n), entries = Mapping!RowsOf(v, n)
             PROVE  Mapping!Shown = v
  OBVIOUS
<1> DEFINE pairs(R) == {<<x.slot, x.ver>> : x \in R}
<1>1. pairs(Mapping!RowsOf(v, n)) = Data[v] \X {v}
  <2>1. ASSUME NEW s \in Data[v] PROVE <<s, v>> \in pairs(Mapping!RowsOf(v, n))
    <3>1. [slot |-> s, ver |-> v, tx |-> n] \in Mapping!RowsOf(v, n)
      BY DEF Mapping!RowsOf
    <3> QED BY <3>1
  <2>2. ASSUME NEW x \in Mapping!RowsOf(v, n) PROVE <<x.slot, x.ver>> \in Data[v] \X {v}
    BY DEF Mapping!RowsOf
  <2> QED BY <2>1, <2>2
<1>2. v \in Mapping!Held
  BY <1>1 DEF Mapping!Held
<1>3. ASSUME NEW w \in Mapping!Held PROVE w = v
  <2>1. Data[v] \X {v} = Data[w] \X {w} /\ w \in Mapping!Versions
    BY <1>1 DEF Mapping!Held
  <2>2. CASE Data[v] = {}
    <3>1. ASSUME NEW s \in Data[w] PROVE FALSE
      <4>1. <<s, w>> \in Data[v] \X {v}
        BY <2>1
      <4> QED BY <2>2, <4>1
    <3>2. v = 0 /\ w = 0
      BY <2>1, <2>2, <3>1, RowsTyped
    <3> QED BY <3>2
  <2>3. CASE Data[v] # {}
    <3>1. PICK s : s \in Data[v]
      BY <2>3
    <3>2. <<s, v>> \in Data[w] \X {w}
      BY <2>1, <3>1
    <3> QED BY <3>2
  <2> QED BY <2>2, <2>3
<1> QED BY <1>2, <1>3 DEF Mapping!Shown

LEMMA ShownNext ==
    (\A v \in Mapping!Versions, n \in Nat :
        seasons = Mapping!RowsOf(v, n) /\ entries = Mapping!RowsOf(v, n) => Mapping!Shown = v)'
  BY ShownIs, PTL

LEMMA MappingInit == Mapping!Init => MappingInv
<1> SUFFICES ASSUME Mapping!Init PROVE MappingInv
  OBVIOUS
<1>1. StartVersion \in Mapping!Versions /\ 0 \in 0..runs /\ 0 \in Nat /\ runs = 0
  BY DEF Mapping!Init, Mapping!Versions
<1>2. Mapping!NoRows \in [seasons : SUBSET Marks, entries : SUBSET Marks] /\ Mapping!NoRows.seasons = {}
  BY DEF Mapping!NoRows
<1>3. MappingTyped
  <2>1. upstream \in Mapping!Versions \ {0} /\ 0 \in Mapping!Versions
    BY DEF Mapping!Init, Mapping!Versions
  <2>2. etag \in Mapping!Etag /\ NoEtag \in Mapping!Etag
    BY <1>1 DEF Mapping!Init, Mapping!Etag, Mapping!Guess
  <2> QED BY <1>1, <1>2, <2>1, <2>2 DEF Mapping!Init, MappingTyped
<1>4. Whole(StartVersion, 0)
  BY <1>1 DEF Mapping!Init, Whole
<1>5. \A r \in Rebuilders : rebuildPc[r] = "idle" /\ gone[r] = Mapping!NoRows
  BY DEF Mapping!Init
<1>6. Apart /\ \A r \in Rebuilders : RunHolds(r, StartVersion, 0)
  BY <1>2, <1>5 DEF Apart, RunHolds
<1> QED BY <1>1, <1>3, <1>4, <1>6 DEF MappingInv, Rebuilt

\* Two runs at once are the first two, and the table is the first one.
LEMMA TwoAtOnce ==
    ASSUME Overlapping, MappingTyped, NEW v \in Mapping!Versions, NEW n \in Nat, Rebuilt(v, n),
           NEW r \in Rebuilders, NEW o \in Rebuilders, r # o, rebuildPc[r] # "idle",
           rebuildPc[o] # "idle"
    PROVE  n = 0 /\ v = 1
<1>1. StartVersion = 1 /\ MaxRuns <= 2
  BY DEF Overlapping
<1>2. /\ tx[r] \in 1..runs /\ tx[o] \in 1..runs /\ tx[r] # tx[o] /\ tx[r] # n /\ tx[o] # n
      /\ n \in 0..runs /\ runs \in 0..MaxRuns /\ (n = 0 => v = StartVersion)
  BY DEF Rebuilt, RunHolds, Apart, Whole, MappingTyped
<1> QED BY <1>1, <1>2

\* Nothing of o's run changes.
Stays(o) == UNCHANGED <<rebuildPc[o], head[o], got[o], tx[o], seen[o], gone[o], new[o]>>

\* One run takes a step that commits nothing.
LEMMA RunGoes ==
    ASSUME MappingTyped', NEW v \in Mapping!Versions, NEW n \in Nat, Rebuilt(v, n),
           UNCHANGED <<seasons, entries>>, NEW r \in Rebuilders,
           upstream' = upstream, runs' \in {runs, runs + 1}, runs \in Nat,
           \A o \in Rebuilders \ {r} : Stays(o),
           RunHolds(r, v, n)',
           rebuildPc'[r] # "idle" => \A o \in Rebuilders \ {r} : rebuildPc[o] # "idle" =>
               tx'[r] # tx[o] /\ (gone'[r].seasons = {} \/ gone[o].seasons = {})
    PROVE  MappingInv'
<1>1. Whole(v, n)'
  BY DEF Rebuilt, Whole
<1>2. ASSUME NEW o \in Rebuilders PROVE RunHolds(o, v, n)'
  <2>1. CASE o = r
    BY <2>1
  <2>2. CASE o # r
    <3>1. RunHolds(o, v, n) /\ Stays(o)
      BY <2>2 DEF Rebuilt
    <3> QED BY <3>1 DEF RunHolds, Stays
  <2> QED BY <2>1, <2>2
<1>3. Apart'
  BY DEF Apart, Rebuilt, Stays
<1> QED BY <1>1, <1>2, <1>3 DEF MappingInv, Rebuilt

LEMMA EndsWell ==
    ASSUME MappingInv, NEW r \in Rebuilders, Mapping!Idle(r),
           UNCHANGED <<upstream, seasons, entries, etag, runs>>
    PROVE  MappingInv'
<1>1. PICK v \in Mapping!Versions, n \in Nat : Rebuilt(v, n)
  BY DEF MappingInv
<1>2. MappingTyped /\ Mapping!NoRows \in [seasons : SUBSET Marks, entries : SUBSET Marks]
      /\ Mapping!NoRows.seasons = {} /\ 0 \in Mapping!Versions
  BY DEF MappingInv, Mapping!NoRows, Mapping!Versions
<1>3. MappingTyped'
  BY <1>2 DEF MappingTyped, Mapping!Idle, Mapping!Etag, Mapping!Guess
<1>4. \A o \in Rebuilders \ {r} : Stays(o)
  BY <1>2 DEF MappingTyped, Mapping!Idle, Stays
<1>5. rebuildPc'[r] = "idle" /\ gone'[r] = Mapping!NoRows
  BY <1>2 DEF MappingTyped, Mapping!Idle
<1>6. RunHolds(r, v, n)'
  BY <1>2, <1>5 DEF RunHolds
<1>7. runs \in Nat
  BY <1>2 DEF MappingTyped
<1> QED BY <1>1, <1>3, <1>4, <1>5, <1>6, <1>7, RunGoes

LEMMA BeginKeeps ==
    ASSUME MappingInv, NEW r \in Rebuilders, NEW forced \in BOOLEAN, Mapping!Begin(r, forced)
    PROVE  MappingInv'
<1>1. PICK v \in Mapping!Versions, n \in Nat : Rebuilt(v, n)
  BY DEF MappingInv
<1>2. /\ rebuildPc[r] = "idle" /\ rebuildPc' = [rebuildPc EXCEPT ![r] = "head"]
      /\ runs < MaxRuns /\ runs' = runs + 1 /\ tx' = [tx EXCEPT ![r] = runs + 1]
      /\ UNCHANGED <<upstream, seasons, entries, etag, head, got, seen, gone, new>>
  BY DEF Mapping!Begin, Mapping!Goto, Mapping!tableVars, Mapping!txVars
<1>3. MappingTyped
  BY DEF MappingInv
<1>4. runs \in Nat /\ n \in 0..runs
  BY <1>1, <1>3 DEF MappingTyped, Rebuilt, Whole
<1>5. MappingTyped'
  BY <1>2, <1>3 DEF MappingTyped
<1>6. rebuildPc'[r] = "head" /\ tx'[r] = runs + 1 /\ gone'[r] = gone[r] /\ \A o \in Rebuilders \ {r} : Stays(o)
  BY <1>2, <1>3 DEF MappingTyped, Stays
<1>7. gone[r].seasons = {} /\ \A o \in Rebuilders : rebuildPc[o] # "idle" => tx[o] \in 1..runs
  BY <1>1, <1>2 DEF Rebuilt, RunHolds
<1>8. RunHolds(r, v, n)'
  BY <1>2, <1>4, <1>6, <1>7 DEF RunHolds
<1>9. \A o \in Rebuilders \ {r} : rebuildPc[o] # "idle" =>
          tx'[r] # tx[o] /\ (gone'[r].seasons = {} \/ gone[o].seasons = {})
  BY <1>4, <1>6, <1>7
<1> QED BY <1>1, <1>2, <1>4, <1>5, <1>6, <1>8, <1>9, RunGoes

LEMMA HeadKeeps ==
    ASSUME MappingInv, NEW r \in Rebuilders, Mapping!Head(r) PROVE MappingInv'
<1>1. PICK v \in Mapping!Versions, n \in Nat : Rebuilt(v, n)
  BY DEF MappingInv
<1>2. PICK answered \in BOOLEAN, asked \in {upstream, NoEtag} :
          head' = [head EXCEPT ![r] = Mapping!Filed(Mapping!Stale(r, answered, asked), asked)]
  BY DEF Mapping!Head
<1>3. /\ rebuildPc[r] = "head" /\ rebuildPc' = [rebuildPc EXCEPT ![r] = "get"]
      /\ UNCHANGED <<upstream, seasons, entries, etag, runs, got, tx, seen, gone, new>>
  BY DEF Mapping!Head, Mapping!Goto, Mapping!tableVars, Mapping!txVars
<1>4. MappingTyped /\ upstream \in Mapping!Versions /\ runs \in Nat /\ Mapping!Versions \subseteq Nat
  <2>1. Mapping!Versions \subseteq Nat
    BY DEF Mapping!Versions
  <2> QED BY <2>1 DEF MappingInv, MappingTyped
<1> DEFINE filed == Mapping!Filed(Mapping!Stale(r, answered, asked), asked)
<1>5. filed \in Mapping!Etag /\ (filed \in Mapping!Versions => filed = upstream)
  BY <1>2, <1>4 DEF Mapping!Filed, Mapping!Etag, Mapping!Guess
<1> HIDE DEF filed
<1>6. head' = [head EXCEPT ![r] = filed]
  BY <1>2 DEF filed
<1>7. MappingTyped'
  BY <1>3, <1>4, <1>5, <1>6 DEF MappingTyped
<1>8. /\ rebuildPc'[r] = "get" /\ head'[r] = filed /\ gone'[r] = gone[r] /\ tx'[r] = tx[r]
      /\ \A o \in Rebuilders \ {r} : Stays(o)
  BY <1>3, <1>4, <1>6 DEF MappingTyped, Stays
<1>9. gone[r].seasons = {} /\ tx[r] \in 1..runs /\ tx[r] # n
  BY <1>1, <1>3 DEF Rebuilt, RunHolds
<1>10. RunHolds(r, v, n)'
  BY <1>3, <1>4, <1>5, <1>8, <1>9 DEF RunHolds
<1>11. \A o \in Rebuilders \ {r} : rebuildPc[o] # "idle" =>
          tx'[r] # tx[o] /\ (gone'[r].seasons = {} \/ gone[o].seasons = {})
  BY <1>1, <1>3, <1>8, <1>9 DEF Rebuilt, Apart
<1> QED BY <1>1, <1>3, <1>4, <1>7, <1>8, <1>10, <1>11, RunGoes

\* A run that downloads or takes the snapshot of a DELETE.
LEMMA SnapshotKeeps ==
    ASSUME MappingInv, NEW r \in Rebuilders, Mapping!Get(r) \/ Mapping!DeleteBegins(r)
    PROVE  MappingInv'
<1>1. PICK v \in Mapping!Versions, n \in Nat : Rebuilt(v, n)
  BY DEF MappingInv
<1>2. MappingTyped /\ runs \in Nat
  BY DEF MappingInv, MappingTyped
<1>3. /\ \/ /\ rebuildPc[r] = "get" /\ rebuildPc' = [rebuildPc EXCEPT ![r] = "begin"]
            /\ got' = [got EXCEPT ![r] = upstream] /\ seen' = seen
         \/ /\ rebuildPc[r] = "begin" /\ rebuildPc' = [rebuildPc EXCEPT ![r] = "seasons"]
            /\ seen' = [seen EXCEPT ![r] = seasons] /\ got' = got
         \/ /\ rebuildPc[r] = "between" /\ rebuildPc' = [rebuildPc EXCEPT ![r] = "entries"]
            /\ seen' = [seen EXCEPT ![r] = entries] /\ got' = got
      /\ UNCHANGED <<upstream, seasons, entries, etag, runs, head, tx, gone, new>>
  BY DEF Mapping!Get, Mapping!Download, Mapping!DeleteBegins, Mapping!Goto, Mapping!tableVars,
     Mapping!txVars
<1>4. seasons \in SUBSET Marks /\ entries \in SUBSET Marks
  BY <1>1, RowsTyped DEF Rebuilt, Whole
<1>5. MappingTyped'
  <2>1. seen' \in [Rebuilders -> SUBSET Marks] /\ got' \in [Rebuilders -> Mapping!Versions]
    <3>1. /\ seen \in [Rebuilders -> SUBSET Marks] /\ got \in [Rebuilders -> Mapping!Versions]
          /\ upstream \in Mapping!Versions
      BY <1>2 DEF MappingTyped
    <3>2. seen' = seen \/ seen' = [seen EXCEPT ![r] = seasons] \/ seen' = [seen EXCEPT ![r] = entries]
      BY <1>3
    <3>3. got' = got \/ got' = [got EXCEPT ![r] = upstream]
      BY <1>3
    <3> QED BY <1>4, <3>1, <3>2, <3>3
  <2>2. rebuildPc' \in [Rebuilders -> {"idle", "head", "get", "begin", "seasons", "between",
                                       "entries", "insert", "commit"}]
    BY <1>2, <1>3, SMTT(30) DEF MappingTyped
  <2> QED BY <1>2, <1>3, <2>1, <2>2 DEF MappingTyped
<1>6. /\ rebuildPc'[r] # "idle" /\ rebuildPc[r] # "idle" /\ gone'[r] = gone[r] /\ tx'[r] = tx[r]
      /\ \A o \in Rebuilders \ {r} : Stays(o)
  BY <1>2, <1>3 DEF MappingTyped, Stays
<1>7. RunHolds(r, v, n)'
  BY <1>1, <1>2, <1>3 DEF RunHolds, MappingTyped, Rebuilt
<1>8. \A o \in Rebuilders \ {r} : rebuildPc[o] # "idle" =>
          tx'[r] # tx[o] /\ (gone'[r].seasons = {} \/ gone[o].seasons = {})
  BY <1>1, <1>6 DEF Rebuilt, Apart
<1> QED BY <1>1, <1>2, <1>3, <1>5, <1>6, <1>7, <1>8, RunGoes

\* A run has deleted the seasons that are there, or none of them.
LEMMA AllOrNone ==
    ASSUME MappingTyped, NEW v \in Mapping!Versions, NEW n \in Nat, Rebuilt(v, n),
           NEW r \in Rebuilders
    PROVE  gone[r].seasons \in {{}, seasons}
  BY DEF MappingTyped, Rebuilt, RunHolds

LEMMA SeasonsKeep ==
    ASSUME Overlapping, MappingInv, NEW r \in Rebuilders, Mapping!DeleteSeasons(r) PROVE MappingInv'
<1>1. PICK v \in Mapping!Versions, n \in Nat : Rebuilt(v, n)
  BY DEF MappingInv
<1>2. MappingTyped /\ runs \in Nat
  BY DEF MappingInv, MappingTyped
<1> DEFINE held == seen[r] \cap seasons
           g == [gone[r] EXCEPT !.seasons = held]
<1>3. /\ rebuildPc[r] = "seasons" /\ rebuildPc' = [rebuildPc EXCEPT ![r] = "between"]
      /\ gone' = [gone EXCEPT ![r] = g] /\ seen' = [seen EXCEPT ![r] = {}]
      /\ UNCHANGED <<upstream, seasons, entries, etag, runs, head, got, tx, new>>
  BY DEF Mapping!DeleteSeasons, Mapping!SeasonsDeleted, Mapping!Goto, Mapping!tableVars
<1>4. \A o \in Rebuilders \ {r} : seen[r] \cap gone[o].seasons = {}
  BY DEF Mapping!DeleteSeasons, Mapping!Others
<1>5. seen[r] \in SUBSET Marks /\ gone[r] \in [seasons : SUBSET Marks, entries : SUBSET Marks]
  BY <1>2 DEF MappingTyped
<1>6. g \in [seasons : SUBSET Marks, entries : SUBSET Marks] /\ g.seasons = held
  BY <1>5
<1> HIDE DEF g
<1>7. MappingTyped'
  BY <1>2, <1>3, <1>6 DEF MappingTyped
<1>8. /\ rebuildPc'[r] = "between" /\ gone'[r] = g /\ tx'[r] = tx[r]
      /\ \A o \in Rebuilders \ {r} : Stays(o)
  BY <1>2, <1>3 DEF MappingTyped, Stays
<1>9. held = seasons \/ (n > 0 /\ v > 0 /\ held = {})
  BY <1>1, <1>3 DEF Rebuilt, RunHolds
<1>10. RunHolds(r, v, n)'
  <2>1. got'[r] = got[r] /\ head'[r] = head[r] /\ RunHolds(r, v, n)
    BY <1>1, <1>3 DEF Rebuilt
  <2> HIDE DEF held
  <2> QED BY <1>3, <1>6, <1>8, <1>9, <2>1 DEF RunHolds
<1>11. ASSUME NEW o \in Rebuilders \ {r}, rebuildPc[o] # "idle"
       PROVE  tx'[r] # tx[o] /\ (gone'[r].seasons = {} \/ gone[o].seasons = {})
  <2>1. tx[r] # tx[o]
    BY <1>1, <1>3, <1>11 DEF Rebuilt, Apart
  <2>2. gone[o].seasons \in {{}, seasons}
    BY <1>1, <1>2, AllOrNone
  <2> QED BY <1>4, <1>6, <1>8, <2>1, <2>2
<1> QED BY <1>1, <1>2, <1>3, <1>7, <1>8, <1>10, <1>11, RunGoes

\* A committed season of an entry fails the statement that deletes it, so whoever gets past it has
\* deleted the seasons.
LEMMA EntriesKeep ==
    ASSUME Overlapping, MappingInv, NEW r \in Rebuilders, Mapping!DeleteEntries(r) PROVE MappingInv'
<1>1. PICK v \in Mapping!Versions, n \in Nat : Rebuilt(v, n)
  BY DEF MappingInv
<1>2. MappingTyped /\ runs \in Nat
  BY DEF MappingInv, MappingTyped
<1> DEFINE g == [gone[r] EXCEPT !.entries = seen[r] \cap entries]
<1>3. /\ rebuildPc[r] = "entries" /\ rebuildPc' = [rebuildPc EXCEPT ![r] = "insert"]
      /\ gone' = [gone EXCEPT ![r] = g] /\ seen' = [seen EXCEPT ![r] = {}]
      /\ UNCHANGED <<upstream, seasons, entries, etag, runs, head, got, tx, new>>
      /\ Mapping!Orphans(r) = {}
  BY DEF Mapping!DeleteEntries, Mapping!Goto, Mapping!tableVars
<1>4. RunHolds(r, v, n) /\ seen[r] = entries /\ gone[r].seasons \in {seasons, {}}
      /\ seasons = Mapping!RowsOf(v, n) /\ entries = Mapping!RowsOf(v, n)
  BY <1>1, <1>3 DEF Rebuilt, RunHolds, Whole
<1>5. gone[r].seasons = seasons
  <2> SUFFICES ASSUME gone[r].seasons = {} PROVE seasons = {}
    BY <1>4
  <2>1. Mapping!SlotsOf(entries) \cap Mapping!SlotsOf(seasons) = {}
    BY <1>3, <1>4 DEF Mapping!Orphans
  <2>2. Data[v] = {}
    BY <1>4, <2>1, RowsTyped
  <2> QED BY <1>4, <2>2 DEF Mapping!RowsOf
<1>6. seen[r] \in SUBSET Marks /\ gone[r] \in [seasons : SUBSET Marks, entries : SUBSET Marks]
  BY <1>2 DEF MappingTyped
<1>7. /\ g \in [seasons : SUBSET Marks, entries : SUBSET Marks] /\ g.seasons = gone[r].seasons
      /\ g.entries = entries
  BY <1>4, <1>6
<1> HIDE DEF g
<1>8. MappingTyped'
  BY <1>2, <1>3, <1>7 DEF MappingTyped
<1>9. /\ rebuildPc'[r] = "insert" /\ gone'[r] = g /\ tx'[r] = tx[r]
      /\ \A o \in Rebuilders \ {r} : Stays(o)
  BY <1>2, <1>3 DEF MappingTyped, Stays
<1>10. RunHolds(r, v, n)'
  BY <1>3, <1>4, <1>5, <1>7, <1>9 DEF RunHolds
<1>11. \A o \in Rebuilders \ {r} : rebuildPc[o] # "idle" =>
          tx'[r] # tx[o] /\ (gone'[r].seasons = {} \/ gone[o].seasons = {})
  BY <1>1, <1>3, <1>7, <1>9 DEF Rebuilt, Apart
<1> QED BY <1>1, <1>2, <1>3, <1>8, <1>9, <1>10, <1>11, RunGoes

\* All keys are free once the rows that are there are deleted: no conflict takes a row.
LEMMA InsertKeeps ==
    ASSUME MappingInv, NEW r \in Rebuilders, Mapping!Insert(r) PROVE MappingInv'
<1>1. PICK v \in Mapping!Versions, n \in Nat : Rebuilt(v, n)
  BY DEF MappingInv
<1>2. MappingTyped /\ runs \in Nat
  BY DEF MappingInv, MappingTyped
<1> DEFINE filed == [entries |-> Mapping!Fresh(r, entries, gone[r].entries),
                     seasons |-> Mapping!Fresh(r, seasons, gone[r].seasons)]
           R == Mapping!RowsOf(got[r], tx[r])
<1>3. /\ rebuildPc[r] = "insert" /\ rebuildPc' = [rebuildPc EXCEPT ![r] = "commit"]
      /\ new' = [new EXCEPT ![r] = filed]
      /\ UNCHANGED <<upstream, seasons, entries, etag, runs, head, got, tx, seen, gone>>
  BY DEF Mapping!Insert, Mapping!Goto, Mapping!tableVars
<1>4. RunHolds(r, v, n) /\ gone[r].seasons = seasons /\ gone[r].entries = entries
  BY <1>1, <1>3 DEF Rebuilt, RunHolds
<1>5. Mapping!SlotsOf({}) = {} /\ seasons \ seasons = {} /\ entries \ entries = {}
  BY DEF Mapping!SlotsOf
<1>6. Mapping!Fresh(r, entries, gone[r].entries) = R /\ Mapping!Fresh(r, seasons, gone[r].seasons) = R
  BY <1>4, <1>5 DEF Mapping!Fresh
<1>7. R \subseteq Marks
  BY <1>2, RowsTyped DEF MappingTyped
<1>8. filed.entries = R /\ filed.seasons = R /\ filed \in [seasons : SUBSET Marks, entries : SUBSET Marks]
  <2> HIDE DEF R
  <2> QED BY <1>6, <1>7
<1> HIDE DEF filed
<1>9. MappingTyped'
  BY <1>2, <1>3, <1>8 DEF MappingTyped
<1>10. /\ rebuildPc'[r] = "commit" /\ new'[r] = filed /\ tx'[r] = tx[r] /\ gone'[r] = gone[r]
       /\ \A o \in Rebuilders \ {r} : Stays(o)
  BY <1>2, <1>3 DEF MappingTyped, Stays
<1>11. RunHolds(r, v, n)'
  <2>1. R' = R
    BY <1>3 DEF Mapping!RowsOf
  <2> QED BY <1>3, <1>4, <1>8, <1>10, <2>1 DEF RunHolds
<1>12. \A o \in Rebuilders \ {r} : rebuildPc[o] # "idle" =>
          tx'[r] # tx[o] /\ (gone'[r].seasons = {} \/ gone[o].seasons = {})
  BY <1>1, <1>3, <1>10 DEF Rebuilt, Apart
<1> QED BY <1>1, <1>2, <1>3, <1>9, <1>10, <1>11, <1>12, RunGoes

\* A commit puts the rows of its run in the place of all the rows before them; a run beside it has
\* deleted nothing, and its snapshot is of rows that are gone.
LEMMA CommitReplaces ==
    ASSUME Overlapping, MappingInv, NEW r \in Rebuilders, Mapping!Commit(r)
    PROVE  MappingInv' /\ \E w \in Mapping!Versions :
               /\ Mapping!Shown' = w /\ etag' = head[r]
               /\ head[r] \in Mapping!Versions => head[r] <= w
<1>1. PICK v \in Mapping!Versions, n \in Nat : Rebuilt(v, n)
  BY DEF MappingInv
<1>2. MappingTyped /\ runs \in Nat
  BY DEF MappingInv, MappingTyped
<1>0. PICK w \in Mapping!Versions, m \in Nat : w = got[r] /\ m = tx[r]
  BY <1>2 DEF MappingTyped
<1> DEFINE R == Mapping!RowsOf(w, m)
<1>3. /\ rebuildPc[r] = "commit" /\ Mapping!Idle(r) /\ etag' = head[r] /\ UNCHANGED <<upstream, runs>>
      /\ seasons' = (seasons \ gone[r].seasons) \cup new[r].seasons
      /\ entries' = (entries \ gone[r].entries) \cup new[r].entries
  BY DEF Mapping!Commit
<1>4. /\ gone[r].seasons = seasons /\ gone[r].entries = entries
      /\ new[r].seasons = R /\ new[r].entries = R
      /\ w # 0 /\ m \in 1..runs /\ m # n /\ (head[r] \in Mapping!Versions => head[r] <= w)
  BY <1>0, <1>1, <1>3 DEF Rebuilt, RunHolds
<1>5. w \in Mapping!Versions /\ m \in Nat /\ head[r] \in Mapping!Etag
  BY <1>2 DEF MappingTyped
<1>6. seasons' = R /\ entries' = R
  BY <1>3, <1>4
<1>7. R' = R
  BY DEF Mapping!RowsOf
<1>8. Whole(w, m)'
  <2>1. m \in 0..runs /\ m # 0
    BY <1>4
  <2> QED BY <1>3, <1>5, <1>6, <2>1 DEF Whole, Mapping!RowsOf
<1>9. MappingTyped'
  <2>1. /\ Mapping!NoRows \in [seasons : SUBSET Marks, entries : SUBSET Marks]
        /\ 0 \in Mapping!Versions /\ NoEtag \in Mapping!Etag
    BY DEF Mapping!NoRows, Mapping!Versions, Mapping!Etag, Mapping!Guess
  <2> QED BY <1>2, <1>3, <1>5, <2>1 DEF MappingTyped, Mapping!Idle
<1>10. /\ rebuildPc'[r] = "idle" /\ gone'[r].seasons = {}
       /\ \A o \in Rebuilders \ {r} : Stays(o)
  BY <1>2, <1>3 DEF MappingTyped, Mapping!Idle, Stays, Mapping!NoRows
<1>11. Apart'
  BY <1>1, <1>10 DEF Rebuilt, Apart, Stays
<1>12. ASSUME NEW o \in Rebuilders PROVE RunHolds(o, w, m)'
  <2>1. CASE o = r
    BY <1>10, <2>1 DEF RunHolds
  <2>2. CASE o # r /\ rebuildPc[o] = "idle"
    <3>1. RunHolds(o, v, n) /\ Stays(o)
      BY <1>1, <1>10, <2>2 DEF Rebuilt
    <3> QED BY <2>2, <3>1 DEF RunHolds, Stays
  <2>3. CASE o # r /\ rebuildPc[o] # "idle"
    <3>1. RunHolds(o, v, n) /\ Stays(o) /\ tx[o] # m
      BY <1>0, <1>1, <1>3, <1>10, <2>3 DEF Rebuilt, Apart
    <3>2. n = 0 /\ v = 1
      BY <1>1, <1>2, <1>3, <2>3, TwoAtOnce
    <3>3. seasons # {} /\ seasons = Mapping!RowsOf(v, n)
      <4>1. Data[v] # {} /\ seasons = Mapping!RowsOf(v, n)
        BY <1>1, <3>2, RowsTyped DEF Rebuilt, Whole
      <4>2. PICK s : s \in Data[v]
        BY <4>1
      <4>3. [slot |-> s, ver |-> v, tx |-> n] \in seasons
        BY <4>1, <4>2 DEF Mapping!RowsOf
      <4> QED BY <4>1, <4>3
    <3>4. gone[o].seasons = {}
      BY <1>1, <1>3, <1>4, <2>3, <3>3 DEF Rebuilt, Apart
    <3>5. rebuildPc[o] \in {"head", "get", "begin", "seasons"}
      BY <1>2, <2>3, <3>1, <3>2, <3>3, <3>4 DEF RunHolds, MappingTyped
    <3>6. seasons \cap R = {}
      BY <1>4, <1>5, <3>3, RowsTyped
    <3>7. rebuildPc[o] = "seasons" => seen[o] \cap seasons' = {}
      BY <1>6, <3>1, <3>2, <3>6 DEF RunHolds
    <3>8. m > 0 /\ w > 0
      BY <1>4, <1>5, SMTT(30) DEF Mapping!Versions
    <3> QED BY <1>3, <3>1, <3>4, <3>5, <3>7, <3>8 DEF RunHolds, Stays
  <2> QED BY <2>1, <2>2, <2>3
<1>13. MappingInv'
  BY <1>5, <1>8, <1>9, <1>11, <1>12 DEF MappingInv, Rebuilt
<1>14. Mapping!Shown' = w
  BY <1>5, <1>6, <1>7, ShownNext
<1> QED BY <1>3, <1>4, <1>5, <1>13, <1>14

LEMMA PublishKeeps == ASSUME MappingInv, Mapping!Publish PROVE MappingInv'
<1>1. PICK v \in Mapping!Versions, n \in Nat : Rebuilt(v, n)
  BY DEF MappingInv
<1>2. MappingTyped /\ upstream \in Nat /\ upstream' = upstream + 1 /\ upstream < MaxVersion
  <2>1. MappingTyped /\ upstream' = upstream + 1 /\ upstream < MaxVersion
    BY DEF MappingInv, Mapping!Publish
  <2>2. upstream \in Nat
    BY <2>1 DEF MappingTyped, Mapping!Versions
  <2> QED BY <2>1, <2>2
<1>3. UNCHANGED <<seasons, entries, etag, rebuildPc, head, got, tx, seen, gone, new, runs>>
  BY DEF Mapping!Publish, Mapping!tableVars, Mapping!txVars
<1>4. MappingTyped'
  <2>1. upstream' \in Mapping!Versions \ {0}
    BY <1>2, SMTT(30) DEF Mapping!Versions
  <2> QED BY <1>2, <1>3, <2>1 DEF MappingTyped
<1>5. Whole(v, n)' /\ Apart'
  BY <1>1, <1>3 DEF Rebuilt, Whole, Apart
<1>6. Mapping!Versions \subseteq Nat
  BY DEF Mapping!Versions
<1>7. ASSUME NEW r \in Rebuilders PROVE RunHolds(r, v, n)'
  BY <1>1, <1>2, <1>3, <1>6 DEF Rebuilt, RunHolds, Mapping!RowsOf
<1> QED BY <1>1, <1>4, <1>5, <1>7 DEF MappingInv, Rebuilt

LEMMA MappingRests == ASSUME MappingInv, UNCHANGED mappingVars PROVE MappingInv'
<1>1. PICK v \in Mapping!Versions, n \in Nat : Rebuilt(v, n)
  BY DEF MappingInv
<1>2. MappingTyped'
  BY DEF mappingVars, MappingInv, MappingTyped
<1>3. Whole(v, n)' /\ Apart'
  BY <1>1 DEF mappingVars, Rebuilt, Whole, Apart
<1>4. ASSUME NEW r \in Rebuilders PROVE RunHolds(r, v, n)'
  BY <1>1 DEF mappingVars, Rebuilt, RunHolds, Mapping!RowsOf
<1> QED BY <1>1, <1>2, <1>3, <1>4 DEF MappingInv, Rebuilt

\* What a reader may see of a step: nothing, or another dataset that is no older than its etag.
Replaced ==
    \E w \in Mapping!Versions :
        Mapping!Shown' = w /\ etag' \in Mapping!Etag /\ (etag' \in Mapping!Versions => etag' <= w)

LEMMA MappingStep ==
    ASSUME Overlapping, MappingInv, [Mapping!Next]_mappingVars
    PROVE  MappingInv' /\ (UNCHANGED <<seasons, entries, etag>> \/ Replaced)
<1>1. CASE UNCHANGED mappingVars
  <2>1. UNCHANGED <<seasons, entries, etag>>
    BY <1>1 DEF mappingVars
  <2>2. MappingInv'
    BY <1>1, MappingRests
  <2> QED BY <2>1, <2>2
<1>2. CASE Mapping!Publish
  BY <1>2, PublishKeeps DEF Mapping!Publish, Mapping!tableVars
<1>3. ASSUME NEW r \in Rebuilders, Mapping!Rebuild(r)
      PROVE  MappingInv' /\ (UNCHANGED <<seasons, entries, etag>> \/ Replaced)
  <2>1. CASE Mapping!Commit(r)
    <3>1. head[r] \in Mapping!Etag
      BY DEF MappingInv, MappingTyped
    <3> QED BY <2>1, <3>1, CommitReplaces DEF Replaced
  <2>2. CASE Mapping!UpToDate(r) \/ Mapping!Fail(r)
    <3>1. Mapping!Idle(r) /\ UNCHANGED <<upstream, seasons, entries, etag, runs>>
      BY <2>2 DEF Mapping!UpToDate, Mapping!Fail, Mapping!tableVars
    <3> QED BY <3>1, EndsWell
  <2>3. CASE \E forced \in BOOLEAN : Mapping!Begin(r, forced)
    BY <2>3, BeginKeeps DEF Mapping!Begin, Mapping!tableVars
  <2>4. CASE Mapping!Head(r)
    BY <2>4, HeadKeeps DEF Mapping!Head, Mapping!tableVars
  <2>5. CASE Mapping!Get(r) \/ Mapping!DeleteBegins(r)
    BY <2>5, SnapshotKeeps DEF Mapping!Get, Mapping!DeleteBegins, Mapping!tableVars
  <2>6. CASE Mapping!DeleteSeasons(r) \/ Mapping!DeleteEntries(r)
    BY <2>6, SeasonsKeep, EntriesKeep DEF Mapping!DeleteSeasons, Mapping!DeleteEntries,
       Mapping!tableVars
  <2>7. CASE Mapping!Insert(r)
    BY <2>7, InsertKeeps DEF Mapping!Insert, Mapping!tableVars
  <2> QED BY <1>3, <2>1, <2>2, <2>3, <2>4, <2>5, <2>6, <2>7 DEF Mapping!Rebuild
<1> QED BY <1>1, <1>2, <1>3 DEF Mapping!Next

\* Rebuilds of the mapping (sync_database_async, _replace_tables) implement MappingSnapshot: two
\* that overlap on a table with rows, or any number of one process, under READ COMMITTED, for any
\* datasets, replace one whole dataset by another, with an etag that is not ahead of it.
THEOREM RebuildsImplement == ASSUME Overlapping PROVE AllSpec => ReplacesWhole
<1> DEFINE Step == [AllNext]_<<part, vars, mappingVars, maintainVars, browseVars, bootVars,
                               supportersVars, settingsVars, filingVars>>
           shown == IF part = "mapping" THEN Mapping!Shown ELSE StartVersion
<1>1. ASSUME AllInit PROVE MappingInv /\ Snapshot!Init
  <2>1. Mapping!Init
    BY <1>1 DEF AllInit
  <2>2. MappingInv
    BY <2>1, MappingInit
  <2>3. StartVersion \in Mapping!Versions /\ 0 \in Nat
    BY SMTT(30) DEF Mapping!Versions
  <2>4. Mapping!Shown = StartVersion
    BY <2>1, <2>3, ShownIs DEF Mapping!Init
  <2>5. etag \in Mapping!Versions \cup Mapping!Guess
    BY <2>1, <2>3 DEF Mapping!Init, Mapping!Guess
  <2> QED BY <2>2, <2>3, <2>4, <2>5 DEF Snapshot!Init
<1>2. ASSUME MappingInv, Step PROVE MappingInv' /\ [Snapshot!Next]_<<shown, etag>>
  <2>1. UNCHANGED part /\ [part = "mapping" /\ Mapping!Next]_mappingVars
    BY <1>2, PartsAlone
  <2>2. CASE part = "mapping"
    <3>1. MappingInv' /\ (UNCHANGED <<seasons, entries, etag>> \/ Replaced)
      BY <1>2, <2>1, MappingStep
    <3>2. CASE UNCHANGED <<seasons, entries, etag>>
      <4>1. Mapping!Shown' = Mapping!Shown
        BY <3>2 DEF Mapping!Shown, Mapping!Held
      <4> QED BY <2>1, <3>1, <3>2, <4>1
    <3>3. CASE Replaced
      BY <2>1, <2>2, <3>1, <3>3 DEF Replaced, Snapshot!Next, Snapshot!Replace, Mapping!Etag
    <3> QED BY <3>1, <3>2, <3>3
  <2>3. CASE part # "mapping"
    <3>1. UNCHANGED mappingVars
      BY <2>1, <2>3
    <3>2. UNCHANGED <<shown, etag>>
      BY <2>1, <2>3, <3>1 DEF mappingVars
    <3>3. MappingInv'
      BY <1>2, <3>1, MappingRests
    <3> QED BY <3>2, <3>3
  <2> QED BY <2>2, <2>3
<1> QED BY <1>1, <1>2, PTL DEF AllSpec, ReplacesWhole, Snapshot!Spec

-----------------------------------------------------------------------------
(* All types.                                                              *)

\* Every variable of the catalogue's parts keeps its type in every step.
THEOREM CatalogueTyped == AllSpec => []Typed
<1> DEFINE Held == /\ part \in Parts /\ IInv /\ Mapping!TypeOK /\ UpkeepInv /\ HubsTyped
                   /\ BootInv /\ Started /\ FansTyped /\ SettingsInv /\ Filing!TypeOK
           Turn == [AllNext]_<<part, vars, mappingVars, maintainVars, browseVars, bootVars,
                               supportersVars, settingsVars, filingVars>>
<1>1. ASSUME AllInit PROVE Held
  <2>1. Mapping!TypeOK
    BY <1>1, MappingTypedInit, MappingTypes DEF AllInit
  <2>2. Filing!TypeOK
    BY <1>1, FilingInit DEF AllInit
  <2> QED BY <1>1, <2>1, <2>2, InitInv, UpkeepInit, HubsInit, BootInit, StartedInit, FansTypedInit,
             SettingsInit DEF AllInit
<1>2. ASSUME Held, Turn PROVE Held'
  <2>1. /\ UNCHANGED part /\ [Next]_vars /\ [Mapping!Next]_mappingVars /\ [Upkeep!Next]_maintainVars
        /\ [Browsing!Next]_browseVars /\ [Booting!Next]_bootVars /\ [Fans!Next]_supportersVars
        /\ [Settings!Next]_settingsVars /\ [Filing!Next]_filingVars
    BY <1>2, PartsAlone
  <2>2. IInv' /\ Mapping!TypeOK' /\ UpkeepInv' /\ HubsTyped'
    BY <1>2, <2>1, StepInv, MappingTypedStep, UpkeepStep, HubsStep
  <2>3. BootInv' /\ Started' /\ FansTyped' /\ SettingsInv' /\ Filing!TypeOK'
    BY <1>2, <2>1, BootStep, StartedStep, FansTypedStep, SettingsStep, FilingTypes
  <2> QED BY <1>2, <2>1, <2>2, <2>3
<1>3. Held => Typed
  BY HubsTypes, BootTypes, FansTypes DEF IInv, UpkeepInv, SettingsInv, Typed
<1> HIDE DEF Held, Turn
<1>4. AllInit => Held
  BY <1>1
<1>5. Held /\ Turn => Held'
  BY <1>2
<1> QED BY <1>3, <1>4, <1>5, PTL DEF AllSpec, Turn

=============================================================================
