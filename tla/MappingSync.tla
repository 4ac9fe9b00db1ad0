----------------------------- MODULE MappingSync -----------------------------
(***************************************************************************)
(* The mapping rebuild: sync_database_async and _replace_tables of          *)
(* metadata_engine/mapping_sync.py, started by the scheduler, by an         *)
(* administrator (forced_resync.py) or from the command line (resync.py),   *)
(* each in a process of its own.                                            *)
(*                                                                          *)
(* A rebuild is one READ COMMITTED transaction, so each of its statements   *)
(* sees what had been committed when the statement began, waits for rows    *)
(* another transaction has touched, and then skips those that are gone.     *)
(* tmdb_seasons stands for both child tables of anime_entries.              *)
(***************************************************************************)
EXTENDS Integers

CONSTANTS
    Rebuilders,   \* processes that may run a rebuild
    Slots,        \* season slots, each with an entry of its own
    Data,         \* version -> the slots its dataset has
    NoEtag,       \* no etag: upstream did not answer, or none is filed yet
    ForceEmptyDb, ForcedResync,   \* the etags filed for want of one
    Mixed,        \* what readers see when the tables hold no one dataset
    StartVersion, \* the dataset in the tables at first, 0 for none
    MaxVersion,   \* bound: datasets upstream publishes
    MaxRuns       \* bound: rebuilds

Versions == 0..MaxVersion

DataAssumption == /\ MaxVersion \in Nat \ {0} /\ MaxRuns \in Nat
                  /\ Data \in [Versions -> SUBSET Slots] /\ Data[0] = {}
                  /\ \A v \in 1..MaxVersion : Data[v] # {}
StartAssumption == StartVersion \in 0..1 /\ StartVersion <= MaxVersion

Guess == {NoEtag, ForceEmptyDb, ForcedResync}

VARIABLES
    upstream,   \* the version at MAPPING_URL
    seasons,    \* committed rows of tmdb_seasons
    entries,    \* committed rows of anime_entries
    etag,       \* committed, in sync_meta
    pc, force,  \* rebuilder -> where it is, and whether it was forced
    local,      \* rebuilder -> what _local_state returned
    head,       \* rebuilder -> the etag it will file
    got,        \* rebuilder -> the version it downloaded
    tx,         \* rebuilder -> the number of its run, which marks the rows it inserts
    seen,       \* rebuilder -> the snapshot of the statement it is in
    gone,       \* rebuilder -> the rows it has deleted and not committed
    new,        \* rebuilder -> the rows it has inserted and not committed
    runs        \* counter for the bound

tableVars == <<seasons, entries, etag>>
txVars    == <<seen, gone, new>>
vars == <<upstream, tableVars, pc, force, local, head, got, tx, txVars, runs>>

Row    == [slot : Slots, ver : Versions, tx : 0..MaxRuns]
Etag   == Versions \cup Guess
NoRows == [seasons |-> {}, entries |-> {}]
RowsOf(v, n) == {[slot |-> s, ver |-> v, tx |-> n] : s \in Data[v]}

TypeOK ==
    /\ upstream \in Versions
    /\ seasons \subseteq Row /\ entries \subseteq Row /\ etag \in Etag
    /\ pc \in [Rebuilders -> {"idle", "head", "get", "begin", "seasons", "between",
                              "entries", "insert", "commit"}]
    /\ force \in [Rebuilders -> BOOLEAN]
    /\ local \in [Rebuilders -> [etag : Etag, empty : BOOLEAN]]
    /\ head \in [Rebuilders -> Etag]
    /\ \A r \in Rebuilders : pc[r] \notin {"idle", "head"} => head[r] # NoEtag
    /\ got \in [Rebuilders -> Versions]
    /\ tx \in [Rebuilders -> 0..MaxRuns]
    /\ seen \in [Rebuilders -> SUBSET Row]
    /\ gone \in [Rebuilders -> [seasons : SUBSET Row, entries : SUBSET Row]]
    /\ new \in [Rebuilders -> [seasons : SUBSET Row, entries : SUBSET Row]]
    /\ runs \in 0..MaxRuns

Init ==
    /\ upstream = 1
    /\ seasons = RowsOf(StartVersion, 0) /\ entries = RowsOf(StartVersion, 0)
    /\ etag = IF StartVersion = 0 THEN NoEtag ELSE StartVersion
    /\ pc = [r \in Rebuilders |-> "idle"]
    /\ force = [r \in Rebuilders |-> FALSE]
    /\ local = [r \in Rebuilders |-> [etag |-> NoEtag, empty |-> FALSE]]
    /\ head = [r \in Rebuilders |-> NoEtag]
    /\ got = [r \in Rebuilders |-> 0]
    /\ tx = [r \in Rebuilders |-> 0]
    /\ seen = [r \in Rebuilders |-> {}]
    /\ gone = [r \in Rebuilders |-> NoRows] /\ new = [r \in Rebuilders |-> NoRows]
    /\ runs = 0

-----------------------------------------------------------------------------
(* Helpers.                                                                *)

SlotsOf(R) == {x.slot : x \in R}

Others(r) == Rebuilders \ {r}

\* r's run is over, its transaction rolled back if it had one.
Idle(r) ==
    /\ pc' = [pc EXCEPT ![r] = "idle"]
    /\ force' = [force EXCEPT ![r] = FALSE]
    /\ local' = [local EXCEPT ![r] = [etag |-> NoEtag, empty |-> FALSE]]
    /\ head' = [head EXCEPT ![r] = NoEtag]
    /\ got' = [got EXCEPT ![r] = 0] /\ tx' = [tx EXCEPT ![r] = 0]
    /\ seen' = [seen EXCEPT ![r] = {}]
    /\ gone' = [gone EXCEPT ![r] = NoRows] /\ new' = [new EXCEPT ![r] = NoRows]

Goto(r, where) == pc' = [pc EXCEPT ![r] = where]

-----------------------------------------------------------------------------
(* sync_database_async: is there anything to do, and what.                 *)

\* Upstream publishes its next dataset, under an etag of its own.
Publish ==
    /\ upstream < MaxVersion /\ upstream' = upstream + 1
    /\ UNCHANGED <<tableVars, pc, force, local, head, got, tx, txVars, runs>>

\* A run begins and reads _local_state.
Begin(r, forced) ==
    /\ pc[r] = "idle" /\ Goto(r, "head")
    /\ runs < MaxRuns /\ runs' = runs + 1 /\ tx' = [tx EXCEPT ![r] = runs + 1]
    /\ force' = [force EXCEPT ![r] = forced]
    /\ local' = [local EXCEPT ![r] = [etag |-> etag, empty |-> entries = {}]]
    /\ UNCHANGED <<upstream, tableVars, head, got, txVars>>

\* _check_upstream: an empty table is always stale; a populated one is when upstream
\* answered the HEAD with another etag, or with none.
Stale(r, answered, asked) ==
    local[r].empty \/ (answered /\ (local[r].etag = NoEtag \/ local[r].etag # asked))

\* Mutant: the etag filed is the one upstream sent, if any.
FiledAsSent(stale, asked) == asked

\* The etag the run will file its dataset under.
Filed(stale, asked) ==
    IF asked # NoEtag THEN asked ELSE IF stale THEN ForceEmptyDb ELSE ForcedResync

\* The HEAD, which may fail or come back without an ETag, sends the run on or ends it.
Head(r) ==
    /\ pc[r] = "head"
    /\ \E answered \in BOOLEAN, asked \in {upstream, NoEtag} :
          /\ answered \/ asked = NoEtag
          /\ Stale(r, answered, asked) \/ force[r]
          /\ head' = [head EXCEPT ![r] = Filed(Stale(r, answered, asked), asked)]
    /\ Goto(r, "get")
    /\ UNCHANGED <<upstream, tableVars, force, local, got, tx, txVars, runs>>

\* Neither stale nor forced: up_to_date.
UpToDate(r) ==
    /\ pc[r] = "head" /\ ~force[r]
    /\ \E answered \in BOOLEAN, asked \in {upstream, NoEtag} :
          (answered \/ asked = NoEtag) /\ ~Stale(r, answered, asked)
    /\ Idle(r)
    /\ UNCHANGED <<upstream, tableVars, runs>>

\* Mutant: the etag filed is the newest one, not the one asked for before the download.
DownloadRefiles(r) ==
    /\ got' = [got EXCEPT ![r] = upstream]
    /\ \E later \in upstream..MaxVersion : head' = [head EXCEPT ![r] = later]

Download(r) == got' = [got EXCEPT ![r] = upstream] /\ UNCHANGED head

\* The dataset is downloaded and turned into rows, which takes minutes of AniList calls.
Get(r) ==
    /\ pc[r] = "get" /\ Goto(r, "begin")
    /\ Download(r)
    /\ UNCHANGED <<upstream, tableVars, force, local, tx, txVars, runs>>

-----------------------------------------------------------------------------
(* _replace_tables.                                                        *)

\* DELETE FROM tmdb_seasons (or the entries) begins: it sees what is committed now.
DeleteBegins(r) ==
    \/ /\ pc[r] = "begin" /\ Goto(r, "seasons")
       /\ seen' = [seen EXCEPT ![r] = seasons]
       /\ UNCHANGED <<upstream, tableVars, force, local, head, got, tx, gone, new, runs>>
    \/ /\ pc[r] = "between" /\ Goto(r, "entries")
       /\ seen' = [seen EXCEPT ![r] = entries]
       /\ UNCHANGED <<upstream, tableVars, force, local, head, got, tx, gone, new, runs>>

\* The rows of the snapshot that are still there once nobody else holds them.
SeasonsDeleted(r) == seen[r] \cap seasons

DeleteSeasons(r) ==
    /\ pc[r] = "seasons" /\ Goto(r, "between")
    /\ \A o \in Others(r) : seen[r] \cap gone[o].seasons = {}
    /\ gone' = [gone EXCEPT ![r].seasons = SeasonsDeleted(r)]
    /\ seen' = [seen EXCEPT ![r] = {}]
    /\ UNCHANGED <<upstream, tableVars, force, local, head, got, tx, new, runs>>

\* A committed season that still points at a deleted entry fails the statement.
Orphans(r) == SlotsOf(seen[r] \cap entries) \cap SlotsOf(seasons \ gone[r].seasons)

\* Rows another transaction deleted, or points at with a season of its own, are waited for.
EntriesFree(r) ==
    \A o \in Others(r) : /\ seen[r] \cap gone[o].entries = {}
                         /\ SlotsOf(seen[r]) \cap SlotsOf(new[o].seasons) = {}

DeleteEntries(r) ==
    /\ pc[r] = "entries" /\ EntriesFree(r) /\ Orphans(r) = {}
    /\ Goto(r, "insert")
    /\ gone' = [gone EXCEPT ![r].entries = seen[r] \cap entries]
    /\ seen' = [seen EXCEPT ![r] = {}]
    /\ UNCHANGED <<upstream, tableVars, force, local, head, got, tx, new, runs>>

\* The rows with a key no committed row has: ON CONFLICT DO NOTHING.
Fresh(r, committed, deleted) ==
    {x \in RowsOf(got[r], tx[r]) : x.slot \notin SlotsOf(committed \ deleted)}

\* A key another transaction has inserted or deleted is waited for.
KeysFree(r) ==
    \A o \in Others(r) :
        Data[got[r]] \cap (SlotsOf(new[o].entries \cup new[o].seasons)
                           \cup SlotsOf(gone[o].entries \ gone[r].entries)
                           \cup SlotsOf(gone[o].seasons \ gone[r].seasons)) = {}

Insert(r) ==
    /\ pc[r] = "insert" /\ KeysFree(r) /\ Goto(r, "commit")
    /\ new' = [new EXCEPT ![r] =
                  [entries |-> Fresh(r, entries, gone[r].entries),
                   seasons |-> Fresh(r, seasons, gone[r].seasons)]]
    /\ UNCHANGED <<upstream, tableVars, force, local, head, got, tx, seen, gone, runs>>

\* The etag is filed, the cached catalogues are purged, and all of it is committed.
Commit(r) ==
    /\ pc[r] = "commit"
    /\ seasons' = (seasons \ gone[r].seasons) \cup new[r].seasons
    /\ entries' = (entries \ gone[r].entries) \cup new[r].entries
    /\ etag' = head[r]
    /\ Idle(r)
    /\ UNCHANGED <<upstream, runs>>

\* A download that failed or held nothing, a failed statement, a crash: the transaction is
\* rolled back and the run is over.
Fail(r) ==
    /\ pc[r] \notin {"idle", "head"}
    /\ Idle(r)
    /\ UNCHANGED <<upstream, tableVars, runs>>

-----------------------------------------------------------------------------

Rebuild(r) ==
    \/ \E forced \in BOOLEAN : Begin(r, forced)
    \/ Head(r) \/ UpToDate(r) \/ Get(r)
    \/ DeleteBegins(r) \/ DeleteSeasons(r) \/ DeleteEntries(r) \/ Insert(r)
    \/ Commit(r) \/ Fail(r)

Next == Publish \/ \E r \in Rebuilders : Rebuild(r)

Spec == Init /\ [][Next]_vars

-----------------------------------------------------------------------------
(* Properties.                                                             *)

\* The dataset the tables hold, as the readers' joins see it.
Held == {v \in Versions : /\ {<<x.slot, x.ver>> : x \in seasons} = Data[v] \X {v}
                          /\ {<<x.slot, x.ver>> : x \in entries} = Data[v] \X {v}}

Shown == IF Held = {} THEN Mixed ELSE CHOOSE v \in Held : TRUE

\* The tables as the readers of MappingSnapshot see them.
Snapshot == INSTANCE MappingSnapshot WITH data <- Shown

\* Every commit, and nothing else, replaces the whole dataset and its etag.
ReplacesWhole == Snapshot!Spec

=============================================================================
