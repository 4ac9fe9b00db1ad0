---------------------------- MODULE MCCatalogue -----------------------------
(***************************************************************************)
(* Notifier with the components around the catalogue's tables: the mapping *)
(* rebuild and the rows it files, maintenance and backfill, the browse     *)
(* caches, the start of replicas, the supporters' ledger, and the caches   *)
(* of the remux queue's settings. One runs at a time.                      *)
(***************************************************************************)
EXTENDS Notifier, TLC

CONSTANTS
    Rebuilders, Slots, Data, NoEtag, ForceEmptyDb, ForcedResync, Mixed, StartVersion, MaxVersion,
    MaxRuns, Clicks, Drains, Titles, Buckets, MaxNight, Readers, LocalLife, StoredLife,
    LastVersion, LastHour, Images, Bad, Stores, Starts, Nobody, Payments, Viewers, ListTTL,
    Window, LastTick, Writers, NoValue, TTL, MaxCall, LastTime, MaxWrite, MaxError,
    Items, RelationSets, OverrideSets, MaxItems

VARIABLES
    part,  \* the component that runs
    upstream, seasons, entries, etag, rebuildPc, force, local, head, got, tx, seen, gone, new,
    runs,
    click, job, drain, ran, tableRows, stamp, night, slice, failed,
    hour, version, hasFallback, stored, browseLocal, reader,
    recorded, bootRan, lock, boot, starts,
    ledger, posting, announced, rows, generation, viewer, tick,
    settingsNow, db, replaced, value, cachedAt, threadPc, begun, threadGot, errors,
    dataset, relations, overrides

\* Datasets that share a slot and differ in the others.
SmallData == [v \in 0..3 |->
    CASE v = 0 -> {} [] v = 1 -> {1, 2} [] v = 2 -> {2, 3} [] OTHER -> {1, 3}]

\* An image, and a later one that edits a migration and adds one the database refuses.
SmallImages == {1 :> "a" @@ 2 :> "b", 1 :> "a2" @@ 2 :> "b" @@ 3 :> "c"}

\* A subscription and its renewal, and a private payment without an id.
SmallPayments ==
    {[id |-> 1, email |-> 1, name |-> 1, at |-> 0, sub |-> TRUE, public |-> TRUE],
     [id |-> 2, email |-> 1, name |-> 0, at |-> 2, sub |-> TRUE, public |-> TRUE],
     [id |-> 0, email |-> 0, name |-> 2, at |-> 1, sub |-> FALSE, public |-> FALSE]}

Entry(id, tv, tvdb, movie, season, type) ==
    [anilist |-> id, tv |-> tv, tvdb |-> tvdb, movie |-> movie, season |-> season, type |-> type]

\* Claims on the slots of two shows by three entries, one series that both are tagged with, films
\* with and without a show, and entries without an id or without anything else.
SmallItems ==
    {Entry(i, 1, 7, 0, s, "TV") : i \in 1..2, s \in 0..1}
    \cup {Entry(i, 1, 0, 0, s, "OVA") : i \in {1, 3}, s \in 0..1}
    \cup {Entry(3, 0, v, 9, 0, "MOVIE") : v \in {0, 7}}
    \cup {Entry(2, 1, 0, 0, 2, "TV"), Entry(1, 2, 7, 0, 1, "TV"), Entry(2, 2, 0, 0, 1, "TV"),
          Entry(0, 1, 7, 0, 1, "TV"), Entry(4, 0, 0, 0, 0, "OVA")}

Edge(from, to, side) == [from |-> from, to |-> to, side |-> side]

\* No answer, and side content of one and of two entries, known and not, next to a sequel.
SmallRelations ==
    {{}, {Edge(1, 4, TRUE), Edge(2, 3, TRUE), Edge(2, 1, TRUE), Edge(4, 5, TRUE),
          Edge(1, 5, FALSE)}}

Override(show, season, id) == [show |-> show, season |-> season, anilist |-> id]

\* Of a slot that has its claims, and of one that has none; neither entry is always in the dataset.
SmallOverrides == {{Override(1, 1, 4), Override(2, 2, 3)}}

Mapping == INSTANCE MappingSync WITH pc <- rebuildPc
Upkeep == INSTANCE Maintenance WITH rows <- tableRows
Browsing == INSTANCE Browse WITH local <- browseLocal
Booting == INSTANCE Boot WITH ran <- bootRan
Fans == INSTANCE Supporters WITH TTL <- ListTTL
Settings == INSTANCE ReadCache WITH
    None <- NoValue, MaxTime <- LastTime, now <- settingsNow, until <- replaced, stamp <-
    cachedAt, pc <- threadPc, got <- threadGot
Filing == INSTANCE SeasonAssignment

ASSUME DataAssumption == Mapping!DataAssumption /\ Mapping!StartAssumption
ASSUME EtagsAssumption ==
    (\A guess \in Mapping!Guess : guess \notin Nat) /\ NoEtag \notin {ForceEmptyDb, ForcedResync}
ASSUME SettingsAssumption == Settings!NoneAssumption /\ Settings!TimesAssumption
ASSUME BrowseAssumption == {LocalLife, StoredLife, LastVersion} \subseteq Nat /\ LastHour \in Nat \ {0}
ASSUME PaymentsAssumption ==
    /\ \A p \in Payments : p.at \in Nat /\ p.public \in BOOLEAN
    /\ {Window, LastTick} \subseteq Nat /\ IsFiniteSet(Payments)
ASSUME BootAssumption ==
    /\ Nobody \notin Replicas /\ Stores \in Nat \ {0} /\ Starts \in Nat
    /\ \A image \in Images : image \in [DOMAIN image -> Booting!Texts] /\ DOMAIN image \subseteq Nat
ASSUME FilingAssumption ==
    /\ MaxItems \in Nat
    /\ \A x \in Items : {x.anilist, x.tv, x.tvdb, x.movie, x.season} \subseteq Nat
    /\ \A set \in OverrideSets : \A o, p \in set :
           o.show = p.show /\ o.season = p.season => o = p
ASSUME UpkeepAssumption == IsFiniteSet(Titles) /\ Buckets \in Nat \ {0} /\ MaxNight \in Nat

mappingVars == <<upstream, seasons, entries, etag, rebuildPc, force, local, head, got, tx, seen,
                 gone, new, runs>>
maintainVars == <<click, job, drain, ran, tableRows, stamp, night, slice, failed>>
browseVars == <<hour, version, hasFallback, stored, browseLocal, reader>>
bootVars == <<recorded, bootRan, lock, boot, starts>>
supportersVars == <<ledger, posting, announced, rows, generation, viewer, tick>>
settingsVars == <<settingsNow, db, replaced, value, cachedAt, threadPc, begun, threadGot, errors>>
filingVars == <<dataset, relations, overrides>>

Parts == {"notify", "mapping", "maintain", "browse", "boot", "supporters", "settings",
          "filing"}

\* The components that rest stay in one initial state.
AllInit ==
    /\ part \in Parts
    /\ Init
    /\ part # "notify" => ~dry /\ first = [e \in Episodes |-> 0]
    /\ Mapping!Init
    /\ Upkeep!Init
    /\ part # "maintain" => tableRows = <<>>
    /\ Browsing!Init
    /\ part # "browse" => ~hasFallback
    /\ Booting!Init
    /\ Fans!Init
    /\ Settings!Init
    /\ Filing!Init
    /\ part # "filing" => relations = {}

AllNext ==
    \/ /\ part = "notify" /\ Next
       /\ UNCHANGED <<part, mappingVars, maintainVars, browseVars, bootVars, supportersVars,
                      settingsVars, filingVars>>
    \/ /\ part = "mapping" /\ Mapping!Next
       /\ UNCHANGED <<part, vars, maintainVars, browseVars, bootVars, supportersVars,
                      settingsVars, filingVars>>
    \/ /\ part = "maintain" /\ Upkeep!Next
       /\ UNCHANGED <<part, vars, mappingVars, browseVars, bootVars, supportersVars,
                      settingsVars, filingVars>>
    \/ /\ part = "browse" /\ Browsing!Next
       /\ UNCHANGED <<part, vars, mappingVars, maintainVars, bootVars, supportersVars,
                      settingsVars, filingVars>>
    \/ /\ part = "boot" /\ Booting!Next
       /\ UNCHANGED <<part, vars, mappingVars, maintainVars, browseVars, supportersVars,
                      settingsVars, filingVars>>
    \/ /\ part = "supporters" /\ Fans!Next
       /\ UNCHANGED <<part, vars, mappingVars, maintainVars, browseVars, bootVars, settingsVars,
                      filingVars>>
    \/ /\ part = "settings" /\ Settings!Next
       /\ UNCHANGED <<part, vars, mappingVars, maintainVars, browseVars, bootVars,
                      supportersVars, filingVars>>
    \/ /\ part = "filing" /\ Filing!Next
       /\ UNCHANGED <<part, vars, mappingVars, maintainVars, browseVars, bootVars,
                      supportersVars, settingsVars>>

AllSpec == AllInit /\ [][AllNext]_<<part, vars, mappingVars, maintainVars, browseVars, bootVars,
                                    supportersVars, settingsVars, filingVars>>

-----------------------------------------------------------------------------
(* Properties *)

\* Every component's state has its type, in every reachable state.
Typed ==
    /\ part \in Parts
    /\ part = "notify" => TypeOK
    /\ part = "mapping" => Mapping!TypeOK
    /\ part = "maintain" => Upkeep!TypeOK
    /\ part = "browse" => Browsing!TypeOK
    /\ part = "boot" => Booting!TypeOK
    /\ part = "supporters" => Fans!TypeOK
    /\ part = "settings" => Settings!TypeOK
    /\ part = "filing" => Filing!TypeOK

\* One mail per follower and episode, and a row says sent only when the mail left (run_notifier).
MailedOnce == part = "notify" => AtMostOnce /\ SentWasMailed

\* Overlapping rebuilds replace one whole dataset by another (sync_database_async).
Snapshot == INSTANCE MappingSnapshot
    WITH Versions <- Mapping!Versions, Guess <- Mapping!Guess,
         data <- IF part = "mapping" THEN Mapping!Shown ELSE StartVersion
ReplacesWhole == Snapshot!Spec

\* A backfill job is begun once however many replicas drain the queue, and every row of a refreshed
\* table has its turn within the buckets' number of nights (maintenance.py). The rows of a rebuild
\* give every slot to its best claim, lose no entry, do not hang on the order of the dataset, and
\* fit the tables' keys (fribb.py).
UpkeepHolds ==
    /\ part = "maintain" => Upkeep!JobRunsOnce /\ Upkeep!TableCycles
    /\ part = "filing" => /\ Filing!BestTakesSlot /\ Filing!EveryEntryIsFiled
                          /\ Filing!SameOnEveryRebuild /\ Filing!KeysHold

\* Replicas that boot together leave a schema that is whole, each migration applied once, and the
\* pool is closed after the last job that uses it (startup.py, migrations.py).
BootHolds == part = "boot" => Booting!SchemaIsWhole /\ Booting!PoolOutlivesJobs

\* What a replica's caches say is recent: the settings are no older than their TTL and one call
\* (cache_engine/db.py), the list of supporters has every payment the replica answered for
\* (supporters_engine/service.py), and the list, facets and body of an answer are of one version of
\* the catalogue (browse.py).
CachesHold ==
    /\ [](part = "settings" => Settings!StoredIsRecent)
    /\ [](part = "supporters" => Fans!PayersAreListed)
    /\ Browsing!AnswersFit

Symmetry ==
    Permutations(Users)
=============================================================================
