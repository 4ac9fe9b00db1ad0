-------------------------- MODULE SeasonAssignment --------------------------
(***************************************************************************)
(* How a rebuild turns the Fribb dataset into the rows it files:           *)
(* metadata_engine/fribb.py and sync_database_async of mapping_sync.py.    *)
(* MappingSync has the transaction that files them.                        *)
(*                                                                         *)
(* An entry is [anilist, tv, tvdb, movie, season, type]; 0 stands for an   *)
(* id or a season it does not have.                                        *)
(***************************************************************************)
EXTENDS Integers, Sequences, FiniteSetsExt

CONSTANTS
    Items,         \* entries the dataset may have
    RelationSets,  \* what AniList may tell: sets of [from, to, side]
    OverrideSets,  \* what overrides.json may say: sets of [show, season, anilist]
    MaxItems       \* bound: entries of the dataset

VARIABLES
    dataset,    \* the Fribb list, in its order
    relations,  \* the edges AniList answered with; side: of a kind and a format of side content
    overrides   \* at most one for a slot

vars == <<dataset, relations, overrides>>

TypeOK ==
    /\ dataset \in Seq(Items) /\ Len(dataset) <= MaxItems
    /\ relations \in RelationSets
    /\ overrides \in OverrideSets

Init ==
    /\ dataset = <<>>
    /\ relations \in RelationSets
    /\ overrides \in OverrideSets

-----------------------------------------------------------------------------
(* group_by_show. Two equal entries are two entries, so what is bucketed are their places in the list. *)

\* The show of a tvdb series: the first entry that names both decides.
ShowOfTvdb(data, tvdb) ==
    LET naming == {i \in DOMAIN data : data[i].tvdb = tvdb /\ data[i].tv # 0}
        first  == CHOOSE i \in naming : \A j \in naming : i <= j
    IN  IF tvdb = 0 \/ naming = {} THEN 0 ELSE data[first].tv

ShowOf(data, x) == IF x.tv # 0 THEN x.tv ELSE ShowOfTvdb(data, x.tvdb)

\* What is attached through its tvdb series has no season.
SeasonOf(x) == IF x.tv # 0 THEN x.season ELSE 0

Group(data, show) == {i \in DOMAIN data : data[i].anilist # 0 /\ ShowOf(data, data[i]) = show}

Shows(data) ==
    {ShowOf(data, data[i]) : i \in {j \in DOMAIN data : data[j].anilist # 0}} \ {0}

OrphanMovies(data) == {data[i].anilist : i \in {j \in Group(data, 0) : data[j].movie # 0}}

-----------------------------------------------------------------------------
(* assign_seasons *)

\* _wins_slot: a TV entry first, then the lowest AniList id.
Wins(x, current) ==
    IF (x.type = "TV") # (current.type = "TV") THEN x.type = "TV"
                                               ELSE x.anilist < current.anilist

\* One turn of the loop over a show's entries: i takes its slot, or is left over.
Place(data, assigned, i) ==
    LET chosen == assigned.chosen
        s      == SeasonOf(data[i])
        taken  == s \in DOMAIN chosen
    IN  IF s < 1 \/ (taken /\ ~Wins(data[i], data[chosen[s]]))
        THEN [chosen |-> chosen, left |-> assigned.left \cup {i}]
        ELSE [chosen |-> [t \in DOMAIN chosen \cup {s} |-> IF t = s THEN i ELSE chosen[t]],
              left   |-> assigned.left \cup (IF taken THEN {chosen[s]} ELSE {})]

\* The loop, in the order of the list.
Placed(data, show) ==
    LET turn[n \in 0..Len(data)] ==
            IF n = 0 THEN [chosen |-> [s \in {} |-> 0], left |-> {}]
            ELSE IF n \in Group(data, show) THEN Place(data, turn[n - 1], n) ELSE turn[n - 1]
    IN  turn[Len(data)]

\* A show without a slot has its lowest TV entry as its first season.
FirstSeason(data, assigned) ==
    LET tv    == {i \in assigned.left : data[i].type = "TV"}
        first == CHOOSE i \in tv : \A j \in tv : data[i].anilist <= data[j].anilist
    IN  IF DOMAIN assigned.chosen # {} \/ tv = {} THEN assigned
        ELSE [chosen |-> [s \in {1} |-> first], left |-> assigned.left \ {first}]

Assigned(data, show) == FirstSeason(data, Placed(data, show))

SeasonRows(data) ==
    UNION {LET chosen == Assigned(data, t).chosen
           IN  {[show |-> t, season |-> s, anilist |-> data[chosen[s]].anilist] :
                s \in DOMAIN chosen} : t \in Shows(data)}

LeftOver(data) ==
    UNION {{[show |-> t, anilist |-> data[i].anilist] : i \in Assigned(data, t).left} :
           t \in Shows(data)}

-----------------------------------------------------------------------------
(* relation_extras, and the tables *)

Ids(rows) == {r.anilist : r \in rows}

\* The side content one hop from an entry of the show, unless it has a season of its own.
Related(data) ==
    LET members == LeftOver(data)
                   \cup {[show |-> r.show, anilist |-> r.anilist] : r \in SeasonRows(data)}
    IN  (UNION {{[show |-> m.show, anilist |-> e.to] :
                    e \in {f \in relations : f.from = m.anilist /\ f.side}} : m \in members})
        \ {[show |-> t, anilist |-> id] : t \in Shows(data), id \in Ids(SeasonRows(data))}

\* tmdb_extras
Extras(data) == LeftOver(data) \cup Related(data)

\* anime_entries
Entries(data) ==
    OrphanMovies(data) \cup Ids(Related(data))
    \cup UNION {{data[i].anilist : i \in Group(data, t)} : t \in Shows(data)}

\* tmdb_seasons: an override has its slot, unless its entry is unknown (_apply_overrides).
Seasons(data) ==
    LET known == {o \in overrides : o.anilist \in Entries(data)}
    IN  {r \in SeasonRows(data) : \A o \in known : <<o.show, o.season>> # <<r.show, r.season>>}
        \cup known

-----------------------------------------------------------------------------

\* Upstream's list grows.
Publish(x) ==
    /\ Len(dataset) < MaxItems
    /\ dataset' = Append(dataset, x)
    /\ UNCHANGED <<relations, overrides>>

Next == \E x \in Items : Publish(x)

Spec == Init /\ [][Next]_vars

-----------------------------------------------------------------------------
(* Properties *)

\* The entries a season would be given to, were there no other.
Claims(show, s) == {i \in Group(dataset, show) : SeasonOf(dataset[i]) = s}

\* The best of some entries: the lowest of TV ones if there is one, else the lowest.
Best(claims) ==
    LET tv == {i \in claims : dataset[i].type = "TV"}
    IN  Min({dataset[i].anilist : i \in IF tv = {} THEN claims ELSE tv})

\* A slot is given to the best of its claims, and a show none of whose entries claims a slot
\* has its best TV entry as the first season: what the loop over the entries comes to
\* (assign_seasons, _wins_slot).
BestTakesSlot ==
    \A t \in Shows(dataset) :
        LET group   == Group(dataset, t)
            claimed == {SeasonOf(dataset[i]) : i \in group} \ {0}
            tv      == {i \in group : dataset[i].type = "TV"}
            rows    == {<<r.season, r.anilist>> : r \in {q \in SeasonRows(dataset) : q.show = t}}
        IN  /\ claimed # {} => rows = {<<s, Best(Claims(t, s))>> : s \in claimed}
            /\ claimed = {} => rows = IF tv = {} THEN {} ELSE {<<1, Best(tv)>>}

\* Nothing is lost: as many rows as entries for every show, and a film with no show is filed
\* (the module comment of fribb.py).
EveryEntryIsFiled ==
    /\ \A t \in Shows(dataset) :
           LET assigned == Assigned(dataset, t)
           IN  Cardinality(Group(dataset, t)) =
               Cardinality(DOMAIN assigned.chosen) + Cardinality(assigned.left)
    /\ \A i \in DOMAIN dataset : dataset[i].anilist # 0 =>
           /\ ShowOf(dataset, dataset[i]) # 0 =>
                  dataset[i].anilist \in Ids(SeasonRows(dataset) \cup LeftOver(dataset))
           /\ dataset[i].movie # 0 => dataset[i].anilist \in Entries(dataset)

\* No tvdb series is tagged with two shows.
SeriesHaveOneShow ==
    \A i, j \in DOMAIN dataset :
        (/\ dataset[i].tvdb = dataset[j].tvdb /\ dataset[i].tvdb # 0
         /\ dataset[i].tv # 0 /\ dataset[j].tv # 0) => dataset[i].tv = dataset[j].tv

\* Where the dataset agrees on every series, the order of the list changes no row, so that every
\* rebuild files the same (_wins_slot).
SameOnEveryRebuild ==
    LET Swapped(i) == [dataset EXCEPT ![i] = dataset[i + 1], ![i + 1] = dataset[i]]
    IN  SeriesHaveOneShow => \A i \in 1..(Len(dataset) - 1) :
            /\ Seasons(Swapped(i)) = Seasons(dataset)
            /\ Extras(Swapped(i)) = Extras(dataset)
            /\ Entries(Swapped(i)) = Entries(dataset)

\* The rows fit the tables' keys, the overrides' too, so the rebuild is not rolled back: one entry
\* for a slot, and every season and extra of an entry that is filed (init_db, _apply_overrides).
KeysHold ==
    /\ \A r, q \in Seasons(dataset) : r.show = q.show /\ r.season = q.season => r = q
    /\ Ids(Seasons(dataset)) \cup Ids(Extras(dataset)) \subseteq Entries(dataset)

=============================================================================
