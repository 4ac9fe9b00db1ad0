-------------------------------- MODULE Browse --------------------------------
(***************************************************************************)
(* One catalogue of the browse hubs (metadata_engine/browse.py): its list, *)
(* the facets counted from it and the encoded whole body, each an entry of *)
(* the process's cache, in front of api_cache and the tables.              *)
(*                                                                         *)
(* Requests are coroutines of one event loop: between two awaits nothing   *)
(* else runs.  A list is the version of the tables it was built from.      *)
(***************************************************************************)
EXTENDS Integers, FiniteSets

CONSTANTS
    Readers,     \* requests (bound: how many are under way at once)
    LocalLife,   \* _LOCAL_TTL
    StoredLife,  \* TRENDING_CACHE_TTL
    LastVersion, \* bound on the versions of the tables
    LastHour     \* bound on the clock

Entries == {"items", "derived", "body"}
Nothing == [items |-> 0, derived |-> 0]

VARIABLES
    hour,      \* the clock
    version,   \* the tables, 0 while they are empty
    hasFallback, \* the catalogue is the anime hub's, which local_anime_fallback loads too
    stored,    \* its row of api_cache: version and expiry
    local,     \* entry -> the versions its list and its facets are of, and its expiry
    reader     \* request -> view it asks for, stage, list it has and answer

vars == <<hour, version, hasFallback, stored, local, reader>>

Alive(e) == local[e].until > hour
Views == {"whole", "filtered", "fallback"}

TypeOK ==
    /\ hour \in 1..LastHour /\ version \in 0..LastVersion /\ hasFallback \in BOOLEAN
    /\ stored.val \in 0..LastVersion /\ stored.until \in 0..(LastHour + StoredLife)
    /\ local \in [Entries -> [items : 0..LastVersion, derived : 0..LastVersion,
                              until : 0..(LastHour + LocalLife)]]
    /\ reader \in [Readers -> [view : Views, at : {"idle", "api", "build", "store", "finish"},
                               got : 0..LastVersion,
                               answer : [items : 0..LastVersion, derived : 0..LastVersion]]]

NoEntry == [items |-> 0, derived |-> 0, until |-> 0]

Init ==
    /\ hour = 1 /\ version = 0 /\ hasFallback \in BOOLEAN
    /\ stored = [val |-> 0, until |-> 0]
    /\ local = [e \in Entries |-> NoEntry]
    /\ reader = [q \in Readers |-> [view |-> "whole", at |-> "idle", got |-> 0, answer |-> Nothing]]

-----------------------------------------------------------------------------
Entry(items, derived) == [items |-> items, derived |-> derived, until |-> hour + LocalLife]

\* The answer to q from a cache that holds list and facets: a filtered view of them, or the
\* memoized body, encoded now when there is none.
Serve(q, view, cache) ==
    LET pair == [items |-> cache["items"].items, derived |-> cache["derived"].derived]
        memo == [items |-> cache["body"].items, derived |-> cache["body"].derived]
        known == cache["body"].until > hour
    IN  /\ local' = IF view = "whole" /\ ~known
                    THEN [cache EXCEPT !["body"] = Entry(pair.items, pair.derived)] ELSE cache
        /\ reader' = [reader EXCEPT ![q] = [view |-> view, at |-> "idle", got |-> 0,
                            answer |-> CASE view = "whole" /\ known -> memo
                                         [] view = "fallback"       -> Nothing
                                         [] OTHER                   -> pair]]

\* Mutant: the body of the list before is kept.
LoadedKeepingBody(items, view) ==
    IF view = "fallback" THEN [local EXCEPT !["items"] = Entry(items, 0)]
    ELSE [local EXCEPT !["items"] = Entry(items, 0), !["derived"] = Entry(0, items)]

\* What _load and then _catalogue leave in the cache: facets of the list, and no body.
Loaded(items, view) ==
    IF view = "fallback" THEN [local EXCEPT !["items"] = Entry(items, 0)]
    ELSE [local EXCEPT !["items"] = Entry(items, 0), !["derived"] = Entry(0, items), !["body"] = NoEntry]

\* _catalogue and local_anime_fallback up to their first await.
Ask(q, view) ==
    /\ reader[q].at = "idle"
    /\ view = "fallback" => hasFallback
    /\ IF Alive("items") /\ (view = "fallback" \/ Alive("derived"))
       THEN Serve(q, view, local)
       ELSE IF Alive("items") THEN Serve(q, view, [Loaded(local["items"].items, view)
                                                     EXCEPT !["items"] = local["items"]])
       ELSE /\ reader' = [reader EXCEPT ![q] = [view |-> view, at |-> "api", got |-> 0, answer |-> Nothing]]
            /\ UNCHANGED local
    /\ UNCHANGED <<hour, version, hasFallback, stored>>

\* get_cached_response; a database error reads as a miss.
ReadStored(q, readable) ==
    /\ reader[q].at = "api"
    /\ reader' = [reader EXCEPT ![q].at = IF readable /\ stored.until > hour THEN "finish" ELSE "build",
                                ![q].got = IF readable /\ stored.until > hour THEN stored.val ELSE 0]
    /\ UNCHANGED <<hour, version, hasFallback, stored, local>>

\* get_catalogue_items, get_shows_catalogue_items or get_movies_catalogue_items in a thread; an
\* empty list is not stored.
Build(q) ==
    /\ reader[q].at = "build"
    /\ reader' = [reader EXCEPT ![q].at = IF version = 0 THEN "finish" ELSE "store", ![q].got = version]
    /\ UNCHANGED <<hour, version, hasFallback, stored, local>>

\* set_cached_response, which swallows a database error.
Store(q, written) ==
    /\ reader[q].at = "store"
    /\ stored' = IF written THEN [val |-> reader[q].got, until |-> hour + StoredLife] ELSE stored
    /\ reader' = [reader EXCEPT ![q].at = "finish"]
    /\ UNCHANGED <<hour, version, hasFallback, local>>

\* The rest of _load and _catalogue, without an await.
Finish(q) ==
    /\ reader[q].at = "finish"
    /\ Serve(q, reader[q].view, Loaded(reader[q].got, reader[q].view))
    /\ UNCHANGED <<hour, version, hasFallback, stored>>

\* _replace_tables commits: the catalogues' rows of api_cache go with the old tables.
Rebuild ==
    /\ version < LastVersion
    /\ version' = version + 1
    /\ stored' = [val |-> 0, until |-> 0]
    /\ UNCHANGED <<hour, hasFallback, local, reader>>

\* upsert_shows and upsert_movies leave them.
Upsert ==
    /\ version < LastVersion
    /\ version' = version + 1
    /\ UNCHANGED <<hour, hasFallback, stored, local, reader>>

\* BoundedCache.set of other keys in a full cache
Evict(e) ==
    /\ local[e] # NoEntry
    /\ local' = [local EXCEPT ![e] = NoEntry]
    /\ UNCHANGED <<hour, version, hasFallback, stored, reader>>

Tick ==
    /\ hour < LastHour
    /\ hour' = hour + 1
    /\ UNCHANGED <<version, hasFallback, stored, local, reader>>

Next ==
    \/ \E q \in Readers :
          \/ \E view \in Views : Ask(q, view)
          \/ Build(q) \/ Finish(q)
          \/ \E ok \in BOOLEAN : ReadStored(q, ok) \/ Store(q, ok)
    \/ Rebuild \/ Upsert \/ Tick
    \/ \E e \in Entries : Evict(e)

Spec == Init /\ [][Next]_vars

-----------------------------------------------------------------------------
(* Properties.                                                             *)

\* The facets "describe the whole catalogue": however requests that load it at once, rebuilds,
\* expiries and evictions interleave, no answer shows the facets of one list beside another
\* list where nothing but _catalogue loads it, and a memoized body is never older than the facets
\* in the cache, in the anime hub too.
AnswerFits ==
    \A q \in Readers :
       LET answer == reader'[q].answer
       IN  answer # reader[q].answer /\ reader'[q].at = "idle" =>
              /\ ~hasFallback => answer.items = answer.derived
              /\ reader'[q].view = "whole" => answer.derived = local'["derived"].derived

AnswersFit == [][AnswerFits]_vars

=============================================================================
