---------------------------- MODULE MetadataFetch ----------------------------
(***************************************************************************)
(* How the metadata pages get what TMDB and AniList know                   *)
(* (metadata_engine/tmdb.py, anilist.py, overview.py, next_episode.py)     *)
(* through the two-tier response cache and its stale shadow                *)
(* (core/response_cache.py) and request coalescing (core/single_flight.py).*)
(*                                                                         *)
(* Requests are coroutines of one event loop that may be cancelled at any  *)
(* await.  Keys share nothing, so a behaviour is about one key of one      *)
(* kind.  A value is the time it was fetched at: 0 is nothing at all, and  *)
(* Blank the answer made up for a season that could not be fetched.        *)
(***************************************************************************)
EXTENDS Integers, FiniteSets

CONSTANTS
    Fetchers,    \* requests (bound: how many are under way at once)
    FreshFor,    \* CACHE_TTL, of an api_cache row
    LocalFor,    \* _LOCAL_TTL, of an entry of this process
    StaleFor,    \* STALE_TTL_SECONDS, of a shadow
    LastTime,    \* bound on the clock
    Nobody       \* no request

\* fetch_tmdb_show and fetch_tmdb_movie, season_episode_info, fetch_anilist_metadata, search and
\* trending, and the AniList browse pages, trending row and genres.
Kinds     == {"show", "season", "anime", "search", "browse"}
Local     == {"season", "search"}
Coalesced == {"anime", "search"}
Shadowed  == {"anime", "browse"}
Blank     == -1
Values    == Blank..LastTime

VARIABLES
    time,      \* the clock
    kind,      \* the kind of the key
    local,     \* its entry of _local
    fresh,     \* its row of api_cache
    shadow,    \* its row of api_cache under the stale key
    row,       \* the title's row of tmdb_shows, as the time it was fetched at
    inflight,  \* _inflight: the request whose task is in flight
    fetch,     \* request -> its stage, the fetch it waits for, its answer
    load,      \* request -> the fetch it runs itself or started as a task
    known      \* history: until when a copy that was stored is to be had

vars == <<time, kind, local, fresh, shadow, row, inflight, fetch, load, known>>

Entry == [val : Values, until : 0..(LastTime + StaleFor)]
NoEntry == [val |-> 0, until |-> 0]
Stages == {"idle", "local", "fresh", "join", "wait", "row", "done"}
Steps  == {"none", "call", "row", "fresh", "shadow", "local", "stale", "ended"}

TypeOK ==
    /\ time \in 1..LastTime
    /\ kind \in Kinds
    /\ {local, fresh, shadow} \subseteq Entry
    /\ row \in 0..LastTime
    /\ inflight \in Fetchers \cup {Nobody}
    /\ fetch \in [Fetchers -> [at : Stages, on : Fetchers \cup {Nobody}, val : Values,
                               flag : {"", "degraded", "404"}]]
    /\ load \in [Fetchers -> [at : Steps, val : Values, failed : BOOLEAN]]
    /\ known \in 0..(LastTime + StaleFor)

Idle   == [at |-> "idle", on |-> Nobody, val |-> 0, flag |-> ""]
NoLoad == [at |-> "none", val |-> 0, failed |-> FALSE]

Init ==
    /\ time = 1 /\ row = 0
    /\ kind \in Kinds
    /\ local = NoEntry /\ fresh = NoEntry /\ shadow = NoEntry
    /\ inflight = Nobody
    /\ fetch = [q \in Fetchers |-> Idle] /\ load = [q \in Fetchers |-> NoLoad]
    /\ known = 0

cacheVars == <<local, fresh, shadow, row, known>>

\* An entry that has expired is as good as none.
Held(entry) == IF entry.until > time THEN entry.val ELSE 0
Kept(val, life) == [val |-> val, until |-> time + life]

-----------------------------------------------------------------------------
(* A request.                                                              *)

\* A request is made; its slot is free once the task it led has ended too.
Ask(q) ==
    /\ fetch[q].at \in {"idle", "done"} /\ load[q].at = "none"
    /\ fetch' = [fetch EXCEPT ![q] = [Idle EXCEPT !.at = IF kind \in Local THEN "local" ELSE "fresh"]]
    /\ UNCHANGED <<time, kind, cacheVars, inflight, load>>

Answer(q, v) == [fetch EXCEPT ![q].at = "done", ![q].val = v]

\* local_get
ReadLocal(q) ==
    /\ fetch[q].at = "local"
    /\ fetch' = IF local.until > time THEN Answer(q, local.val)
                ELSE [fetch EXCEPT ![q].at = "fresh"]
    /\ UNCHANGED <<time, kind, cacheVars, inflight, load>>

\* get_cached_response; a database error reads as a miss, and a hit is copied to the process.
ReadFresh(q, readable) ==
    /\ fetch[q].at = "fresh"
    /\ LET hit == readable /\ fresh.until > time
       IN  /\ fetch' = IF hit THEN Answer(q, fresh.val) ELSE [fetch EXCEPT ![q].at = "join"]
           /\ local' = IF hit /\ kind \in Local THEN Kept(fresh.val, LocalFor) ELSE local
    /\ UNCHANGED <<time, kind, fresh, shadow, row, known, inflight, load>>

\* single_flight.run: a fetch of a coalesced kind is joined, or led as a task of its own; a fetch
\* of any other kind is the request's own.  A task that has ended and was not released yet is
\* joined too, and answers at once.
Join(q) ==
    /\ fetch[q].at = "join"
    /\ LET leader == IF kind \in Coalesced /\ inflight # Nobody THEN inflight ELSE q
       IN  /\ fetch' = [fetch EXCEPT ![q].at = "wait", ![q].on = leader]
           /\ load' = IF leader = q THEN [load EXCEPT ![q] = [NoLoad EXCEPT !.at = "call"]] ELSE load
           /\ inflight' = IF kind \in Coalesced THEN leader ELSE inflight
    /\ UNCHANGED <<time, kind, cacheVars>>

\* Mutant: a request that goes takes the key of the flight with it.
LeaveReleases(q) ==
    /\ fetch[q].at \notin {"idle", "done"}
    /\ fetch' = [fetch EXCEPT ![q] = Idle]
    /\ load' = IF kind \in Coalesced THEN load ELSE [load EXCEPT ![q] = NoLoad]
    /\ inflight' = IF inflight = q THEN Nobody ELSE inflight
    /\ UNCHANGED <<time, kind, cacheVars>>

\* The client goes away: its coroutine is cancelled, but not a task, which is shielded.
Leave(q) ==
    /\ fetch[q].at \notin {"idle", "done"}
    /\ fetch' = [fetch EXCEPT ![q] = Idle]
    /\ load' = IF kind \in Coalesced THEN load ELSE [load EXCEPT ![q] = NoLoad]
    /\ UNCHANGED <<time, kind, cacheVars, inflight>>

-----------------------------------------------------------------------------
(* A fetch.                                                                *)

Goes(q, step) == load' = [load EXCEPT ![q].at = step]

\* fetch_with_retry and anilist_post answer.
CallAnswers(q) ==
    /\ load[q].at = "call"
    /\ load' = [load EXCEPT ![q].val = time, ![q].at = IF kind = "show" THEN "row" ELSE "fresh"]
    /\ UNCHANGED <<time, kind, cacheVars, inflight, fetch>>

\* They give up after their retries.  A season is made up from the show and filed like one that
\* was fetched; what has a shadow is answered with it, and the rest is nothing.
CallFails(q) ==
    /\ load[q].at = "call"
    /\ load' = [load EXCEPT ![q].failed = TRUE,
                            ![q].val = IF kind = "season" THEN Blank ELSE 0,
                            ![q].at = CASE kind = "season"   -> "fresh"
                                        [] kind \in Shadowed -> "stale"
                                        [] OTHER             -> "ended"]
    /\ UNCHANGED <<time, kind, cacheVars, inflight, fetch>>

\* upsert_shows; a database error is swallowed, here and below.
WriteRow(q, written) ==
    /\ load[q].at = "row"
    /\ row' = IF written THEN load[q].val ELSE row
    /\ Goes(q, "fresh")
    /\ UNCHANGED <<time, kind, local, fresh, shadow, known, inflight, fetch>>

\* set_cached_response
WriteFresh(q, written) ==
    /\ load[q].at = "fresh"
    /\ fresh' = IF written THEN Kept(load[q].val, FreshFor) ELSE fresh
    /\ Goes(q, CASE kind \in Shadowed -> "shadow" [] kind \in Local -> "local" [] OTHER -> "ended")
    /\ UNCHANGED <<time, kind, local, shadow, row, known, inflight, fetch>>

\* Mutant: the shadow lives no longer than the entry beside it.
WriteShadowBriefly(q, written) ==
    /\ load[q].at = "shadow"
    /\ shadow' = IF written THEN Kept(load[q].val, FreshFor) ELSE shadow
    /\ known' = IF written THEN time + StaleFor ELSE known
    /\ Goes(q, "ended")
    /\ UNCHANGED <<time, kind, local, fresh, row, inflight, fetch>>

\* set_cached_response_shadowed, its second write
WriteShadow(q, written) ==
    /\ load[q].at = "shadow"
    /\ shadow' = IF written THEN Kept(load[q].val, StaleFor) ELSE shadow
    /\ known' = IF written THEN time + StaleFor ELSE known
    /\ Goes(q, "ended")
    /\ UNCHANGED <<time, kind, local, fresh, row, inflight, fetch>>

\* local_set
WriteLocal(q) ==
    /\ load[q].at = "local"
    /\ local' = Kept(load[q].val, LocalFor)
    /\ Goes(q, "ended")
    /\ UNCHANGED <<time, kind, fresh, shadow, row, known, inflight, fetch>>

\* get_stale_response; an unreadable shadow is left out.
ReadStale(q) ==
    /\ load[q].at = "stale"
    /\ load' = [load EXCEPT ![q].val = Held(shadow), ![q].at = "ended"]
    /\ UNCHANGED <<time, kind, cacheVars, inflight, fetch>>

\* The fetch is over: a task's done callback takes the key out of _inflight, and those who wait
\* wake with its answer; a show that could not be had is looked up in the table.
End(q) ==
    /\ load[q].at = "ended"
    /\ fetch' = [p \in Fetchers |->
                    IF fetch[p].at = "wait" /\ fetch[p].on = q
                    THEN [fetch[p] EXCEPT !.val = load[q].val, !.on = Nobody,
                             !.at = IF kind = "show" /\ load[q].failed THEN "row" ELSE "done"]
                    ELSE fetch[p]]
    /\ load' = [load EXCEPT ![q] = NoLoad]
    /\ inflight' = IF inflight = q THEN Nobody ELSE inflight
    /\ UNCHANGED <<time, kind, cacheVars>>

\* show_overview and movie_overview without TMDB: the page of the stored row, or 404.
ReadRow(q) ==
    /\ fetch[q].at = "row"
    /\ fetch' = [fetch EXCEPT ![q].at = "done", ![q].val = row,
                              ![q].flag = IF row = 0 THEN "404" ELSE "degraded"]
    /\ UNCHANGED <<time, kind, cacheVars, inflight, load>>

\* purge_expired_cache
Purge ==
    /\ \E entry \in {fresh, shadow} : entry.until \in 1..(time - 1)
    /\ fresh' = IF fresh.until < time THEN NoEntry ELSE fresh
    /\ shadow' = IF shadow.until < time THEN NoEntry ELSE shadow
    /\ UNCHANGED <<time, kind, local, row, known, inflight, fetch, load>>

\* BoundedCache.set of other keys, in a full cache
Evict ==
    /\ local # NoEntry
    /\ local' = NoEntry
    /\ UNCHANGED <<time, kind, fresh, shadow, row, known, inflight, fetch, load>>

Tick ==
    /\ time < LastTime
    /\ time' = time + 1
    /\ UNCHANGED <<kind, cacheVars, inflight, fetch, load>>

Next ==
    \/ \E q \in Fetchers :
          \/ Ask(q)
          \/ ReadLocal(q) \/ Join(q) \/ Leave(q) \/ CallAnswers(q) \/ CallFails(q)
          \/ WriteLocal(q) \/ ReadStale(q) \/ End(q) \/ ReadRow(q)
          \/ \E ok \in BOOLEAN : ReadFresh(q, ok) \/ WriteRow(q, ok) \/ WriteFresh(q, ok) \/ WriteShadow(q, ok)
    \/ Purge \/ Evict \/ Tick

Spec == Init /\ [][Next]_vars

-----------------------------------------------------------------------------
(* Properties.                                                             *)

\* "One upstream call per key at a time": however requests come and go, no coalesced kind is
\* fetched twice at once, and nobody waits for a fetch that is over.
OneCallPerKey ==
    /\ kind \in Coalesced => Cardinality({q \in Fetchers : load[q].at # "none"}) <= 1
    /\ \A q \in Fetchers : fetch[q].at = "wait" => load[fetch[q].on].at # "none"

\* While a copy that was stored lives, an outage never answers with nothing: "a failed upstream
\* serves the previous result instead of an empty grid".
KnownIsServed ==
    [][\A q \in Fetchers :
          load[q].at = "stale" /\ load'[q].at = "ended" /\ known > time
              => load'[q].val > 0]_vars

\* "A row whose season cannot be fetched is left as it was" (next_episode.annotate).
UnfetchedIsLeftOut == \A q \in Fetchers : fetch[q].at = "done" => fetch[q].val # Blank

=============================================================================
