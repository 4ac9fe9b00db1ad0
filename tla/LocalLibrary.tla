--------------------------- MODULE LocalLibrary ---------------------------
(* local_engine's routes over one registered root: every listing and every
   stream asks the roots configuration, which each replica holds for a few
   seconds, and the listing keeps its scan for a minute in the in-process cache
   (core.bounded_cache).  Handlers run in worker threads, so each access of a
   cache is an action, and the operator's changes, here or on another replica,
   fall anywhere between them. *)
EXTENDS Integers, FiniteSets

CONSTANTS Requests,   \* threads that serve requests at once
          RootsTTL,   \* _ROOTS_TTL, in ticks
          ItemsTTL,   \* _ITEMS_TTL, in ticks
          LastTick,   \* bound: the clock
          Failures    \* bound: reads of the roots that the database fails

ASSUME TimesAssumption == RootsTTL \in Nat

VARIABLES served,     \* the row: enabled, and encoding where the file needs it
          changing,   \* update_source between its UPDATE and its _bump
          roots,      \* _roots_cache and _roots_cache_at
          items,      \* the entry of _ITEMS_KEY: its scan and when it expires
          request,    \* thread |-> where its handler stands
          now, failed,
          lastServed  \* history: the last tick the row was on

vars == <<served, changing, roots, items, request, now, failed, lastServed>>

None == [kept |-> FALSE]
Held(val, at) == [kept |-> TRUE, val |-> val, at |-> at]
Slot == {None} \cup [kept: {TRUE}, val: BOOLEAN, at: 0..(LastTick + ItemsTTL)]
Idle == [at |-> "idle", for |-> "play", got |-> FALSE, since |-> 0, late |-> FALSE]

TypeOK ==
    /\ served \in BOOLEAN /\ changing \in BOOLEAN
    /\ roots \in Slot /\ items \in Slot
    /\ now \in 0..LastTick /\ failed \in 0..Failures /\ lastServed \in 0..LastTick
    /\ request \in [Requests ->
         [at: {"idle", "config", "query", "store", "lookup", "expired", "scanned",
               "playing", "crashed"},
          for: {"play", "list", "scan"}, got: BOOLEAN, since: 0..LastTick, late: BOOLEAN]]

Init ==
    /\ served = TRUE /\ changing = FALSE
    /\ roots = None /\ items = None
    /\ request = [r \in Requests |-> Idle]
    /\ now = 0 /\ failed = 0 /\ lastServed = 0

\* A request; `late` marks one that arrives when the row is off and no change of
\* this replica is under way.
Ask(r) ==
    /\ request[r] = Idle
    /\ \E what \in {"play", "list"} :
         request' = [request EXCEPT ![r] =
            [at |-> "config", for |-> what, got |-> FALSE, since |-> now,
             late |-> what = "play" /\ ~served /\ ~changing]]
    /\ UNCHANGED <<served, changing, roots, items, now, failed, lastServed>>

\* The roots are known: a stream starts or is a 404 (safe_resolve,
\* safe_resolve_transcode), a listing goes on, a scan walks them.
Answer(r, val) ==
    request' = [request EXCEPT ![r] =
       CASE request[r].for = "scan" -> [Idle EXCEPT !.at = "scanned", !.got = val]
         [] request[r].for = "list" /\ val -> [Idle EXCEPT !.at = "lookup"]
         [] request[r].for = "play" /\ val -> [Idle EXCEPT !.at = "playing"]
         [] OTHER -> Idle]

\* enabled_roots_config: the clock is read before the query, so an entry's age
\* counts from before its rows were read.
ReadRoots(r) ==
    /\ request[r].at = "config"
    /\ IF roots.kept /\ now - roots.at < RootsTTL
       THEN Answer(r, roots.val)
       ELSE request' = [request EXCEPT ![r].at = "query", ![r].since = now]
    /\ UNCHANGED <<served, changing, roots, items, now, failed, lastServed>>

\* A query that fails answers what this replica last knew.
QueryRoots(r) ==
    /\ request[r].at = "query"
    /\ \/ /\ request' = [request EXCEPT ![r].at = "store", ![r].got = served]
          /\ UNCHANGED failed
       \/ /\ failed < Failures
          /\ failed' = failed + 1
          /\ request' = [request EXCEPT ![r].at = "store",
                                        ![r].got = roots.kept /\ roots.val]
    /\ UNCHANGED <<served, changing, roots, items, now, lastServed>>

StoreRootsAsNew(r) ==
    /\ request[r].at = "store"
    /\ roots' = Held(request[r].got, now)
    /\ Answer(r, request[r].got)
    /\ UNCHANGED <<served, changing, items, now, failed, lastServed>>
StoreRoots(r) ==
    /\ request[r].at = "store"
    /\ roots' = Held(request[r].got, request[r].since)
    /\ Answer(r, request[r].got)
    /\ UNCHANGED <<served, changing, items, now, failed, lastServed>>

Expired == items.kept /\ items.at <= now

\* _cached_items: BoundedCache.get looks, and deletes what has expired.
ScanFirst == [Idle EXCEPT !.at = "config", !.for = "scan", !.since = now]
LookUp(r) ==
    /\ request[r].at = "lookup"
    /\ request' = [request EXCEPT ![r] =
          IF Expired THEN [Idle EXCEPT !.at = "expired"]
          ELSE IF items.kept THEN Idle ELSE ScanFirst]
    /\ UNCHANGED <<served, changing, roots, items, now, failed, lastServed>>

\* `del` of a key another thread has deleted meanwhile raises.
DropExpired(r) ==
    /\ request[r].at = "expired"
    /\ items' = None
    /\ request' = [request EXCEPT ![r] =
          IF items.kept THEN ScanFirst ELSE [Idle EXCEPT !.at = "crashed"]]
    /\ UNCHANGED <<served, changing, roots, now, failed, lastServed>>

\* scan_library over the roots, and local_set of what it found.
KeepScan(r) ==
    /\ request[r].at = "scanned"
    /\ items' = Held(request[r].got, now + ItemsTTL)
    /\ request' = [request EXCEPT ![r] = Idle]
    /\ UNCHANGED <<served, changing, roots, now, failed, lastServed>>

Done(r) ==
    /\ request[r].at \in {"playing", "crashed"}
    /\ request' = [request EXCEPT ![r] = Idle]
    /\ UNCHANGED <<served, changing, roots, items, now, failed, lastServed>>

\* update_source and delete_source: the row, then _bump of this replica's cache;
\* on another replica the bump is of that one's.
Change ==
    /\ ~changing
    /\ served' = ~served
    /\ lastServed' = now
    /\ changing' \in BOOLEAN
    /\ UNCHANGED <<roots, items, request, now, failed>>

Bump ==
    /\ changing
    /\ roots' = None /\ changing' = FALSE
    /\ UNCHANGED <<served, items, request, now, failed, lastServed>>

Tick ==
    /\ now < LastTick
    /\ now' = now + 1
    /\ lastServed' = IF served THEN now + 1 ELSE lastServed
    /\ UNCHANGED <<served, changing, roots, items, request, failed>>

Next ==
    \/ \E r \in Requests :
         \/ Ask(r) \/ ReadRoots(r) \/ QueryRoots(r) \/ StoreRoots(r)
         \/ LookUp(r) \/ DropExpired(r) \/ KeepScan(r) \/ Done(r)
    \/ Change \/ Bump \/ Tick

Spec == Init /\ [][Next]_vars

-----------------------------------------------------------------------------
Starts(r) == request'[r].at = "playing" /\ request[r].at # "playing"

\* While the database answers, a stream that starts was asked for while its root
\* was on, or less than the roots' TTL after: no interleaving of slow readers with
\* a change and its bump keeps a dead root alive longer (enabled_roots_config).
StreamsEnd ==
    [][\A r \in Requests :
         Starts(r) /\ failed = 0 =>
           request[r].since <= lastServed \/ now - lastServed < RootsTTL]_vars

\* "Disabling the root or its encoding switch 404s these at once" (media_routes):
\* a request that arrives when the change is done starts no stream.
StopsAtOnce == [][\A r \in Requests : Starts(r) => ~request[r].late]_vars

\* BoundedCache.get: "The stored value, or None when absent or expired".
GetAnswers == \A r \in Requests : request[r].at # "crashed"
=============================================================================
