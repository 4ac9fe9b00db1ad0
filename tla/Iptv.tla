-------------------------------- MODULE Iptv --------------------------------
(* iptv_engine: one replica's catalogue of live channels.  Requests start a
   background refresh when the catalogue is missing or old and never wait for
   it; the refresh reads the index file by file, while its publisher goes on
   changing it, joins the files and swaps the result in under the lock. *)
EXTENDS Integers, FiniteSets

CONSTANTS Channels,   \* channel ids of the index
          Viewers,    \* requests under way at once
          Hours,      \* iptv_refresh_hours, in ticks
          LastTick    \* bound: the clock

VARIABLES index,      \* external: what the six files say now
          catalog,    \* _catalog: whether there is one, and its channels
          fetchedAt, error, refreshing,
          fetch,      \* the threads' refreshes under way: what each has read
          viewer,     \* request |-> where its handler stands
          now

vars == <<index, catalog, fetchedAt, error, refreshing, fetch, viewer, now>>

Index == [open: SUBSET Channels, streamed: SUBSET Channels, blocked: SUBSET Channels]

TypeOK ==
    /\ index \in Index
    /\ catalog \in [ready: BOOLEAN, channels: SUBSET Channels]
    /\ fetchedAt \in 0..LastTick /\ now \in 0..LastTick
    /\ error \in BOOLEAN /\ refreshing \in BOOLEAN
    /\ \A f \in fetch : f \in [read: 0..3, open: SUBSET Channels,
                               streamed: SUBSET Channels, ruledOut: SUBSET Channels]
    /\ viewer \in [Viewers -> {"idle", "asked", "warming", "listed"}]

\* IptvService.__init__, before an index that lists something.
Init ==
    /\ index = [open |-> Channels, streamed |-> Channels, blocked |-> {}]
    /\ catalog = [ready |-> FALSE, channels |-> {}]
    /\ fetchedAt = 0 /\ error = FALSE /\ refreshing = FALSE
    /\ fetch = {}
    /\ viewer = [v \in Viewers |-> "idle"]
    /\ now = 0

Fresh == catalog.ready /\ now - fetchedAt < Hours
StartWhenStale == ~Fresh
StartWanted == ~Fresh /\ ~refreshing

\* ensure_refresh_started, which every route calls first.  `ruledOut` remembers
\* what the index already ruled out when the thread began.
Ask(v) ==
    /\ viewer[v] = "idle"
    /\ viewer' = [viewer EXCEPT ![v] = "asked"]
    /\ IF StartWanted
       THEN /\ refreshing' = TRUE
            /\ fetch' = fetch \cup {[read |-> 0, open |-> {}, streamed |-> {},
                                     ruledOut |-> index.blocked]}
       ELSE UNCHANGED <<refreshing, fetch>>
    /\ UNCHANGED <<index, catalog, fetchedAt, error, now>>

\* The route answers from one snapshot, or `ready: false` while there is none.
Respond(v) ==
    /\ viewer[v] = "asked"
    /\ viewer' = [viewer EXCEPT ![v] = IF catalog.ready THEN "listed" ELSE "warming"]
    /\ UNCHANGED <<index, catalog, fetchedAt, error, refreshing, fetch, now>>

Leave(v) ==
    /\ viewer[v] \in {"warming", "listed"}
    /\ viewer' = [viewer EXCEPT ![v] = "idle"]
    /\ UNCHANGED <<index, catalog, fetchedAt, error, refreshing, fetch, now>>

\* refresh: channels.json, then streams.json, ..., blocklist.json last.
ReadChannels(f) ==
    /\ f \in fetch /\ f.read = 0
    /\ fetch' = (fetch \ {f}) \cup {[f EXCEPT !.read = 1, !.open = index.open]}
    /\ UNCHANGED <<index, catalog, fetchedAt, error, refreshing, viewer, now>>

ReadStreams(f) ==
    /\ f \in fetch /\ f.read = 1
    /\ fetch' = (fetch \ {f}) \cup {[f EXCEPT !.read = 2, !.streamed = index.streamed]}
    /\ UNCHANGED <<index, catalog, fetchedAt, error, refreshing, viewer, now>>

\* build_catalog: live and permitted channels with at least one stream.
CatalogOfAll(f, blocked) == f.open \cap f.streamed
Catalog(f, blocked) == (f.open \cap f.streamed) \ blocked

Swap(f) ==
    /\ f \in fetch /\ f.read = 2
    /\ catalog' = [ready |-> TRUE, channels |-> Catalog(f, index.blocked)]
    /\ fetchedAt' = now /\ error' = FALSE
    /\ fetch' = (fetch \ {f}) \cup {[f EXCEPT !.read = 3]}
    /\ UNCHANGED <<index, refreshing, viewer, now>>

\* A file that cannot be read: the last catalogue keeps serving.
Fail(f) ==
    /\ f \in fetch /\ f.read < 3
    /\ error' = TRUE
    /\ fetch' = (fetch \ {f}) \cup {[f EXCEPT !.read = 3]}
    /\ UNCHANGED <<index, catalog, fetchedAt, refreshing, viewer, now>>

\* The thread's `finally`.
End(f) ==
    /\ f \in fetch /\ f.read = 3
    /\ fetch' = fetch \ {f} /\ refreshing' = FALSE
    /\ UNCHANGED <<index, catalog, fetchedAt, error, viewer, now>>

\* The publisher: a channel closes or loses its streams, or is blocked for good.
Publish ==
    /\ \E c \in Channels :
         index' \in {[index EXCEPT !.open = @ \ {c}], [index EXCEPT !.streamed = @ \ {c}],
                     [index EXCEPT !.streamed = @ \cup {c}],
                     [index EXCEPT !.blocked = @ \cup {c}]}
    /\ UNCHANGED <<catalog, fetchedAt, error, refreshing, fetch, viewer, now>>

Tick ==
    /\ now < LastTick
    /\ now' = now + 1
    /\ UNCHANGED <<index, catalog, fetchedAt, error, refreshing, fetch, viewer>>

Next ==
    \/ \E v \in Viewers : Ask(v) \/ Respond(v) \/ Leave(v)
    \/ \E f \in fetch : ReadChannels(f) \/ ReadStreams(f) \/ Swap(f) \/ Fail(f) \/ End(f)
    \/ Publish \/ Tick

Spec == Init /\ [][Next]_vars

-----------------------------------------------------------------------------
\* The replica refreshes once at a time, and its flag tells the truth: it is never
\* left set with no thread behind it, which would end all refreshing, nor cleared
\* under one that still runs, however requests, failures and swaps interleave.
OneRefresh == Cardinality(fetch) <= 1 /\ (refreshing <=> fetch # {})

\* A catalogue only ever gives way to a newer one, and a channel that was blocked
\* when its refresh began is not in it, whatever the index did while it was read.
BlockedStaysOut ==
    [][catalog' # catalog =>
         /\ catalog'.ready
         /\ \E f \in fetch : catalog'.channels \cap f.ruledOut = {}]_vars
=============================================================================
