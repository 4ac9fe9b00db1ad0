----------------------------- MODULE PlaylistSync -----------------------------
(***************************************************************************)
(* A member's Spotify link and one playlist imported over it               *)
(* (music_engine/spotify.py, library.py, routes.py and the link and        *)
(* playlist tables of db.py).                                              *)
(*                                                                         *)
(* Runs read the playlist at the same time: the worker's round in each     *)
(* replica, a member's `sync`, an import. A run is a chain of API calls,   *)
(* each of which needs the link's access token, then the writes of         *)
(* `_store`, each a transaction of its own.                                *)
(***************************************************************************)
EXTENDS Integers, FiniteSets

CONSTANTS
    Runs,        \* runs (bound: at once)
    Tracks,      \* track keys
    Content,     \* version of the playlist at Spotify -> its tracks
    MaxToken,    \* bound on the refresh tokens handed out
    MaxPlaylist  \* bound on the rows inserted

Versions == DOMAIN Content

VARIABLES
    upstream,    \* Spotify: the playlist's version, which is its snapshot_id
    alive,       \* Spotify: the refresh tokens it takes
    issued,      \* Spotify: refresh tokens handed out
    link,        \* row of music_spotify_links: refresh token (0: no row), access token not yet expired
    row,         \* row of music_playlists: id (0: no row), snapshot_id, due for a sync
    inserted,    \* playlists inserted so far
    listed,      \* committed rows of music_playlist_tracks that are not removed_upstream
    flagged,     \* and those that are
    run,         \* run -> where it is
    lost,        \* history: Spotify rotated a token and the answer did not arrive
    overlapped   \* history: two runs have been storing at once

vars == <<upstream, alive, issued, link, row, inserted, listed, flagged, run, lost, overlapped>>
spotify == <<upstream, alive, issued, lost>>
rows    == <<row, inserted, listed, flagged>>

Goals  == {"snapshot", "meta", "tracks"}
Stages == {"idle", "token", "refresh", "request", "upsert", "save", "saving", "mark", "failed"}

TypeOK ==
    /\ upstream \in Versions /\ issued \in 0..MaxToken /\ alive \subseteq 1..issued
    /\ link.token \in 0..issued /\ link.fresh \in BOOLEAN
    /\ row.id \in 0..inserted /\ inserted \in 0..MaxPlaylist
    /\ row.due \in BOOLEAN /\ row.snapshot \in Versions \cup {0}
    /\ listed \cup flagged \subseteq Tracks /\ listed \cap flagged = {}
    /\ row.id = 0 => listed \cup flagged = {}
    /\ lost \in BOOLEAN /\ overlapped \in BOOLEAN
    /\ \A r \in Runs :
          /\ run[r].at \in Stages /\ run[r].goal \in Goals
          /\ run[r].of \in 0..inserted /\ run[r].id \in 0..inserted
          /\ run[r].known \in Versions \cup {0} /\ run[r].found \in Versions \cup {0}
          /\ run[r].got \subseteq Tracks /\ run[r].refreshed \in BOOLEAN

\* the row it syncs (0: an import), the row it stores in, the snapshot_id of that row, the
\* one Spotify gave, the tracks read; of the API call: its goal, whether a 401 was answered
Idle == [at |-> "idle", goal |-> "meta", of |-> 0, id |-> 0, known |-> 0, found |-> 0,
         got |-> {}, refreshed |-> FALSE]
NoRow == [id |-> 0, snapshot |-> 0, due |-> FALSE]

Init ==
    /\ upstream = 1 /\ alive = {} /\ issued = 0 /\ lost = FALSE /\ overlapped = FALSE
    /\ link = [token |-> 0, fresh |-> FALSE]
    /\ row = NoRow /\ inserted = 0 /\ listed = {} /\ flagged = {}
    /\ run = [r \in Runs |-> Idle]

-----------------------------------------------------------------------------
(* The member and Spotify *)

Locked == \E r \in Runs : run[r].at = "refresh"

Edit ==
    /\ upstream + 1 \in Versions
    /\ upstream' = upstream + 1
    /\ UNCHANGED <<alive, issued, link, rows, run, lost, overlapped>>

\* connect: the code is traded for a grant's first token; its upsert waits for the row
Connect ==
    /\ ~Locked /\ issued < MaxToken
    /\ issued' = issued + 1 /\ alive' = alive \cup {issued + 1}
    /\ link' = [token |-> issued + 1, fresh |-> TRUE]
    /\ UNCHANGED <<upstream, rows, run, lost, overlapped>>

Disconnect ==
    /\ ~Locked /\ link.token # 0
    /\ link' = [token |-> 0, fresh |-> FALSE]
    /\ UNCHANGED <<spotify, rows, run, overlapped>>

Expire ==
    /\ ~Locked /\ link.fresh
    /\ link' = [link EXCEPT !.fresh = FALSE]
    /\ UNCHANGED <<spotify, rows, run, overlapped>>

IntervalPasses ==
    /\ row.id # 0 /\ ~row.due
    /\ row' = [row EXCEPT !.due = TRUE]
    /\ UNCHANGED <<spotify, link, inserted, listed, flagged, run, overlapped>>

\* delete_playlist: a foreign key makes it wait for those that are inserting entries.
DeletePlaylist ==
    /\ row.id # 0 /\ \A r \in Runs : run[r].at # "saving"
    /\ row' = NoRow /\ listed' = {} /\ flagged' = {}
    /\ UNCHANGED <<spotify, link, inserted, run, overlapped>>

-----------------------------------------------------------------------------
(* A run begins *)

Calls(r, goal) == [run[r] EXCEPT !.at = "token", !.goal = goal, !.refreshed = FALSE]

Begin(r, id, known) ==
    /\ run[r].at = "idle"
    /\ run' = [run EXCEPT ![r] = [Calls(r, IF known = 0 THEN "meta" ELSE "snapshot") EXCEPT
                                     !.of = id, !.id = id, !.known = known]]
    /\ UNCHANGED <<spotify, link, rows, overlapped>>

\* sync_due
SyncDue(r) == row.id # 0 /\ row.due /\ Begin(r, row.id, row.snapshot)

\* sync_playlist, which does not look at the snapshot
SyncNow(r) == row.id # 0 /\ Begin(r, row.id, 0)

\* import_spotify
Import(r) == Begin(r, 0, 0)

-----------------------------------------------------------------------------
(* SpotifyClient.get *)

Goes(r, next) == run' = [run EXCEPT ![r] = next] /\ UNCHANGED <<rows, overlapped>>
Raises(r) == Goes(r, IF run[r].of = 0 THEN Idle ELSE [Idle EXCEPT !.at = "failed", !.of = run[r].of])

StillValid(r) == link.fresh /\ ~run[r].refreshed

\* A call goes out with the access token, read or just refreshed, ...
HasToken(r) ==
    \/ run[r].at = "request"
    \/ run[r].at = "token" /\ ~Locked /\ link.token # 0 /\ StillValid(r)

\* ... which refresh_link refreshes while it holds the row.
TakeLink(r) ==
    /\ run[r].at = "token" /\ ~Locked
    /\ link.token # 0 /\ ~StillValid(r)
    /\ Goes(r, [run[r] EXCEPT !.at = "refresh"])
    /\ UNCHANGED <<spotify, link>>

NotConnected(r) ==
    /\ run[r].at = "token" /\ ~Locked
    /\ link.token = 0
    /\ Raises(r)
    /\ UNCHANGED <<spotify, link>>

\* _refresh_tokens: Spotify takes the refresh token and may rotate it, which ends the old one.
Rotated == issued' = issued + 1 /\ alive' = (alive \ {link.token}) \cup {issued + 1}

\* Mutant: the refresh token that Spotify rotated in is not kept.
RefreshKeepsOld(r) ==
    /\ run[r].at = "refresh" /\ link.token \in alive
    /\ (UNCHANGED <<alive, issued>> \/ (issued < MaxToken /\ Rotated))
    /\ link' = [link EXCEPT !.fresh = TRUE]
    /\ Goes(r, [run[r] EXCEPT !.at = "request"])
    /\ UNCHANGED <<upstream, lost>>

Refresh(r) ==
    /\ run[r].at = "refresh" /\ link.token \in alive
    /\ \/ UNCHANGED <<alive, issued>> /\ link' = [link EXCEPT !.fresh = TRUE]
       \/ issued < MaxToken /\ Rotated /\ link' = [token |-> issued', fresh |-> TRUE]
    /\ Goes(r, [run[r] EXCEPT !.at = "request"])
    /\ UNCHANGED <<upstream, lost>>

\* The answer does not arrive, whether or not Spotify rotated the token, and nothing is written.
RefreshLost(r) ==
    /\ run[r].at = "refresh" /\ link.token \in alive
    /\ \/ UNCHANGED <<alive, issued, lost>>
       \/ issued < MaxToken /\ Rotated /\ lost' = TRUE
    /\ Raises(r)
    /\ UNCHANGED <<upstream, link>>

RefreshRefused(r) ==
    /\ run[r].at = "refresh" /\ link.token \notin alive
    /\ Raises(r)
    /\ UNCHANGED <<spotify, link>>

\* What the answer was about: the snapshot_id of the row, the playlist, or its tracks
Compared(r) == IF upstream = run[r].known THEN [Idle EXCEPT !.at = "mark", !.id = run[r].of]
               ELSE [Calls(r, "meta") EXCEPT !.known = 0]
Read(r) == [Calls(r, "meta") EXCEPT !.at = "upsert", !.got = Content[upstream]]

\* Mutant: the playlist, and its snapshot_id, are asked for once its tracks are read.
AnsweredAfter(r) ==
    CASE run[r].goal = "snapshot" -> Compared(r)
      [] run[r].goal = "meta" -> [Calls(r, "tracks") EXCEPT !.got = Content[upstream]]
      [] OTHER -> [Calls(r, "meta") EXCEPT !.at = "upsert", !.found = upstream]

Answered(r) ==
    CASE run[r].goal = "snapshot" -> Compared(r)
      [] run[r].goal = "meta" -> [Calls(r, "tracks") EXCEPT !.found = upstream]
      [] OTHER -> Read(r)

Succeeds(r) ==
    /\ HasToken(r)
    /\ Goes(r, Answered(r))
    /\ UNCHANGED <<spotify, link>>

\* 401: once, the token is refreshed whatever its expiry says
Unauthorized(r) ==
    /\ HasToken(r)
    /\ IF run[r].refreshed THEN Raises(r) ELSE Goes(r, [run[r] EXCEPT !.at = "token", !.refreshed = TRUE])
    /\ UNCHANGED <<spotify, link>>

\* a rate limit, a server error, no connection, which is tried _MAX_RETRIES times (any number of
\* times here)
Retried(r) ==
    /\ HasToken(r)
    /\ Goes(r, [run[r] EXCEPT !.at = "token"])
    /\ UNCHANGED <<spotify, link>>

\* 403, the rest, and one retry too many
RequestRefused(r) ==
    /\ HasToken(r)
    /\ Raises(r)
    /\ UNCHANGED <<spotify, link>>

-----------------------------------------------------------------------------
(* _store *)

Storing(q) == run[q].at \in {"save", "saving", "mark"}

UpsertPlaylist(r) ==
    /\ run[r].at = "upsert" /\ (row.id # 0 \/ inserted < MaxPlaylist)
    /\ IF row.id # 0 THEN UNCHANGED <<row, inserted>>
       ELSE /\ inserted' = inserted + 1
            /\ row' = [NoRow EXCEPT !.id = inserted + 1, !.due = TRUE]
    /\ run' = [run EXCEPT ![r].at = "save", ![r].id = row'.id]
    /\ overlapped' = (overlapped \/ \E q \in Runs \ {r} : Storing(q))
    /\ UNCHANGED <<spotify, link, listed, flagged>>

\* save_tracks: the tracks and their entries are written, and locked until its transaction ends, ...
Held(r) == UNION {run[q].got : q \in {p \in Runs \ {r} : run[p].at = "saving"}}

SaveTracks(r) ==
    /\ run[r].at = "save" /\ run[r].id = row.id
    /\ run[r].got \cap Held(r) = {}
    /\ Goes(r, [run[r] EXCEPT !.at = "saving"])
    /\ UNCHANGED <<spotify, link>>

\* ... then what the source no longer lists is flagged.
FlagRemoved(r) ==
    /\ run[r].at = "saving"
    /\ (listed \ run[r].got) \cap Held(r) = {}
    /\ listed' = run[r].got
    /\ flagged' = (flagged \cup listed) \ run[r].got
    /\ run' = [run EXCEPT ![r].at = "mark", ![r].got = {}]
    /\ UNCHANGED <<spotify, link, row, inserted, overlapped>>

\* A write fails: the row is gone, or the transaction was chosen to break a deadlock.
StoreFails(r) ==
    /\ run[r].at \in {"upsert", "save", "saving"}
    /\ Raises(r)
    /\ UNCHANGED <<spotify, link>>

\* mark_synced. A sync that found nothing new, or failed, leaves the snapshot_id.
MarkSynced(r) ==
    /\ run[r].at \in {"mark", "failed"}
    /\ LET id == IF run[r].at = "failed" THEN run[r].of ELSE run[r].id
       IN  row' = IF id # row.id \/ id = 0 THEN row
                  ELSE [row EXCEPT !.due = FALSE,
                                   !.snapshot = IF run[r].at = "failed" \/ run[r].found = 0 THEN @ ELSE run[r].found]
    /\ run' = [run EXCEPT ![r] = Idle]
    /\ UNCHANGED <<spotify, link, inserted, listed, flagged, overlapped>>

-----------------------------------------------------------------------------
RunNext(r) ==
    \/ SyncDue(r) \/ SyncNow(r) \/ Import(r)
    \/ TakeLink(r) \/ NotConnected(r) \/ Refresh(r) \/ RefreshLost(r) \/ RefreshRefused(r)
    \/ Succeeds(r) \/ Unauthorized(r) \/ Retried(r) \/ RequestRefused(r)
    \/ UpsertPlaylist(r) \/ SaveTracks(r) \/ FlagRemoved(r) \/ StoreFails(r) \/ MarkSynced(r)

Next ==
    \/ Edit \/ Connect \/ Disconnect \/ Expire \/ IntervalPasses \/ DeletePlaylist
    \/ \E r \in Runs : RunNext(r)

Spec == Init /\ [][Next]_vars

-----------------------------------------------------------------------------
(* Properties *)

\* The link kept is one that Spotify still takes, unless an answer of Spotify was lost: two
\* replicas that refresh at once do not leave each other with a token that was rotated away.
LinkStaysAlive == link.token # 0 /\ ~lost => link.token \in alive

\* A playlist whose snapshot_id has not moved may be skipped: unless two runs were storing it at
\* once, its entries are what Spotify lists under that snapshot_id.
SkippedIsCurrent ==
    (row.snapshot = upstream /\ ~overlapped /\ \A r \in Runs : ~Storing(r)) => listed = Content[upstream]

\* routes.py, delete_playlist: "The playlist goes". Only an import brings it back.
GoneUntilImported ==
    [][row.id = 0 /\ row'.id # 0 =>
          \E r \in Runs : run[r].of = 0 /\ run[r].at = "upsert" /\ run'[r].at # "upsert"]_vars
=============================================================================
