------------------------------ MODULE MusicQueue ------------------------------
(***************************************************************************)
(* The music library's download queue: music_engine/worker.py, the track   *)
(* half of music_engine/db.py, the paths of fs.py, and the requests of     *)
(* routes.py that change a track.                                          *)
(*                                                                         *)
(* One worker process (stop-first deploys) claims pending tracks into      *)
(* Slots tasks, each of which matches, fetches, tags and publishes one     *)
(* recording; between claims the same poll loop copies ready files to the  *)
(* CDN.  Members pick recordings and retry tracks through any API replica  *)
(* at any time.  Titles, tags and covers are left out; a file is the track *)
(* it was made for and the recording it holds.                             *)
(***************************************************************************)
EXTENDS Integers, FiniteSets, Sequences

CONSTANTS
    Tracks,        \* ids of music_tracks, in the order they were created
    Urls, NoUrl,   \* recordings at the provider; NoUrl is a NULL match_url
    Names,         \* what plan_rel_path makes of a track's tags
    NameOf,        \* track -> its name
    Slots,         \* SLOTS
    MaxAttempts,   \* MAX_ATTEMPTS
    MirrorBatch,   \* MIRROR_BATCH, 0 while the CDN is off
    PickStatuses,  \* the statuses of the tracks members pick recordings for
    MaxEdit,       \* bound: requests by members
    MaxFault       \* bound: stops of the worker and files deleted by hand

ASSUME TracksAssumption == Tracks \subseteq Nat /\ IsFiniteSet(Tracks)
ASSUME UrlsAssumption == NoUrl \notin Urls
ASSUME NamesAssumption == NameOf \in [Tracks -> Names]
ASSUME NumbersAssumption == /\ Slots \in Nat \ {0} /\ MaxAttempts \in Nat \ {0}
                            /\ {MirrorBatch, MaxEdit, MaxFault} \subseteq Nat

VARIABLES
    row,      \* music_tracks
    held,     \* tracks some playlist holds
    share,    \* path -> the audio in the file there
    cdn,      \* path -> the audio in the bucket object
    up,       \* the worker process runs
    paused,   \* _paused_until lies ahead
    jobs,     \* _jobs: track -> its task
    poll,     \* where the poll loop is
    todo,     \* the pending rows it fetched and has not claimed yet
    copying,  \* the ready rows it fetched and has not copied yet
    sending,  \* the audio of the upload in flight
    edits, stops, vanished   \* counters for the bounds

dbVars     == <<row, held>>
fileVars   == <<share, cdn>>
pollVars   == <<poll, todo, copying, sending>>
boundVars  == <<edits, stops, vanished>>
vars == <<dbVars, fileVars, up, paused, jobs, pollVars, boundVars>>

Paths   == Names \X Nat
Audio   == Tracks \X Urls
NoPath  == <<>>
NoAudio == <<>>
Settled == {"ready", "review", "unmatched", "failed"}
Statuses == Settled \cup {"absent", "pending", "working"}

Row == [status : Statuses, url : Urls \cup {NoUrl}, manual : BOOLEAN, attempts : Nat,
        path : Paths \cup {NoPath}, mirrored : BOOLEAN]
Job == [at : {"none", "match", "fetch", "tag", "mark", "dirty", "end"},
        url : Urls \cup {NoUrl}, path : Paths \cup {NoPath}]

NoRow == [status |-> "absent", url |-> NoUrl, manual |-> FALSE, attempts |-> 0,
          path |-> NoPath, mirrored |-> FALSE]
NoJob == [at |-> "none", url |-> NoUrl, path |-> NoPath]

TypeOK ==
    /\ row \in [Tracks -> Row]
    /\ held \subseteq {t \in Tracks : row[t].status # "absent"}
    /\ DOMAIN share \subseteq Paths /\ \A p \in DOMAIN share : share[p] \in Audio
    /\ DOMAIN cdn \subseteq Paths /\ \A p \in DOMAIN cdn : cdn[p] \in Audio
    /\ up \in BOOLEAN /\ paused \in BOOLEAN
    /\ jobs \in [Tracks -> Job]
    /\ poll \in {"idle", "claim", "copy", "put", "mark"}
    /\ todo \in Seq([id : Tracks, url : Urls \cup {NoUrl}])
    /\ copying \in Seq([id : Tracks, path : Paths])
    /\ sending \in Audio \cup {NoAudio}
    /\ edits \in 0..MaxEdit /\ stops \in 0..MaxFault /\ vanished \in 0..MaxFault

Init ==
    /\ row = [t \in Tracks |-> NoRow] /\ held = {}
    /\ share = <<>> /\ cdn = <<>>
    /\ up = FALSE /\ paused = FALSE
    /\ jobs = [t \in Tracks |-> NoJob]
    /\ poll = "idle" /\ todo = <<>> /\ copying = <<>> /\ sending = NoAudio
    /\ edits = 0 /\ stops = 0 /\ vanished = 0

-----------------------------------------------------------------------------
(* Helpers.                                                                *)

Running == {t \in Tracks : jobs[t].at # "none"}

Put(f, p, a) == [q \in DOMAIN f \cup {p} |-> IF q = p THEN a ELSE f[q]]

Lowest(S) == CHOOSE n \in S : \A m \in S : n <= m

\* Mutant: the name is used whether it is taken or not.
FreePathIsTheName(name) == <<name, 1>>

\* unique_rel_path: the name, or "name (2)" and up.
FreePath(name) ==
    <<name, Lowest({n \in 1..(Cardinality(DOMAIN share) + 1) : <<name, n>> \notin DOMAIN share})>>

FirstOf(s, n) == SubSeq(s, 1, IF n < Len(s) THEN n ELSE Len(s))

\* ORDER BY: the i-th of S has i - 1 before it, in the order of the pairs of Before.
InOrder(S, Before) ==
    [i \in 1..Cardinality(S) |->
        CHOOSE t \in S : Cardinality({u \in S : <<u, t>> \in Before}) = i - 1]

\* fetch_pending: fewest attempts first, and only tracks some playlist holds.
Pending ==
    InOrder({t \in held : row[t].status = "pending"},
            {p \in Tracks \X Tracks :
                \/ row[p[1]].attempts < row[p[2]].attempts
                \/ row[p[1]].attempts = row[p[2]].attempts /\ p[1] < p[2]})

\* fetch_unmirrored, by id.
Unmirrored ==
    InOrder({t \in Tracks : row[t].status = "ready" /\ ~row[t].mirrored},
            {p \in Tracks \X Tracks : p[1] < p[2]})

SetStatus(t, s) == row' = [row EXCEPT ![t].status = s]

\* requeue: back to pending until its attempts are used up.
Requeue(t) == SetStatus(t, IF row[t].attempts >= MaxAttempts THEN "failed" ELSE "pending")

JobAt(t, where) == jobs' = [jobs EXCEPT ![t].at = where]

Edit == edits < MaxEdit /\ edits' = edits + 1

-----------------------------------------------------------------------------
(* The worker process.                                                     *)

\* Mutant: rows a dead worker left behind are not put back.
ResetNothing == UNCHANGED row

\* reset_stale.
ResetStale ==
    row' = [t \in Tracks |-> IF row[t].status = "working"
                             THEN [row[t] EXCEPT !.status = "pending"] ELSE row[t]]

Start ==
    /\ ~up /\ up' = TRUE
    /\ ResetStale
    /\ UNCHANGED <<held, fileVars, paused, jobs, pollVars, boundVars>>

\* A stop whose grace ran out, or a crash: the tasks end where they are.
Stop ==
    /\ up /\ up' = FALSE
    /\ stops + vanished < MaxFault /\ stops' = stops + 1
    /\ jobs' = [t \in Tracks |-> NoJob]
    /\ poll' = "idle" /\ todo' = <<>> /\ copying' = <<>> /\ sending' = NoAudio
    /\ paused' = FALSE
    /\ UNCHANGED <<dbVars, fileVars, edits, vanished>>

\* Mutant: the slots in use are not counted.
FreeSlotsAll == Slots

FreeSlots == Slots - Cardinality(Running)

\* _start_pending reads the rows it will claim, url included.
FetchPending ==
    /\ up /\ poll = "idle" /\ poll' = "claim"
    /\ todo' = IF paused \/ FreeSlots <= 0 THEN <<>>
               ELSE LET ids == FirstOf(Pending, FreeSlots)
                    IN [i \in 1..Len(ids) |-> [id |-> ids[i], url |-> row[ids[i]].url]]
    /\ UNCHANGED <<dbVars, fileVars, up, paused, jobs, copying, sending, boundVars>>

\* The statement of claim.
Claimed(t) == row' = [row EXCEPT ![t].status = "working", ![t].attempts = @ + 1]

\* claim, and the task that starts when the row was still pending.
Claim ==
    /\ poll = "claim" /\ todo # <<>>
    /\ LET t == Head(todo).id
           u == Head(todo).url
       IN IF t \notin Running /\ row[t].status = "pending"
          THEN /\ Claimed(t)
               /\ jobs' = [jobs EXCEPT ![t] = [at   |-> IF u = NoUrl THEN "match" ELSE "fetch",
                                               url  |-> u,
                                               path |-> NoPath]]
          ELSE UNCHANGED <<row, jobs>>
    /\ todo' = Tail(todo)
    /\ UNCHANGED <<held, fileVars, up, paused, poll, copying, sending, boundVars>>

PauseEnds ==
    /\ paused /\ paused' = FALSE
    /\ UNCHANGED <<dbVars, fileVars, up, jobs, pollVars, boundVars>>

-----------------------------------------------------------------------------
(* The task of one track: _run and _process.                               *)

\* The matcher is sure: set_matched writes the url whatever the row holds by now.
MatchFound(t) ==
    /\ jobs[t].at = "match"
    /\ \E u \in Urls : /\ row' = [row EXCEPT ![t].url = u]
                       /\ jobs' = [jobs EXCEPT ![t].at = "fetch", ![t].url = u]
    /\ UNCHANGED <<held, fileVars, up, paused, pollVars, boundVars>>

\* The matcher is unsure, or found nothing.
MatchUnsure(t) ==
    /\ jobs[t].at = "match"
    /\ \E s \in {"review", "unmatched"} : SetStatus(t, s)
    /\ JobAt(t, "end")
    /\ UNCHANGED <<held, fileVars, up, paused, pollVars, boundVars>>

\* The recording is in the work directory, and its place on the share is chosen.
Fetched(t) ==
    /\ jobs[t].at = "fetch"
    /\ jobs' = [jobs EXCEPT ![t].at = "tag", ![t].path = FreePath(NameOf[t])]
    /\ UNCHANGED <<dbVars, fileVars, up, paused, pollVars, boundVars>>

\* Tagging went well: the file is renamed into its place.
Publish(t) ==
    /\ jobs[t].at = "tag" /\ JobAt(t, "mark")
    /\ share' = Put(share, jobs[t].path, <<t, jobs[t].url>>)
    /\ UNCHANGED <<dbVars, cdn, up, paused, pollVars, boundVars>>

\* Mutant: a new file counts as copied because the old one was.
ReadiedStaysMirrored(t) ==
    row' = [row EXCEPT ![t].status = "ready", ![t].path = jobs[t].path]

\* The statement of mark_ready.
Readied(t) ==
    row' = [row EXCEPT ![t].status = "ready", ![t].path = jobs[t].path,
                       ![t].mirrored = FALSE]

MarkReady(t) ==
    /\ jobs[t].at = "mark" /\ JobAt(t, "dirty")
    /\ Readied(t)
    /\ UNCHANGED <<held, fileVars, up, paused, pollVars, boundVars>>

\* The playlists that hold the track are found, to have their files written again.
PlaylistsFound(t) ==
    /\ jobs[t].at = "dirty" /\ JobAt(t, "end")
    /\ UNCHANGED <<dbVars, fileVars, up, paused, pollVars, boundVars>>

\* A permanent provider error, or tags that cannot be written.
GivesUp(t) ==
    /\ jobs[t].at \in {"match", "fetch", "tag"} /\ JobAt(t, "end")
    /\ SetStatus(t, "failed")
    /\ UNCHANGED <<held, fileVars, up, paused, pollVars, boundVars>>

\* A retryable provider error pauses every slot.
RateLimited(t) ==
    /\ jobs[t].at \in {"match", "fetch"} /\ JobAt(t, "end")
    /\ Requeue(t) /\ paused' = TRUE
    /\ UNCHANGED <<held, fileVars, up, pollVars, boundVars>>

\* Any other exception: a share that is away, a failed statement.  requeue does not ask
\* for the status, so a track that is ready by then is queued again.
Crashes(t) ==
    /\ jobs[t].at \in {"match", "fetch", "tag", "mark", "dirty"} /\ JobAt(t, "end")
    /\ Requeue(t)
    /\ UNCHANGED <<held, fileVars, up, paused, pollVars, boundVars>>

\* The work directory is gone, and the task leaves _jobs.
Ends(t) ==
    /\ jobs[t].at = "end" /\ jobs' = [jobs EXCEPT ![t] = NoJob]
    /\ UNCHANGED <<dbVars, fileVars, up, paused, pollVars, boundVars>>

-----------------------------------------------------------------------------
(* _mirror_some.                                                           *)

FetchUnmirrored ==
    /\ poll = "claim" /\ todo = <<>>
    /\ LET ids == FirstOf(Unmirrored, MirrorBatch)
       IN /\ copying' = [i \in 1..Len(ids) |-> [id |-> ids[i], path |-> row[ids[i]].path]]
          /\ poll' = IF ids = <<>> THEN "idle" ELSE "copy"
    /\ UNCHANGED <<dbVars, fileVars, up, paused, jobs, todo, sending, boundVars>>

\* The copied row is done with; after the last one the pass is over.
NextCopy ==
    /\ copying' = Tail(copying)
    /\ poll' = IF Tail(copying) = <<>> THEN "idle" ELSE "copy"

\* Somebody deleted the file: the track is marked failed, whatever became of it since
\* the batch was read.
FileIsGone ==
    /\ poll = "copy" /\ Head(copying).path \notin DOMAIN share
    /\ SetStatus(Head(copying).id, "failed")
    /\ NextCopy
    /\ UNCHANGED <<held, fileVars, up, paused, jobs, todo, sending, boundVars>>

\* upload reads the whole file before it sends anything.
ReadFile ==
    /\ poll = "copy" /\ Head(copying).path \in DOMAIN share
    /\ poll' = "put"
    /\ sending' = share[Head(copying).path]
    /\ UNCHANGED <<dbVars, fileVars, up, paused, jobs, todo, copying, boundVars>>

Upload ==
    /\ poll = "put" /\ poll' = "mark"
    /\ cdn' = Put(cdn, Head(copying).path, sending) /\ sending' = NoAudio
    /\ UNCHANGED <<dbVars, share, up, paused, jobs, todo, copying, boundVars>>

\* One failure ends the pass.
UploadFails ==
    /\ poll = "put" /\ poll' = "idle"
    /\ copying' = <<>> /\ sending' = NoAudio
    /\ UNCHANGED <<dbVars, fileVars, up, paused, jobs, todo, boundVars>>

\* mark_mirrored: UPDATE ... WHERE id = t AND rel_path = p.
Mirrored(t, p) ==
    row' = [row EXCEPT ![t].mirrored = IF row[t].path = p THEN TRUE ELSE @]

MarkMirrored ==
    /\ poll = "mark"
    /\ Mirrored(Head(copying).id, Head(copying).path)
    /\ NextCopy
    /\ UNCHANGED <<held, fileVars, up, paused, jobs, todo, sending, boundVars>>

\* A person deletes a file on the share.
Vanish(p) ==
    /\ stops + vanished < MaxFault /\ vanished' = vanished + 1
    /\ share' = [q \in DOMAIN share \ {p} |-> share[q]]
    /\ UNCHANGED <<dbVars, cdn, up, paused, jobs, pollVars, edits, stops>>

-----------------------------------------------------------------------------
(* Members.                                                                *)

\* Mutant: a playlist entry is written for a track nobody inserted.
UpsertedNothing(t) == UNCHANGED row

\* INSERT ... ON CONFLICT (track_key) DO UPDATE, which leaves a row's status alone.
Upserted(t) == row' = [row EXCEPT ![t].status = IF @ = "absent" THEN "pending" ELSE @]

\* save_tracks: an entry points at its row, made by the first import that lists it.
Import(t) ==
    /\ Edit /\ t \notin held /\ held' = held \cup {t}
    /\ Upserted(t)
    /\ UNCHANGED <<fileVars, up, paused, jobs, pollVars, stops, vanished>>

\* add_song: the row that has the recording, a ready one first, or a new one.
AddSong(u) ==
    /\ Edit
    /\ LET have  == {t \in Tracks : row[t].url = u}
           ready == {t \in have : row[t].status = "ready"}
           new   == {t \in Tracks : row[t].status = "absent"}
       IN IF have # {}
          THEN /\ held' = held \cup {Lowest(IF ready # {} THEN ready ELSE have)}
               /\ UNCHANGED row
          ELSE \E t \in new :
                  /\ held' = held \cup {t}
                  /\ row' = [row EXCEPT ![t].status = "pending", ![t].url = u,
                                        ![t].manual = TRUE]
    /\ UNCHANGED <<fileVars, up, paused, jobs, pollVars, stops, vanished>>

\* remove_song and delete_playlist: the row and its file stay.
RemoveSong(t) ==
    /\ Edit /\ t \in held /\ held' = held \ {t}
    /\ UNCHANGED <<row, fileVars, up, paused, jobs, pollVars, stops, vanished>>

\* Mutant: a ready track picked again stays as it is.
PickedStaysReady(t, u) ==
    row' = [row EXCEPT ![t].url = u, ![t].manual = TRUE,
                       ![t].status = IF @ = "ready" THEN @ ELSE "pending"]

\* The statement of choose_match.
Picked(t, u) ==
    row' = [row EXCEPT ![t].url = u, ![t].manual = TRUE,
                       ![t].status = "pending", ![t].attempts = 0]

ChooseMatch(t, u) ==
    /\ Edit /\ t \in held /\ row[t].status \in PickStatuses
    /\ Picked(t, u)
    /\ UNCHANGED <<held, fileVars, up, paused, jobs, pollVars, stops, vanished>>

Retry(t) ==
    /\ Edit /\ t \in held /\ row[t].status \in {"failed", "unmatched", "review"}
    /\ row' = [row EXCEPT ![t].status = "pending", ![t].attempts = 0]
    /\ UNCHANGED <<held, fileVars, up, paused, jobs, pollVars, stops, vanished>>

-----------------------------------------------------------------------------

Task(t) ==
    \/ MatchFound(t) \/ MatchUnsure(t) \/ Fetched(t) \/ Publish(t) \/ MarkReady(t)
    \/ PlaylistsFound(t) \/ GivesUp(t) \/ RateLimited(t) \/ Crashes(t) \/ Ends(t)

Mirror == FetchUnmirrored \/ FileIsGone \/ ReadFile \/ Upload \/ UploadFails \/ MarkMirrored

Member ==
    \/ \E t \in Tracks : Import(t) \/ RemoveSong(t) \/ Retry(t)
    \/ \E u \in Urls : AddSong(u)
    \/ \E t \in Tracks, u \in Urls : ChooseMatch(t, u)

Next ==
    \/ Start \/ Stop \/ FetchPending \/ Claim \/ PauseEnds
    \/ \E t \in Tracks : Task(t)
    \/ Mirror
    \/ \E p \in DOMAIN share : Vanish(p)
    \/ Member

Spec == Init /\ [][Next]_vars

-----------------------------------------------------------------------------
(* Properties.                                                             *)

\* While the worker runs, a row it shows as working has a task that will still write to
\* it: no track is stuck until the next restart (claim, _run and reset_stale together).
WorkingIsHeld ==
    \A t \in Tracks : up /\ row[t].status = "working" => jobs[t].at \notin {"none", "end"}

\* "two slots ... keep one home IP from looking like a scraper" (worker.py): however
\* rows are requeued and claimed, no more tasks than slots run.
SlotsKept == Cardinality(Running) <= Slots

\* Until a file is deleted by hand, a ready row's rel_path leads to audio made for that
\* track, not for a namesake that was placed at the same time (unique_rel_path, publish
\* and mark_ready).
ReadyHasItsAudio ==
    \A t \in Tracks : vanished = 0 /\ row[t].status = "ready" =>
        row[t].path \in DOMAIN share /\ share[row[t].path][1] = t

\* Likewise, a recording a person picked "never gets second-guessed by the matcher, and a ready
\* track picked again is downloaded again" (choose_match): what is ready is the pick.
PickIsHonoured ==
    \A t \in Tracks : vanished = 0 /\ row[t].status = "ready" /\ row[t].manual =>
        row[t].path \in DOMAIN share /\ share[row[t].path][2] = row[t].url

\* The CDN holds for a ready, mirrored track the audio its row leads to on the share, as
\* long as that is its own: a track downloaded again is copied again (mark_ready,
\* fetch_unmirrored and mark_mirrored).
MirroredIsCurrent ==
    \A t \in Tracks :
        LET p == row[t].path
        IN  /\ row[t].status = "ready" /\ row[t].mirrored
            /\ p \in DOMAIN share /\ share[p][1] = t
            => p \in DOMAIN cdn /\ cdn[p] = share[p]

=============================================================================
