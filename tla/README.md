# crimson-backend in TLA+

TLA+ models of the parts of `crimson-backend` in which several processes, threads
or tasks share state, or in which an algorithm meets data of many shapes: their
next-state relations are translated from the Python source, TLC checks them on
small instances, and TLAPS proves every safety property of the passing runs for any
values of the constants, five of them under hypotheses that section 5 names.

`PROJECT.json` is the index: `map` names the source lines each definition stands
for, `runs` the model-checking runs, `mutants` one plausible bug per property that
the run must catch, `hazards` the places of the code that are hard to test.

Reading order: `CacheQueue`, `CacheQueueProofs`, `DownloadQueue`, `Watch` with
`WatchContract` and `WatchProofs`, then the others in any order.

    tlc -workers 2 -config MCCacheQueue_one_slot.cfg MCCacheQueue
    tlapm CacheQueueProofs.tla

## 1. The system

A FastAPI application (`api.py`) runs as several interchangeable *replicas* over
one Postgres database. The slow work is done by *dedicated workers*, one process
each (`startup.py` starts them where `RUN_CACHE_WORKER`, `RUN_DOWNLOAD_WORKER` or
`RUN_MUSIC_WORKER` is set), deployed stop-first so that there are never two of a
kind. Scheduled jobs (notices, mapping rebuilds, backfills) run where `RUN_DB_SYNC`
is set, and an administrator can start some of them by hand in any replica. All of
them share the database and NAS directories; besides, the download worker drives an
aria2 sidecar over JSON-RPC, the music worker copies files to a bucket, and replicas
talk to Jellyfin, Spotify, TMDB, AniList, an IPTV index and a model provider.

Three facts shape every model:

* A statement is a transaction. `core/db_pool.py` commits at the end of each `with`
  block, and almost every store method is one block with one statement. So whatever
  a handler does in several calls can be interleaved with any other actor between
  any two of them, and can be cut off there by a crash. Where a block holds several
  statements, Postgres runs it at READ COMMITTED, and the models keep the locks.
* Every blocking call is awaited in a thread (`asyncio.to_thread`), so inside one
  process the tasks of the event loop interleave at exactly those places.
* Handlers declared with `def` run in worker threads: there the in-process caches
  are read and written between any two statements of another thread.

### Components

| Component | State | Operations | What is hard | What makes it correct |
|---|---|---|---|---|
| Remux queue, `cache_engine` | `cached_episodes`, `cache_targets`, master switch; `_jobs` of the worker; `.part` and published files | claim (insert, revive, refuse), drop, target edits; poll, begin, remux, publish, mark; stop, crash, requeue | unconditional UPDATEs, files addressed by path, failures between publish and mark | a ready row has its own whole file; rows in progress are held; the slot limit; downloads end |
| Read caches of its settings, `cache_engine/db.py` | value and time stamp in two class attributes | read through, invalidate, serve stale on error | threads between any two attribute accesses | staleness is bounded |
| Download queue, `download_engine` | `download_jobs`, aria2's gids, staging directories, the library | submit, monitor, publish, pause, resume, retry, delete, purge | RPC replies that are lost, an aria2 that forgets, requests that act on a row read earlier | one writer per directory, one publication, nothing stuck |
| Airing notices, `notify_engine` | `airing_schedule`, the ledger `airing_notifications`, subscriptions | refresh, pending, claim, send, record, sweep | two replicas, crashes after a claim, rescheduling, retention | at most one mail per user and episode |
| Sign-up and login, `account_engine/auth*.py` | accounts, challenges, invite tokens, sessions | register and log in by key or by e-mail | races between check and use, the 409/404 fallbacks | one account per invite, one use per challenge |
| Passwords, links, sessions, `account_engine/{auth,security_routes}.py` | password hashes, e-mail tokens, sessions | login with rehash, verify, reset, sign out, delete | a session or link opened while the account goes | a link serves once; nothing outlives an account |
| Login wall, `account_engine/login_wall.py` | map of admitted credentials with deadlines | look up, validate in a thread, remember, sweep | logouts while the thread validates | whoever is out is out within a TTL |
| Administration, broadcast, `account_engine/{admin_routes,mailer}.py` | roles, `_broadcast_state`, `_broadcast_lock` | promote, demote, delete, send to all | check and write of two administrators, a task that dies | the flag falls when no send is left |
| Watchlists and progress, `account_engine/{library*,transfer}.py` | favourites, progress, watch events | save, remove, import, purge | transactions at READ COMMITTED that count before they write | caps, the day's furthest second, no emptied list |
| Music library, `music_engine` | `music_tracks`, files on the share, objects in the bucket, `_jobs` | match, pick, fetch, tag, publish, mirror, retry, requeue | rows edited under a running task, names chosen before the rename, two kinds of storage | a ready track has the right audio in both places |
| Playlist sync, `music_engine/{spotify,library}.py` | Spotify link, playlist row and its entries | refresh the token, read pages, store | a rotating token used by several replicas, overlapping runs | the link stays alive; a skipped playlist is current |
| Mapping rebuild, `metadata_engine/mapping_sync.py` | `anime_entries`, `tmdb_seasons`, `tmdb_extras`, `sync_meta` | compare etags, download, replace in one transaction | two rebuilds under READ COMMITTED | readers see one dataset, and an etag that is not ahead of it |
| Backfill and maintenance, `metadata_engine/maintenance.py` | `metadata_backfill_jobs`, `last_updated` of the tables | request, claim, run, finish; nightly slice | several drains, dead runners, re-pulls that fail | a job runs once; every row has its turn |
| Browse hubs, `metadata_engine/browse.py` | list, facets and body of a catalogue in the process, `api_cache` | build, answer, purge | loads that overlap a rebuild | the parts of an answer fit |
| Metadata clients, `metadata_engine/{tmdb,anilist,…}.py`, `core/{single_flight,response_cache}.py` | `_inflight`, local and shared cache, stale shadow | join, fetch, store, fall back | waiters cancelled anywhere, outages | one call per key; what is known is served |
| Start and stop, `startup.py`, `core/migrations.py` | `schema_migrations`, advisory lock, scheduler, workers, pool | lock, apply, serve, drain, close | two images booting, a migration that fails | a whole schema; the pool outlives its users |
| Watch stream, `playback_engine/pipeline.py` | tasks, queue, sets of seen embeds and streams of one request | scrape, resolve, put, yield, close | tasks that die, a consumer that leaves anywhere | the line protocol; nothing lost; nothing after close |
| Source health, `playback_engine/health.py` | kept sweep, lock | load, force, probe | forced loads that overlap | sweeps run one at a time |
| Jellyfin, `scrapers/jellyfin_scraper.py`, `resolvers/_jellyfin_*.py` | candidates and episodes of a search; token, lock | search, match; log in, send, retry | shows laid out in many ways; calls that share a 401 | the episode that is held plays; logins are shared |
| Local library, `local_engine` | the tree; roots configuration and listing in the process | walk, list, browse; stream | odd trees; a change while a thread reads | every file listed once and reached; a dead root is dead within a TTL |
| IPTV, `iptv_engine/service.py` | catalogue, lock, refreshing flag | refresh in the background, serve | an index that changes while it is read | one refresh; a blocked channel stays out |
| Chat, `chat_engine` | conversations, usage ledger, settings | gate, budget, rounds of model and tools, save | requests of one viewer at once, settings and deletions meanwhile | bounded overspend; no answer without its question |
| Supporters, `supporters_engine` | `kofi_transactions`, cached list with a generation | record a webhook, aggregate, serve | repeated webhooks, a list read while one arrives | who paid is listed |
| Season assignment, `metadata_engine/fribb.py` | none; the dataset, AniList's relations, the overrides | group by show, give seasons, file the rest | entries that claim one season, in upstream's order | the best claim wins; nothing is lost; every rebuild does the same |
| Finding an episode in own files, `scrapers/local_scraper.py` | none; folders and files | score folders, walk, locate | names that tell a season, or leave it to a folder, or to nobody | an episode that is held plays |
| Discord bot, `discord_bot/bot.py` | connection, heartbeat task, sequence number, backoff; `invite_tokens` | connect, identify, beat, mint, revoke, reply, stop | a task beside the loop, connections that end anywhere, lost replies | one heartbeat per connection; what is said of an invite is so |
| HLS transcoding, pre-caching, proxy and grants, scrapers, resolvers, HTTP clients, dates, audit, read-only engines | none, a cache, or a library's | request and response | – | not modelled, see section 7 |

## 2. Modules, and how they correspond to the code

### Queues and workers

**`CacheQueue`** — `cache_engine/{db,downloader,fs,admin_routes}.py`. `status`,
`keyOf` and `tgtOf` are the columns of `cached_episodes`; a row's number is its id
and `lastId` the identity column. `registered`, `enabled` and `switch` are
`cache_targets` and the master switch; `seen` and `workerOn` are the 5-second read
caches of the replicas and of the worker. `job[i]` is where the coroutine
`_run_job(i)` is, named after the call it makes next: `Prepare`, `Write`,
`RemuxDone`/`RemuxFails`, `Measure`, `Discard`, `Replace`, `MarkReady`,
`MarkFailed`, `Pop`, and their failures. `part[p]` and `file[p]` hold, for a path,
the set of rows whose ffmpeg wrote the inode that name stands for, so two writers
on one inode and a file that belongs to another row are visible. The poll is
`Fetch` (switch, free slots and `fetch_pending`), then `Begin`, `Skip` or
`BeginError` per row of the batch. `DropRow` and `DropFile` are the two statements
of the admin's deletion. `Drain`, `Die`, `Start` and `StartNoReset` are
`stop_worker`, the process's death, and `start_worker` with and without a
successful `reset_stale_jobs`. Any database call of the worker may raise before or
after its commit.

**`ReadCache`** — `CacheStore.get_enabled`, `enabled_targets`, `_bump` and the
writers in `cache_engine/db.py`. One action per read or write of a class
attribute; a value is the number of the write it stems from. It justifies the one
simplification of `CacheQueue`, whose caches are refreshed in one step.

**`DownloadQueue`** — `download_engine/{manager,db,aria2,fs,admin_routes}.py` and,
marked external, the aria2 process. `pc` is where `poll_once` is: count, fetch,
submit one row after the other (`addUri`, then `mark_active` or `mark_failed`),
then the active rows one after the other (`tellStatus`, then what the answer calls
for: publish and `mark_complete`, follow a magnet's hand-off, requeue, fail).
`ops` are the admin requests between their read of the row, their RPC and their
write. `Fault(f)` for `f` in `Faults` guards a lost reply, a failed statement, a
restart of the worker or of aria2 and a disk that fills up, at most `MaxFault` in all.

**`MusicQueue`** — `music_engine/{worker,db,fs,cdn}.py` and the routes that change a
track. A file is `<<track it was made for, recording it holds>>`. `jobs[t]` is
where `_run` is; `poll`, `todo`, `copying` and `sending` are the loop that claims
pending rows and copies ready ones to the bucket.

**`PlaylistSync`** — `music_engine/{spotify,library,routes,db}.py`: one link and one
playlist. `link` and `row` are the rows of `music_spotify_links` and
`music_playlists`, `listed` and `flagged` the entries that stand and those marked
`removed_upstream`. `run[r]` is where a run is: it asks for the token, refreshes it
when it has expired (Spotify answers with a new refresh token or the old one, with
an outage, or its answer is lost), reads the playlist, and stores it in the
transactions of `_store`: `UpsertPlaylist`, then `SaveTracks` and `FlagRemoved`,
which wait for entries that another run has locked, then `MarkSynced`. Spotify itself (`upstream`, `alive`, `issued`) is external.

**`Maintenance`** — `metadata_engine/maintenance.py`. `click` and `job` are the
administrators' requests and the rows they inserted: the INSERT looks for an active
job and its row is seen by others from its commit on. `drain[d]` is a replica's
runner; `Die` leaves its job `running`, and nothing puts it back. `rows` lists the
titles of a table oldest first, and `slice` is what of tonight's `1/Buckets` of it is
not re-pulled yet.

### Accounts

**`Registration`** — `account_engine/{auth,auth_routes,db,deps}.py`: the four flows
(sign up and log in, by key and by e-mail), one action per statement, with
`answer` the status code a request ended with.

**`Credentials`** — `account_engine/{auth,security_routes,passwords,db}.py`: what an
e-mail account does after it exists. `acct` is the row, `weak` a stored hash of fewer
rounds than `hash_password` makes now, so that a login reads, verifies, and writes
the hash back later. `mailed` are the rows of `email_tokens`; `flow[f]` is a
request between two statements: login, resend, forgot, verify, reset, delete.

**`LoginWall`** — `account_engine/login_wall.py`, `apikey_engine/db.py`. `until` is
the map of admitted credentials, `visit[q]` a request that looked up its
credential, had it validated by one statement in a thread, and is about to
remember it or be refused. `MaxEntries` is the size at which expired entries are
swept. `lastLive` is a history variable.

**`AdminDesk`** — `account_engine/{admin_routes,mailer,deps,db}.py`. `act[a]` is an
administrator's request between its checks and its write; `running`, `lock` and
`waiting` are `_broadcast_state` and the waiters of `_broadcast_lock`.

**`Library`** — `account_engine/{library_routes,library,transfer,db}.py`. `tx[r]` is a
request's transaction with what it inserted and deleted so far; a statement reads
committed rows and its own, and waits for a row another transaction wrote.
`CountRows`, `Exists` and `Upsert` are the count against the cap, the look for the
row and the INSERT, `Replace` the import that first deletes. `events` are the seconds
of `watch_events` by day.

### Catalogue and caches

**`Notifier`** — `notify_engine/{notifier,db,schedule}.py`, the batch sender of
`account_engine/mailer.py`, the ledger of `migrations/004_airing.sql`. Each replica
runs `run_notifier`: read pending, claim by `INSERT ... ON CONFLICT`, mail one
after the other, record the outcomes. The environment moves episodes, follows and
unfollows, deletes accounts, breaks the SMTP session and kills processes; the two
retention jobs are actions.

**`MappingSync`** and **`MappingSnapshot`** — `metadata_engine/mapping_sync.py`, with
`forced_resync.py` and `resync.py` as further callers. A rebuild is one READ
COMMITTED transaction over tables that reference each other: the model keeps each
statement's snapshot (`seen`), the rows deleted and inserted but not committed
(`gone`, `new`), the row locks and what a waiting DELETE or INSERT does when the
lock is released. `MappingSnapshot` is the abstraction: a reader sees one whole
dataset, and a step replaces it together with its etag. It is instantiated with
`data <-` the one dataset the tables hold, if any.

**`MetadataFetch`** — `core/single_flight.py`, `core/response_cache.py` and what
`tmdb.py`, `anilist.py`, `overview.py` and `next_episode.py` build on them, for one
key of any of their kinds. `load[q]` is the fetch that request `q` started, as a
shielded task of its own for the kinds that are coalesced (`inflight`), so that
`Leave`, a cancelled request, ends the waiting and not the fetch. `local`, `fresh`
and `shadow` are the in-process entry, the row of `api_cache` and its stale copy.

**`SeasonAssignment`** — `metadata_engine/fribb.py`, and what `sync_database_async` of
`mapping_sync.py` makes of its results. The state is the dataset, which grows entry by
entry and in any order, with AniList's relations and the overrides; the rows of the
three tables are functions of it: the loop of `assign_seasons` is a recursive function
over the places of the list (`Placed`), one `Place` for each.
`BestTakesSlot` compares it with a definition that knows no order.

**`Browse`** — `metadata_engine/{browse,catalogue,store}.py` and the purge of
`mapping_sync.py`. A list is the version of the tables it was built from; `local`
keeps, for each of the entries list, facets and body, which versions went into it.

**`Supporters`** — `supporters_engine/{db,service,routes}.py`. `generation` is the
counter that a reader notes before its query and compares before it stores.

**`Boot`** — `startup.py`, `core/{migrations,db_pool}.py`, `api.py`. `boot[r]` is a
process of an image: it takes the advisory lock, runs the baseline DDL, reads
`schema_migrations`, applies what is missing in one transaction, starts scheduler
and workers, and on a stop drains the workers, ends the scheduler and closes the
pool. `Bad` are migrations that the database refuses.

### Streams and outside services

**`Watch`** and **`WatchContract`** — `watch_events`, `fan_out` and
`run_single_scraper` of `playback_engine/pipeline.py`. `at[s]` is scraper `s`'s
task; `seenEmbeds`, `seenUrls` and `queue` are the objects the tasks share. An
action runs from one await to the next, which is what asyncio guarantees. A
consumer may leave at any yield or await; closing the generators is then a chain of
steps, as in the code. `WatchContract` states the protocol of `core/contracts.py`
over the one variable `lines`, and `Watch` is shown to implement it.

**`SourceHealth`** — `playback_engine/health.py`: `load[d]` is a dashboard request,
`probing` the sources that the running sweep has not heard from.

**`JellyfinMatch`** — `scrapers/jellyfin_scraper.py`, `_title_match.py`: the search,
the fetch of episodes and the match by identity or by season and number, over every
library of a small set of shapes. Which candidate was collected first is which search
found it, and then its place in the library; "the first episode that fits" is the one
that is `Ahead` of the others. **`JellyfinSession`** —
`resolvers/_jellyfin_{client,proxy}.py`: `_token` and `_auth_lock`, for calls and
streams that meet a 401. Jellyfin's own tokens (`valid`, `logins`, `revokes`) are
external.

**`LocalScan`** — `local_engine/{library,fs}.py`: the tree is the state, which grows
node by node and in any order, and the scan is a function of it. **`LocalLibrary`**
— `local_engine/{db,routes,media_routes}.py`, `core/bounded_cache.py`: `roots` and
`items` are the two caches, read and written attribute by attribute.

**`LocalMatch`** — `scrapers/local_scraper.py`, `is_playable_path` of
`local_engine/fs.py`: the folders with their scores, the files in the order of the walk,
and the match as a function of them.

**`InviteBot`** — `discord_bot/bot.py`, the invites of `account_engine/db.py`. `at` is
where `run` and `_run_once` are; `hearts` are the connections whose `_heartbeat` task
runs, beside the loop. `inbox` is what the gateway sent and the loop has not read, `row`
the rows of `invite_tokens`, `told` what the owner was last told of each. A sign-up may
take an invite at any time.

**`Iptv`** — `iptv_engine/{service,routes}.py`: `fetch` are the refreshes under way
with what each has read of the index so far.

**`Chat`** — `chat_engine/{conversation,db,routes,access,tools,providers}.py`:
`chat[c]` is a `POST /chat` between two awaits of `reply`; `ledger` is the month's
sum, `messages` the conversations.

### Proofs and compositions

`CacheQueueProofs`, `DownloadQueueProofs`, `NotifierProofs` and `WatchProofs` hold the
theorems of the module they are named after; `AccountsProofs`, `CatalogueProofs`,
`MusicProofs` and `OutsideProofs` those of a composition and of its parts. `MCCacheQueue`, `MCDownloadQueue` and `MCWatch` hold
values for constants and symmetry sets.

The other four `MC` modules compose the components of one area, under one
specification and with their constants side by side:

| Composition | Parts |
|---|---|
| `MCAccounts` | `register` (`Registration`), `wall`, `links` (`Credentials`), `desk` (`AdminDesk`), `library` |
| `MCCatalogue` | `notify` (`Notifier`), `mapping`, `filing` (`SeasonAssignment`), `maintain`, `browse`, `boot`, `supporters`, `settings` (`ReadCache`) |
| `MCMusic` | `worker` (`MusicQueue`), `playlists` (`PlaylistSync`) |
| `MCOutside` | `local` (`LocalLibrary`), `scan`, `tv`, `chat`, `match` and `session` (Jellyfin), `health`, `titles` (`MetadataFetch`), `own` (`LocalMatch`), `bot` (`InviteBot`) |

The parts of one area meet only in rows that each models as far as it touches them
(a deleted account, a purge of `api_cache`, a track named by a playlist), as steps of
its own environment. So a behaviour of a composition runs one of its parts, chosen
in the initial state (`part`), while the others rest in one fixed initial state;
interleaving parts that share no variable would multiply states and reach no new
one of any part. A composed property is the conjunction of what its parts promise of
one hazard. `CacheQueue`, `DownloadQueue` and `Watch` share no table with the others
and have runs of their own. `Watch` meets `CacheQueue` in a ticket: what a client
redeems becomes `Confirm`, which may happen at any time there; `MetadataFetch` and
`Browse` meet in `api_cache`, whose purge is an action of both.

## 3. Runs

Every run is bounded by its constants, each named in its module. A bound counts
actions of the environment (requests, faults, restarts, the clock) or names that run
out (row ids, gids): a claim finds no id left and stays where it is, `addUri` finds no
gid and is refused. Nothing else that is under way is cut off.

| Run | Question | Instance, and why it is enough |
|---|---|---|
| `one_slot` | Do rows, jobs and files agree through drops, target edits, failed statements, crashes and restarts? | One episode, one target, two replicas (one of them with a stale read cache), two rows (so a drop and a new claim of the same path), one revival, one restart, one failed statement at any call. The hazards are about two rows of one path, one of them with a running job: a third row or a second path adds no new pair. Revivals on *another* target are covered by the proofs, which hold for any `Targets`. |
| `fair` | Does every download end and every pending row get taken? | The same without failed statements: a failed requeue or begin does leave a row behind until the next restart, which the code accepts (`start_worker` logs it). |
| `drop_orphans` | Is a dropped row's file gone? | Violation: see section 6. |
| `writers` | Can two aria2 downloads write one directory, or a payload be published twice? | Two rows (one a magnet, which hands off to a second gid), three gids (each row once, and one hand-off; a gid is free again once aria2 has dropped it), one slot, two requests of pause or delete, one aria2 restart. |
| `recovers` | Is anything stuck after a fault? | Two rows, two gids (used again once unknown to aria2), one slot, one request of pause, resume or retry, one fault of any of the five kinds (a lost reply, a failed statement, a restart of the worker or of aria2, a full disk). |
| `lost_reply` | The same as `writers` when one reply is lost. | Violation: see section 6. |
| `accounts` | Is what is single use used once, does whoever is out stay out, does the broadcast flag fall, does a library keep its rules? | Per part. *register*: three requests over two keys, one e-mail address, one single-use invite, the reusable code, one challenge. *wall*: two requests, a session and an API key, room for one remembered credential (so the sweep runs), a clock of three TTLs. *links*: three requests on one account with two passwords and two links. *desk*: three people, two of them administrators by configuration, two requests, a restart that sets the configured administrators again. *library*: two transactions on one favourite that may be in two lists, one episode, a cap of one row, imports of at most two rows, two saved positions, and midnights after which the retention purges the day before. |
| `catalogue` | One mail, one run, one dataset, a whole schema, recent caches? | Per part. *notify*: two users, one episode, two replicas, one fault, one change of subscriptions; the clock passes the lookback and both retentions. *mapping*: two rebuilders, a full table at first and two newer datasets that share a slot with it and with each other. *filing*: lists of up to three of fifteen entries, which are claims on the seasons of two shows by entries of three ids (three is what a slot, its winner and a loser need, or two losers in either order), a tvdb series that both shows are tagged with, films with and without a show, entries without an id; relations known and unknown; an override of a slot with claims and one of a slot without. *maintain*: two clicks, two drains, three titles in two buckets, three nights (one full turn and one more night). *browse*: two requests, two versions of the tables, both lives of the caches pass. *boot*: two images, of which the later edits a migration and adds one that the database refuses; four starts. *supporters*: a subscription, its renewal and a private payment without an id; two viewers, a clock that passes the list's TTL. *settings*: two readers and one writer here, a write elsewhere, one failed query, two TTLs. |
| `music` | Does a ready track have the right audio, on the share and on the CDN; do the link and the playlist stay current? | *worker*: two tracks that want the same file name, two recordings, one slot, two requests by members (imports, songs added and removed, picks and retries of settled tracks), two attempts, one stop or one file deleted by hand. *playlists*: two runs, two editions of the playlist, two rotations of the token, one playlist row. |
| `outside` | Is all found, nothing done twice, nothing served that is off, and an outage covered? | Per part. *scan*: every tree of up to four nodes with a movie, a show and files inside and outside of both. *local*: two requests, a change here or elsewhere, one failed query, a clock that passes the TTLs of both caches. *tv*: two channels, two requests, an index that changes between any two files. *chat*: two requests of one viewer, two rounds, budgets of one turn. *match*: eleven libraries of one or two Series, every set of tags, two seasons of two episodes, one of which may be missing. *session*: three calls, tokens dropped twice, one login that fails. *health*: two sources, three sweeps, a TTL that passes. *titles*: two requests, every kind of key, times at which local entry, row and shadow expire one after the other. *own*: two folders of three scores, two files of every kind of name, with and without encoding and the database. *bot*: two connections, three messages of any kind, one invite that may be minted, revoked and taken, a stop anywhere. |
| `empty_answers` | Is a source that answers with an empty list known to be reachable? | Violation: see section 6. |
| `requests` | Does `/watch` keep its protocol, lose nothing, stop when closed, and end? | Three scrapers (one for movies), two embeds, two streams, answers that overlap; every task may die, the client may leave anywhere. |

The hazards of the four composed runs are about pairs: two requests, two replicas,
two versions, or one request and a change of the environment. Each instance has two
of what must collide and one of everything else.

Deadlock is checked except in `accounts`, `catalogue`, `outside` and `requests`: there
requests, rebuilds and clocks are finite in number and the system stops when the
last has ended.

What they show beyond their table line:

* `one_slot`: `ReadyHasItsFile` relates the row to the inode its own ffmpeg wrote.
  It survives the two orders that look dangerous, a crash between `os.replace` and
  `mark_ready` (the file is overwritten by the requeued row) and a `mark_ready`
  whose acknowledgement is lost. `DownloadingIsHeld` is why `reset_stale_jobs` may
  run at start only.
* `recovers`: `ActiveHasGid` is what the monitor relies on, since it skips rows
  without a gid. The instance allows one request; two resumes of one row that cross
  each other break it (section 6).
* `accounts`: `StaysOut` bounds a logged-out session by one TTL whatever checks
  overlap the logout, because the deadline is counted from before the thread
  validates; counted from after it, a slow answer would prolong a dead session.
  `LibraryHolds` has the overshoot of the cap that the code's comment admits, and no
  more than that: less than the rows of a chain of transactions, each open together with
  the next. Those open at one time are not enough: four transactions, one of them a
  replacing import whose deleted row another one finds and writes back, pass the cap by
  one more.
* `catalogue`: the claim's primary key is `(user_id, anilist_id, episode)`, not the
  airing time, and this is what `AtMostOnce` rests on when an episode moves. It needs
  `RetentionAssumption`: an episode must not move by more than the ledger's year
  less the lookback, or its ledger row is swept before it is due again.
  `ReplacesWhole` holds by the row locks of the DELETE of the seasons, for two
  rebuilds of a full table (section 5); comparing versions assumes that a GET never
  answers with an older dataset than the HEAD before it.
  `TableCycles` counts from the nights in which no re-pull failed: a title that
  cannot be re-pulled stays the oldest and takes a place of every slice.
* `music`: `WorkingIsHeld` assumes that a handler's own database statements succeed
  (the worker's error handler requeues what it can). `mark_mirrored`'s condition on
  `rel_path` is never needed while there is one worker. The run allows picks only
  on tracks no task works on, and one slot; both limits matter (section 6).
  `LinkStaysAlive` excuses a rotation whose answer was lost: nobody then knows the
  new token. `SkippedIsCurrent` excuses runs that stored at once.
* `outside`: `HeldIsPlayed` says when a match is right: every call was answered, and
  either the episode's tags identify it or the names of the Series tell the seasons
  apart (`NamesTell`). They do not always: where a Series of many seasons lacks the first
  but is tagged with the show, and a Series of season 1 beside it is not, season 1 plays
  an episode of another season when nothing identifies it, for `_best_for_season` looks
  at names and tags only. `StreamsEnd` is about a database that answers; while it does not,
  the old configuration is kept on purpose. `SpendIsBounded` is the overspend that
  checking a budget before spending allows: every request under way may go through
  all its rounds.
* `requests`: `NothingLost` has two halves. Every stream a resolver answered with is
  passed on, which is about the sentinel: the finisher puts it only when the last
  worker has ended, dead ones included. And every embed is tried unless a worker died,
  because a worker that dies takes along the embeds it had claimed in `seen_embeds` and
  had not resolved.

### Fairness

* `CacheQueue!Fairness`: the event loop runs every ready task and a remux ends, for
  ffmpeg is killed at `cache_download_timeout` (weak fairness of each job's step);
  the poll loop ticks (`Fetch`, `Begin`/`Skip`); the worker's read cache expires
  (`RefreshWorker`); a draining worker is gone after its drain timeout and Docker
  starts a new one (`Die` while draining, `Start`). Nobody has to confirm a ticket,
  and an administrator never has to do anything.
* `DownloadQueue!FairSpec`: only the worker's loop is fair. aria2 need not make
  progress, and no request need finish.
* `Watch!Fairness`: the event loop, and the time limits that scrapers, resolvers and
  the client's socket have in the code. The client need not stay, nor leave.

The composed runs check safety only.

## 4. Properties and their hazards

`PROJECT.json` lists the hazards with their lines. The properties answer them as
follows; each run's property has a mutant of the code that breaks it. A property of
a composed run is the conjunction of the parts' properties named in brackets, which
are defined in the parts' modules.

* *Interleavings of requests and a worker*: `ReadyHasItsFile`, `WithinSlots`,
  `WrittenOnce` (`OneWriter`, `PublishedOnce`), `ActiveHasGid`, `TracksHold`
  (`ReadyHasItsAudio`, `PickIsHonoured`, `MirroredIsCurrent`, `WorkingIsHeld`,
  `SlotsKept`).
* *Two replicas or two processes*: `MailedOnce` (`AtMostOnce`, `SentWasMailed`),
  `ServesOne` (`InviteAdmitsOne`, `ChallengeServesOne`, `FallbackKeepsBoth`,
  `LinkServesOne`), `ReplacesWhole`, `UpkeepHolds` (`JobRunsOnce`, `TableCycles`),
  `BootHolds` (`SchemaIsWhole`, `PoolOutlivesJobs`), `PlaylistsHold`
  (`LinkStaysAlive`, `SkippedIsCurrent`).
* *Transactions at READ COMMITTED*: `LibraryHolds` (`QuotaHolds`, `WatchedIsKept`,
  `NeverEmptied`), `ReplacesWhole`.
* *Threads and caches*: `CachesHold` (`StoredIsRecent`, `PayersAreListed`,
  `AnswersFit`), `StaysOut` (`NothingOutlivesAccount`, `EndedStaysOut`), `OffStops`
  (`StreamsEnd`, `BlockedStaysOut`, `NoneAfterStop`).
* *Crashes, failed steps, outages*: `ReadyIsKept`, `DownloadingIsHeld`, `FlagFalls`,
  `KnownIsServed`, `ChatHolds` (`SpendIsBounded`, `AnswerHasQuestion`).
* *Ordering and cancellation in one event loop*: `KeepsContract`, `NothingLost`,
  `EmbedResolvedOnce`, `ClosedIsQuiet`, `RecordedOnce`, `SharedWork` (`OneRefresh`,
  `LoginsAreShared`, `OneCallPerKey`, `SweepsAreApart`, `OneHeart`, `RepliesAreTrue`).
* *Data of many shapes*: `ScanFindsAll` (`ListedOnce`, `BrowseReachesAll`),
  `HeldIsPlayed` (one of that name in `JellyfinMatch`, one in `LocalMatch`),
  the rows of `UpkeepHolds` (`BestTakesSlot`, `EveryEntryIsFiled`, `SameOnEveryRebuild`,
  `KeysHold`).
* *Something must happen*: `DownloadsEnd`, `PendingDrains`, `ForgottenRecovers`,
  `PendingSubmitted`, `RequestEnds`.

## 5. Proofs

TLAPS proves the theorems below for every value of the constants, from the named
assumptions of the modules (`CacheQueue`: at least one slot, natural bounds, `None`
is neither a key nor a target; `DownloadQueue`: finitely many rows, natural ids;
`Notifier`: natural times, `RetentionAssumption`; `Watch`: the answers are sequences
of embeds and of streams, some scraper may find nothing, the sentinel is neither).
What a part of a composition takes for granted is assumed in the composition's module,
under the part's name (`LibraryAssumption`, `UpkeepAssumption`, `SeriesAssumption`, ...):
natural bounds and times, finite sets of requests and titles, values that stand for
nothing outside the sets they are not in, seasons and episodes from 1 on, ids of the
dataset natural, at most one override for a slot, lives of in-process entries no longer
than that of a stale copy.
The bounds of the runs are constants too, so the theorems hold for any number of
rows, requests, restarts and errors. Each module of proofs extends the module it is
about, and has the same plan: an inductive invariant `IInv` as a conjunction of named
parts, one lemma per action or group of actions, and theorems that weaken it.

**`CacheQueueProofs`**

* `Typed` (`TypeOK`). `TypeOK` is not inductive: a row's path is typed only for ids
  that were issued, and the restart counter stays in range only because a worker
  that is down or draining had not used up its restarts. `Base` adds both
  (`Issued`, `Process`); every other invariant rests on it.
* `ReadyKept` (`ReadyIsKept`). The UPDATEs have no condition on the status, so a
  job could only be trusted not to touch a ready row if its row is not ready:
  `JobRows` (a job that has not answered yet has a row that is downloading, or
  none), with `UniqueKeys` (the unique index, which makes the revived row the only
  one) and `DropsGone` (the row goes before the file). `RowsInv` is their conjunction.
* `DownloadingHeld` (`DownloadingIsHeld`), inductive with `Base`.
* `SlotsKept` (`WithinSlots`). The slots are counted before two awaits, so the
  number of jobs alone is not inductive: `RoomInv` bounds jobs *plus* fetched rows.
* `ReadyFile` (`ReadyHasItsFile`), for `Slots = 1`. From `SlotsKept`, there is one
  job (`OneJob`); its `.part` is its own from the moment ffmpeg opens it (`OwnPart`);
  the file of a row is its own from the rename on (`OwnFile`); and no job of an
  older row with the same key is still about to publish when a row is ready
  (`NoRival`). `FileInv` is their conjunction with `RowsInv`.

**`WatchProofs`**

* `Typed` (`TypeOK`), with `Unborn` (before the fan-out no task exists).
* `ClosedStaysQuiet` (`ClosedIsQuiet`): a closed fan-out has cancelled every task.
* `ResolvedOnce` (`EmbedResolvedOnce`), with `Claimed` (whatever was resolved, or is
  being resolved, is in `seen_embeds`).
* `ContractKept` (`KeepsContract`): `Watch` implements `WatchContract` with `lines`
  for its variable. The invariant `Protocol` ties the lines to where `watch_events`
  is (`Script`) and says that a stream is in the queue, in hand, or said, and never
  two of them (`Single`); the lemma `Kept` maps every step to a step or a stutter.
* `CountedOnce` (`RecordedOnce`), from `Recorded`, which ties what was recorded to
  where `watch_events` is.
* `NothingIsLost` (`NothingLost`). While the request is served (`Held`): the tasks
  exist or have not begun (`Steady`); a stream that was found is with its worker, in
  the queue, in hand or said (`StreamsHeld`); an embed is with its worker or tried,
  unless a worker died (`EmbedsHeld`); and the sentinel, once put, is last and all
  workers have ended (`SentinelLast`). Reading the sentinel therefore means that
  nothing is left anywhere else.

**`DownloadQueueProofs`**

* `Typed` (`TypeOK`), over all faults and requests.
* `ActiveIsTracked` (`ActiveHasGid`), where administrators do not both pause and
  resume. The condition cannot be dropped: crossing resumes break it (section 6).
  `Given` adds that `mark_active` is about to write a gid that aria2 gave, and
  `Unpaused` that a resume writes `active` only with a gid, for a download that a
  pause had paused.
* `WrittenByOne` (`WrittenOnce`), where nobody resumes or retries, no call of the
  worker is lost and it is not restarted (`Calm`, the hypothesis, which is how the run
  `writers` sets `Ops` and `Faults`; section 6 has what happens without it). A delete
  leaves gids in the poll's hands that belong to no row any more, and a magnet has two
  gids for a while, so the argument is about *gids*: what the poll fetched is still tied
  to the row it was fetched for (`PollHolds`), what a request is about to remove was
  that row's (`OpsHold`), a gid keeps its job through a hand-off (`GidsHold`), and what a
  reply says of a download that has ended stays true (`ReplyHolds`). Then the one
  running download of a job is the row's own gid or the one it handed over to
  (`WritersHold`), and whoever has published is past every poll (`PublishHolds`).

**`NotifierProofs`**

* `OneMailEach` (`AtMostOnce`), `RecordedTruly` (`SentWasMailed`), `TypesKept`
  (`TypeOK`). A key that was mailed, or is about to be, was claimed after its
  episode first aired and still has its ledger row, unless the account is gone or the
  row has had its year (`Spent`); and it is in the batch of one sender at most (`Once`).
  That a row of that age is never missed takes times: an episode moves by `MaxSlip` at
  most (`Schedule`), a run lasts `MaxRun` at most (`Runs`), and what it is about to
  claim was in the lookback when it began (`Asked`), so with `RetentionAssumption` the
  purge takes a row only when nobody asks for its key again. `Told` ties what is
  recorded to the mails.

**`AccountsProofs`** (the composition `MCAccounts`)

* `InviteOnce` (`InviteAdmitsOne`), `ChallengeOnce` (`ChallengeServesOne`),
  `FallbackIsFree` (`FallbackKeepsBoth`), `TypesKept` (`TypeOK`), of `Registration`. An invite is
  checked long before it is consumed, so the argument is about everyone who has
  *passed* the consuming statement: whoever inserts an account, or has, is the one
  that used the invite (`Admitted`), a request past its challenge is the one that
  burned it (`Passed`), which cannot come back (`Spent`), and what was burned or taken
  tells where its request is (`Burned`, `Taken`), which gives the order of the
  statements that `FallbackKeepsBoth` is about. `Shape` says what each kind of request
  carries.
* `OneIsServed` (`ServesOne` of the run `accounts`): these and `LinkServesOne`. A link is
  consumed by an UPDATE that reads and ends it at once; `LinkSpent` says of whoever got
  past it that the link is dead, was of its kind, and that there is no second.
* `OutStaysOut` (`StaysOut`). For the wall: a credential is remembered no longer than a
  TTL from a moment at which its row was good (`RememberedTruly`), because the deadline
  counts from before the thread validates, and whoever passed carries one that was good
  a TTL before its lookup or later (`PassedTruly`, over `ChecksOwn`). For accounts: a
  session or a live link has an account (`AccountHeld`), over what each request carries
  (`Carries`) and `LinkSpent`.
* `FlagIsLet` (`FlagFalls`), inductive with the types of the queue of sends.
* `LibraryKept` (`LibraryHolds`). What a transaction has written reaches the others at its
  commit only, so the cap bounds more than the rows: the rows together with what every
  open transaction holds, unless it counted too few to be stopped (`Full`, `CapHolds`).
  Who did count below the cap has room for whatever all open transactions bring, less one
  (`Low`, `CountsHold`): it read the committed rows, and what is brought is at most the
  `burst`. A chain of overlapping transactions pays for its `burst` with `excess`
  (`ChainHolds`), and one that is alone pays nothing, because it sees all there will be
  (`Solo`). `WatchedIsKept` is inductive with the types; that no replacement empties the
  watchlists unless it wrote nothing follows from what each kind of transaction may carry
  at each statement (`Fits`).
* `AccountsTyped` (`Typed`).

**`CatalogueProofs`** (the composition `MCCatalogue`)

Each part's invariant is kept by every step of the composition, since no other part
touches its variables (`PartsAlone`).

* `OneMail` (`MailedOnce` of the run `catalogue`): the notices' theorems, composed.
* `UpkeepDone` (`UpkeepHolds`). The jobs: one has begun once, unless nobody has claimed
  it yet (`JobsHold`). The nights: that the last slice leaves no row older than `Buckets`
  nights is not inductive. What is: the rows are in the order of their turns
  (`RowsHold`), and of the rows outside tonight's slice those whose turn is `k` nights ago
  or longer are at most `(Buckets - k) / Buckets` of the table, for every `k` up to
  `Buckets` (`TurnsHold`). A slice is the head of the table, so it is taken from those
  that wait longest (`SliceIs`), a row that is stored anew goes to the end (`OthersAre`),
  and a table that grows makes the bound larger before it makes anybody late.

  The rows of a rebuild, which are functions of the dataset: after `n` entries of the loop
  every slot that one of them claims has a claim over which none of them wins, and the
  others are left over (`Settled`, `PlacedSettles`); that the recursive function is what
  its turns say is shown from the least turn at which it is not (`TurnsAre`). `FirstSeason`
  keeps this, or gives slot 1 to the best TV entry (`Filed`, `AssignedFiles`). No entry has
  two slots, so slots and leftovers are as many as entries (`AsManyRows`). A list with two
  neighbours swapped is `Shuffled` by a permutation under which groups, slots and leftovers
  correspond (`GroupsAgree`, `SlotsAgree`, `LeftAgree`), because who wins a slot depends on
  ids and types, not on places: the rows are equal (`TablesAgree`). Here it is needed that
  no series is tagged with two shows (`SeriesHaveOneShow`), the condition in the property.
* `SchemaAndPool` (`BootHolds`). Under the lock, what a replica has read of
  `schema_migrations` is what is there (`BatchHeld`); who serves has its schema
  (`SchemaHeld`); who is busy has a pool, and only a replica between its start and its
  drain is (`PoolHeld`).
* `RecentAnswers` (`CachesHold`), from one invariant per cache. The settings: a thread
  stores what was in the database after it began (`ThreadsHold`), and a value is no older
  than its stamp less a call, nor than the stamp that a thread has yet to set for it
  (`ValueHolds`): value and stamp are two assignments. The supporters: a list that was
  read before a payment was announced carries an older generation and is not stored
  (`ViewersHold`). The hubs: facets are of the list that is kept beside them, and the
  body of both (`Fitting`).
* `RebuildsImplement` (`ReplacesWhole`): `MappingSync` implements `MappingSnapshot`, by
  the three facts of a refinement. The hypothesis `Overlapping` is what makes it true:
  two rebuilds in all on a table that has rows, or any number by one process. What a
  rebuild has deleted is the whole table or nothing (`RunHolds`), because the rows it
  waited for are gone when the first commits: it then finds none of the rows it saw, and
  what the first filed in their place keeps it from deleting the entries (`Whole`); and of
  two under way, one at most has deleted (`Apart`). A third run that commits inside another's snapshot
  leaves rows of two datasets, which TLC finds with `MaxRuns = 3`.
* `CatalogueTyped` (`Typed`). Most of it is carried by the invariants above; the rest are
  the bounds: expiries lie within the clock's bound plus a life (`HubsTyped`), the
  generation counts payments that were announced and are no longer being posted
  (`FansTyped`), nothing is recorded before the first start (`Started`), and a rebuild
  past its HEAD has an etag to file (`RunsTyped`).

A least element of a set of naturals, which these need, follows from the library's
well-founded induction in its form over sets (`Least`).

**`OutsideProofs`** (the composition `MCOutside`)

Each part has an invariant of its own, `OutsideInv` is their conjunction, and
`OutsideStep` says of a step of the composition what the properties of steps need. What
the parts take for granted is named in `MCOutside` and `LocalLibrary`: times, costs,
budgets, depths and limits are natural, the requests of a viewer are finitely many and
there is a highest budget, a reply has at least one round, `Nobody` is no request; folders
are numbered and there is a highest score, a library is a sequence of Series, seasons and
episodes are numbered from 1.

* `DoneOnce` (`SharedWork` of the run `outside`), from five invariants.
  * *Logins*: `Counted` bounds them, and needs to know that whoever is about to log in
    does so with a reason (`Justified`: no token is good, and the token it saw rejected is
    still bad), that one call at a time is logging in (`Locked`), and that a kept token is
    the newest (`Newest`).
  * *Upstream calls*: the fetch of a coalesced key is the one `_inflight` names
    (`OneInFlight`), whoever waits does so for a fetch that goes on (`WaitsForSome`), and a
    fetch that is not coalesced has its own request waiting (`OwnLoad`). A cancelled leader
    therefore leaves nobody waiting for nothing.
  * *Refreshes of the channels*: the flag is up as long as one is under way (`TvInv`).
  * *Sweeps*: whoever sweeps holds the lock alone, and unless it was forced what is kept
    was old when it took the lock and still is (`HealthInv`).
  * *The bot*: before its hello a connection has no heartbeat (`HeartHolds`), and what is
    about to be said of an invite is as true as what was (`SaidTruly`).
* `StopsInTime` (`OffStops`). While no read failed, what the roots' cache holds, and what a
  thread is about to put there, was read when the root was on (`LocalInv`): the stamp is
  the time before the query, so it is no later than the last moment at which it was. What a
  refresh ruled out is still blocked when it publishes (`TvInv`), because a block is never
  lifted in the index.
* `OutageIsCovered` (`KnownIsServed`): a copy that lives is in the shadow, whatever is
  being fetched or lost meanwhile, and what is about to be stored is not nothing
  (`Covered`).
* `ChatWithinBudget` (`ChatHolds`). The ledger alone has no bound that is inductive; the
  ledger *plus* the cost of the rounds that are still owed has (`Within`): `Pending` are the
  pairs of a request and the number of a round it may yet be charged for, which a charge
  takes from, and a request adds to only while the ledger is below a ceiling. For the rows,
  every prefix is in order (`Behind`), and a whole conversation has room for one more
  answer per request that has saved its question and not its answer (`Room`).
* `ScanIsComplete` (`ScanFindsAll`). The invariant is `LocalScan!TypeOK` alone (a parent is
  older than its child); all the rest is about what the scan computes from a tree, a
  recursion over depths and nodes. No induction rule can be used here (those of the library
  take an operator), so each fact about it is proved by contradiction from the least or the
  greatest node or depth at which it fails (`Least`, `Greatest`): that the path upwards ends
  (`AboveHas`, `AboveCount`), that a folder is browsable if what is above it is
  (`BrowsableIs`), that joining the lists of the children leaves every file in one place
  (`FlatIs`, `HitsFlat`), and that a folder's list misses nothing below it (`ListsBelow`).
  A file is in the list of the folder it lies in once, and of every folder above it
  (`OneFolderUp`), except where the way of the scan does not lead (`OffTheWay`).
* `HeldPlays` (`HeldIsPlayed`). For Jellyfin: while no call has failed, every Series is a
  candidate before the episodes are fetched (`Collecting`), what was fetched is what the
  Series holds, and all of it before the match (`Fetching`); and the answer is what the
  match gives of it (`Matching`). The match is then a case split: among episodes one is
  `Ahead` of all others (`FirstItem`, four least elements in a row), the tags find the
  target or nothing does, and where names tell, the best score is that of a Series with the
  target's season (`BestHolds`). For the operator's files, the first file is likewise the
  one of the highest score, folder and place (`FirstFile`), so what plays comes from no
  worse a folder than any file that fits.
* `OutsideTyped` (`Typed`): the invariants above carry the types, and beside them
  `OutsideLimits` has the bounds, each by a step of its own (`SessionLimits`, `LocalLimits`,
  `ChatLimits`, `TitlesLimits`, `BotLimits`). Two need more than their own range: only a
  fetch that was answered writes a title's row, and a reply that is still asking the model
  is below its last round.

**`MusicProofs`** (the composition `MCMusic`)

What the parts take for granted is named in `MusicQueue` and `MCMusic`: a song has a
recording, an edition of the playlist is a set of tracks and there is one, bounds are
natural.

* `WorkerAlways`, for any constants: `TypeOK`, `WorkingIsHeld`, `SlotsKept`,
  `MirroredIsCurrent`. What a poll has fetched is pending and nobody's (`PollHolds`),
  tasks are as many as slots at most (`SlotsHold`), a task's row is working or gone from
  under it (`TaskHolds`), and a copy that is under way read the path that the row has
  (`CopyingHolds`, `CdnHolds`).
* `TracksHoldAlways` (`TracksHold` of the run `music`) adds `ReadyHasItsAudio` and
  `PickIsHonoured`, under the two hypotheses that section 6 shows to be needed: `Apart`
  (one slot, or no two tracks of one name) and `Settling` (picks are made on settled
  tracks). While nobody has deleted a file: a row's path is its own (`PathHolds`), what a
  task is about to write is what it picked (`TodoHolds`), and a file on the share is that
  of the row that names it (`FilesHold`). That a free path exists at all is a pigeonhole
  argument over the rows (`FreePathIs`), that the oldest rows come first an argument over
  ranks (`InOrderIs`).
* `PlaylistsHoldAlways` (`PlaylistsHold`). The link that is kept is one Spotify takes
  unless an answer was lost (`LinkHolds`). What a run has fetched are the tracks of a
  version between the one it found and the newest (`ReadHolds`). Unless two runs have been
  storing at once, one at most writes entries; while nobody has written entries whose
  snapshot is still to be marked, the entries are those of a row marked with the newest
  version, and whoever is about to mark has written a version no older than the one it
  found (`StoreHolds`): the mark may be of an older version than the entries, never of a
  newer one.
* `MusicTyped` (`Typed`).

Only model-checked: the liveness properties of the runs `fair`, `recovers` and `requests`
(`DownloadsEnd`, `PendingDrains`, `ForgottenRecovers`, `PendingSubmitted`, `RequestEnds`),
since the provers have no rule for `ENABLED`.

## 6. Where the code does not do what it says

Three statements are refuted by runs of this project:

* "Drops the entry and its file." (`cache_engine/admin_routes.py:164`). A remux that
  is running publishes its file after the drop (`drop_orphans`).
* A reset "would make it write the file twice. The monitor requeues only the gids
  aria2 has forgotten" (`download_engine/manager.py:79-80`). A lost reply of
  `tellStatus` is taken for a forgotten gid (`lost_reply`).
* "Reachable, but found no embeds for the canary title"
  (`playback_engine/health.py:79`). `run_single_scraper` answers every exception with
  an empty list (`playback_engine/pipeline.py:58-60`), so a source that is gone is
  reported as reachable and empty (`empty_answers`).

More were met while the models were written. The following are stated in the
modules, under the names given, as the sentences of the code say them. TLC finds
each of them violated on the instance of its part; no run of the project lists them,
and each name can be added to a `.cfg` to see the behaviour.

| Statement | What the code says | What happens |
|---|---|---|
| `Credentials!ResetSticks` | a password reset sets the password | a login that verified the old password before the reset writes its rehash after it: the old password is back |
| `AdminDesk!NoSecondSend` | "so a double click cannot queue a second send behind the lock and email everyone twice" (`admin_routes.py:287-288`) | the flag is read, the recipients are awaited, and only then is it set: two clicks both find it down |
| `AdminDesk!LastAdminStays` | nobody can demote the last admin (`admin_routes.py:127-128`) | two administrators who demote each other both count two |
| `MetadataFetch!UnfetchedIsLeftOut` | "A row whose season cannot be fetched is left as it was" (`next_episode.py:15-16`) | a made-up empty season is answered for it, kept as fresh, and written into the row |
| `Maintenance!NoStackedRuns` | "a double-click or a second admin cannot stack runs" (`maintenance.py:146-147`) | two INSERTs that do not see each other's row both succeed; besides, a job whose runner died stays `running` and no later one is accepted |
| `LocalLibrary!StopsAtOnce` | disabling a root or its encoding "404s these at once" (`media_routes.py`) | other replicas, and readers that overlap the change, serve it for a TTL |
| `LocalLibrary!GetAnswers` | `get` returns "the stored value, or None when absent or expired" (`core/bounded_cache.py:13`) | two threads that find an entry expired both delete it; the second raises |
| `PlaylistSync!GoneUntilImported` | deleting a playlist: "The playlist goes" (`music_engine/routes.py`) | a sync that was reading it inserts it again (needs `MaxPlaylist = 2`) |
| `JellyfinMatch!NamelessIsFirst` | "A name without a season counts as 1" (`jellyfin_scraper.py`, `_best_for_season`) | a name without a season scores for every season, only lower than one that tells it |
| `InviteBot!BeatFits` | `_seq` is the "last dispatch sequence, echoed in heartbeats" (`discord_bot/bot.py:65`) | it is not reset: the first heartbeat of a new connection may carry the number of the connection before it |
| `InviteBot!StopEnds` (with `FairSpec`) | "wakes immediately on shutdown" (`discord_bot/bot.py:86`) | only between connections: while the gateway keeps one open, `stop()` is not looked at, and the bot serves on |
| `LocalMatch!OnlyImplicitFirst` | "Flat folders leave season 1 implicit, so match on the episode alone" (`local_scraper.py`, `_locate_file`) | a file that names another season matches too: asked for season 1, which is not held, it plays the episode of season 2 |

Others limit what the passing runs assume, as section 3 says:

* With two cache slots, a row dropped and claimed again while its first remux runs
  gets a second ffmpeg on the same `.part`, and becomes ready on a file that is not
  whole; hence `Slots = 1` in `ReadyFile` (the default of `cache_max_concurrent`).
* The late unlink of a dropped row removes the file of a newer one. `ReadyHasItsFile`
  excuses such a row by `stolen`.
* A cached read that began before a write stores the old value after the write's
  invalidation; and a reader can pair an old value with a new stamp, and return it
  once. `StoredIsRecent` is about what is stored.
* Two resumes that cross each other leave an active row without a gid; a delete
  between `addUri` and `mark_active` leaves aria2 downloading; a pause there is undone.
* `consume_invite_code` runs before the INSERT, so of two sign-ups for one identity
  the loser wastes its invite.
* With two music slots, two tracks of one name can take one path; and a pick made
  while the matcher runs is overwritten.
* Two rebuilds of an *empty* database can leave a mixture of two datasets, since
  there are no rows to wait for; so can three of a full one.
* While the anime hub answers from its fallback list, its facets may be of the list
  before or after it: `AnswersFit` is about hubs without a fallback.
* `supporters_engine/db.py:71` says that a payment without an id has no dedup "but the
  payment still lands"; it is filed under its time stamp, so of two in the same second
  one is lost. `SmallPayments` has one such payment.
* An override takes its slot (`_apply_overrides`), and the entry that had it is then
  neither a season nor an extra of its show; it stays in `anime_entries`.
  `EveryEntryIsFiled` is about the rows before the overrides. If a tvdb series is tagged
  with two shows, the first of the list has it, so `SameOnEveryRebuild` is about lists
  in which none is.
* The bot's backoff is reset only when a connection ends without an exception; one that
  was up for days and is cut off leaves it doubled (`InviteBot!Leave`).
* Of a movie folder with several files the scan lists the main one and browsing does
  not descend, so the others are not reached: `BrowseReachesAll` leaves them out.

## 7. Not modelled

* *Connection pool*: psycopg's pool behind a context manager; it is the reason a
  statement is a step. Its opening and closing are in `Boot`.
* *Scrapers, resolvers and HTTP clients* except Jellyfin's: one upstream each; the
  models take an answer from a small set, failures included.
* *Proxy, grants, NDJSON framing*: handlers without state around signed URLs.
* *Pre-caching* (`warmup.py`): a claim in a TTL map and one background call after it,
  whose result is only logged.
* *HLS transcoding* (`local_engine/transcode.py`): without sessions. The playlist is
  computed from the duration, a segment request runs one ffmpeg to its end, and only
  durations are kept, under path, mtime and size.
* *Dates* (`metadata_engine/dates.py`): parsing of partial dates.
* *Audit trail and yearly summary*: one INSERT per audited action, and aggregation.
* *Read-only engines* (recommendations, subtitles, skip times, manga, changelog,
  telemetry, system): one statement or one upstream call per
  request; those with caches share the shape of `ReadCache`.
* Of modelled components: profile fields, invite administration and listings
  (single statements); playlist `.m3u` files, statistics and listens of the music
  library; the state dict of a forced resync, read by a status route only; search and
  the SQL of the catalogue's listings.

Abstracted in what is modelled: progress numbers, sizes, names, tags, mail layout,
log lines, metrics other than `record_watch`, the shaping of metadata answers, wire
formats of model providers, and everything about free space except whether there is
some. A title's or an episode's number stands for what identifies it.

## 8. Plan

Done: queues and workers, accounts, the catalogue's upkeep and caches, start and
stop, the watch stream, and the outside services; proofs for four modules and four
compositions.

1. `MusicQueue`: playlist files, and liveness (every held track settles); `Notifier`:
   a bound on how long a notice waits behind newer ones; `Maintenance`: liveness of
   the queue while runners die.
2. Proofs: the statements of the table in section 6 with the premise under which each
   becomes true.
