------------------------------- MODULE Library -------------------------------
(***************************************************************************)
(* One account's watchlists, progress and watch events                     *)
(* (account_engine/library_routes.py, transfer.py and the favorites,       *)
(* watch_progress and watch_events tables of db.py).                       *)
(*                                                                         *)
(* A request is one transaction of several statements at READ COMMITTED: a *)
(* statement sees what is committed when it runs and what its transaction  *)
(* did, and waits for a row that another open transaction wrote.           *)
(***************************************************************************)
EXTENDS Integers, Sequences, FiniteSets, Functions

CONSTANTS
    Items,      \* titles
    Lists,      \* watchlists
    Episodes,   \* what progress is saved of
    Requests,   \* requests (bound: how many are made)
    Cap,        \* MAX_FAVORITES_PER_USER and MAX_PROGRESS_PER_USER
    MaxFile,    \* rows of an imported file (bound)
    Spots,      \* positions a viewer saves
    Retention,  \* WATCH_EVENTS_RETENTION_DAYS
    MaxDay      \* bound on the days

Shelf == Items \X Lists
Days  == 1..MaxDay

VARIABLES
    rows,     \* committed rows of favorites and watch_progress, by key
    events,   \* episode and day -> seconds of the committed row of watch_events
    day,      \* today
    tx,       \* request -> its transaction
    burst,    \* history: rows that came to be written since no transaction was open
    excess,   \* history: the most of them, less one, of transactions that overlapped
    reached   \* history: episode and day -> furthest position saved

vars == <<rows, events, day, tx, burst, excess, reached>>

Stages == {"none", "delete", "deleting", "count", "exists", "upsert", "commit", "done"}
Files == UNION {[1..n -> Shelf] : n \in 0..MaxFile}

\* kind, stage, keys still to write, keys its DELETE is about to remove, what it wrote and
\* removed, its count of the table, and the day and position of a save
TypeOK ==
    /\ rows \subseteq Shelf \cup Episodes
    /\ events \in [Episodes \X Days -> Spots \cup {0}] /\ reached \in [Episodes \X Days -> Spots \cup {0}]
    /\ day \in Days /\ {burst, excess} \subseteq Nat
    /\ \A r \in Requests :
          /\ tx[r].kind \in {"none", "add", "save", "merge", "replace", "remove"} /\ tx[r].at \in Stages
          /\ UNION {Range(tx[r].todo), tx[r].aims, tx[r].ins, tx[r].del} \subseteq Shelf \cup Episodes
          /\ tx[r].count \in Nat /\ tx[r].day \in Days /\ tx[r].spot \in Spots \cup {0}

NoTx == [kind |-> "none", at |-> "none", todo |-> <<>>, aims |-> {}, ins |-> {}, del |-> {},
         count |-> 0, day |-> 1, spot |-> 0]

Init ==
    /\ rows = {} /\ day = 1 /\ burst = 0 /\ excess = 0
    /\ events = [ed \in Episodes \X Days |-> 0] /\ reached = events
    /\ tx = [r \in Requests |-> NoTx]

-----------------------------------------------------------------------------
Open(r)   == tx[r].at \notin {"none", "done"}
Opened    == {r \in Requests : Open(r)}
Seen(r)   == (rows \ tx[r].del) \cup tx[r].ins
Count(r)  == Cardinality(Seen(r) \cap (IF tx[r].kind = "save" THEN Episodes ELSE Shelf))
Locked(r) == UNION {tx[q].ins \cup tx[q].del : q \in Opened \ {r}}
Bulk(r)   == tx[r].kind \in {"merge", "replace"}

Next1(todo) == IF todo = <<>> THEN "commit" ELSE "exists"

Begin(r, kind, at, todo, aims, spot) ==
    /\ tx[r].at = "none"
    /\ tx' = [tx EXCEPT ![r] = [NoTx EXCEPT !.kind = kind, !.at = at, !.todo = todo, !.aims = aims,
                                            !.day = IF kind = "save" THEN day ELSE 1, !.spot = spot]]
    /\ burst' = Len(todo) + (IF Opened = {} THEN 0 ELSE burst)
    /\ excess' = IF Opened = {} \/ burst' <= excess THEN excess ELSE burst' - 1
    /\ UNCHANGED <<rows, events, day, reached>>

\* add_favorite
Add(r, k) == Begin(r, "add", "exists", <<k>>, {}, 0)

\* upsert_progress; what it schedules afterwards is not of the account.
Save(r, e, s) == Begin(r, "save", "exists", <<e>>, {}, s)

\* import_favorites of the rows that favorites_from_rows keeps
Import(r, file) == Begin(r, "merge", "count", file, {}, 0)
Replace(r, file) == Begin(r, "replace", "delete", file, Shelf, 0)

\* remove_favorite, from one list or from all of them, and remove_progress
Remove(r, i, lists) == Begin(r, "remove", "delete", <<>>, {i} \X lists, 0)
Forget(r, e) == Begin(r, "remove", "delete", <<>>, {e}, 0)

\* A DELETE finds its rows, ...
DeleteBegins(r) ==
    /\ tx[r].at = "delete"
    /\ tx' = [tx EXCEPT ![r].aims = @ \cap rows, ![r].at = "deleting"]
    /\ UNCHANGED <<rows, events, day, burst, excess, reached>>

\* Mutant: the DELETE of a replacing import is a transaction of its own.
DeleteAtOnce(r) ==
    /\ tx[r].at = "deleting"
    /\ tx[r].aims \cap Locked(r) = {}
    /\ rows' = rows \ tx[r].aims
    /\ tx' = [tx EXCEPT ![r].aims = {}, ![r].at = IF tx[r].kind = "replace" THEN "count" ELSE "commit"]
    /\ UNCHANGED <<events, day, burst, excess, reached>>

\* ... waits for those that are locked, and removes the ones that are left.
Delete(r) ==
    /\ tx[r].at = "deleting"
    /\ tx[r].aims \cap Locked(r) = {}
    /\ tx' = [tx EXCEPT ![r].del = tx[r].aims \cap rows, ![r].aims = {},
                        ![r].at = IF tx[r].kind = "replace" THEN "count" ELSE "commit"]
    /\ UNCHANGED <<rows, events, day, burst, excess, reached>>

\* SELECT COUNT: an import keeps the number, an add or a save is refused at the cap.
CountRows(r) ==
    /\ tx[r].at = "count"
    /\ LET full == ~Bulk(r) /\ Count(r) >= Cap
       IN  tx' = [tx EXCEPT ![r] =
                    IF full THEN [NoTx EXCEPT !.at = "done"]
                    ELSE IF Bulk(r) THEN [@ EXCEPT !.count = Count(r), !.at = Next1(tx[r].todo)]
                    ELSE [@ EXCEPT !.at = "upsert"]]
    /\ UNCHANGED <<rows, events, day, burst, excess, reached>>

\* Mutant: the count of an import is left as it was read.
ExistsUncounted(r) ==
    /\ tx[r].at = "exists"
    /\ LET known == Head(tx[r].todo) \in Seen(r)
           skip == ~known /\ Bulk(r) /\ tx[r].count >= Cap
       IN  tx' = [tx EXCEPT ![r] =
                    IF skip THEN [@ EXCEPT !.todo = Tail(tx[r].todo), !.at = Next1(Tail(tx[r].todo))]
                    ELSE [@ EXCEPT !.at = IF known \/ Bulk(r) THEN "upsert" ELSE "count"]]
    /\ UNCHANGED <<rows, events, day, burst, excess, reached>>

\* SELECT 1: a row that is there is updated; one that is not is skipped by an import that has
\* reached the cap, and counted for by the others.
Exists(r) ==
    /\ tx[r].at = "exists"
    /\ LET known == Head(tx[r].todo) \in Seen(r)
           skip == ~known /\ Bulk(r) /\ tx[r].count >= Cap
       IN  tx' = [tx EXCEPT ![r] =
                    IF skip THEN [@ EXCEPT !.todo = Tail(tx[r].todo), !.at = Next1(Tail(tx[r].todo))]
                    ELSE [@ EXCEPT !.count = tx[r].count + IF known \/ ~Bulk(r) THEN 0 ELSE 1,
                                   !.at = IF known \/ Bulk(r) THEN "upsert" ELSE "count"]]
    /\ UNCHANGED <<rows, events, day, burst, excess, reached>>

\* INSERT ... ON CONFLICT DO UPDATE
Upsert(r) ==
    /\ tx[r].at = "upsert"
    /\ Head(tx[r].todo) \notin Locked(r)
    /\ tx' = [tx EXCEPT ![r].ins = @ \cup {Head(tx[r].todo)}, ![r].todo = Tail(@),
                        ![r].at = Next1(Tail(tx[r].todo))]
    /\ UNCHANGED <<rows, events, day, burst, excess, reached>>

\* Mutant: the event takes the position of the last save.
EventOverwritten(r, table) ==
    [ed \in Episodes \X Days |->
        IF tx[r].kind = "save" /\ ed[1] \in tx[r].ins /\ ed[2] = tx[r].day THEN tx[r].spot ELSE table[ed]]

\* The INSERT into watch_events, under the lock of the progress row: the day is the one the
\* transaction began on, and the seconds never shrink.
EventSaved(r, table) ==
    [ed \in Episodes \X Days |->
        IF tx[r].kind = "save" /\ ed[1] \in tx[r].ins /\ ed[2] = tx[r].day /\ tx[r].spot > table[ed]
        THEN tx[r].spot ELSE table[ed]]

Commit(r) ==
    /\ tx[r].at = "commit"
    /\ rows' = Seen(r)
    /\ events' = EventSaved(r, events)
    /\ reached' = [ed \in Episodes \X Days |->
                      IF tx[r].kind = "save" /\ ed \in tx[r].ins \X {tx[r].day} /\ tx[r].spot > reached[ed]
                      THEN tx[r].spot ELSE reached[ed]]
    /\ tx' = [tx EXCEPT ![r] = [NoTx EXCEPT !.at = "done"]]
    /\ UNCHANGED <<day, burst, excess>>

\* The connection is lost, the process dies, or PostgreSQL breaks a deadlock.
Rollback(r) ==
    /\ Open(r)
    /\ tx' = [tx EXCEPT ![r] = [NoTx EXCEPT !.at = "done"]]
    /\ UNCHANGED <<rows, events, day, burst, excess, reached>>

\* purge_expired, as a replica starts and then every so often.
PurgeExpired ==
    /\ events' = [ed \in Episodes \X Days |-> IF ed[2] < day - Retention THEN 0 ELSE events[ed]]
    /\ events' # events
    /\ UNCHANGED <<rows, day, tx, burst, excess, reached>>

Midnight ==
    /\ day < MaxDay
    /\ day' = day + 1
    /\ UNCHANGED <<rows, events, tx, burst, excess, reached>>

Next ==
    \/ \E r \in Requests :
          \/ \E k \in Shelf : Add(r, k)
          \/ \E e \in Episodes : Forget(r, e) \/ \E s \in Spots : Save(r, e, s)
          \/ \E file \in Files : Import(r, file) \/ Replace(r, file)
          \/ \E i \in Items, lists \in {{l} : l \in Lists} \cup {Lists} : Remove(r, i, lists)
          \/ DeleteBegins(r) \/ Delete(r) \/ CountRows(r) \/ Exists(r) \/ Upsert(r)
          \/ Commit(r) \/ Rollback(r)
    \/ PurgeExpired \/ Midnight

Spec == Init /\ [][Next]_vars

-----------------------------------------------------------------------------
(* Properties.                                                             *)

\* "A small concurrent overshoot of the cap is possible" (upsert_favorite): transactions that
\* never overlap keep the cap, and a chain of those that do, each with the next, exceeds it by
\* less than the rows they write.
QuotaHolds == Cardinality(rows \cap Shelf) <= Cap + excess

\* A rewatch that starts at zero, or a save that overlaps another one, never shrinks what a day
\* of the retention knows of an episode, and the purge spares it.
WatchedIsKept == \A ed \in Episodes \X Days : ed[2] >= day - Retention => events[ed] >= reached[ed]

\* Who empties the watchlists: a removal, or a replacement, that wrote nothing.
ByRemovalOnly ==
    rows \cap Shelf # {} /\ rows' \cap Shelf = {} =>
        \E r \in Requests : /\ tx[r].at = "commit" /\ tx'[r].at = "done"
                            /\ tx[r].kind \in {"remove", "replace"} /\ tx[r].ins = {}

\* "A failed import never leaves the account empty": watchlists go away at once only by a
\* removal or by a replacement that brought nothing.
NeverEmptied == [][ByRemovalOnly]_vars

=============================================================================
