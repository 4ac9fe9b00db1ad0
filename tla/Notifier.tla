------------------------------ MODULE Notifier ------------------------------
(***************************************************************************)
(* Airing notices: notify_engine/notifier.py, db.py, schedule.py, the      *)
(* ledger of migrations/004_airing.sql and the batch sender of             *)
(* account_engine/mailer.py.                                               *)
(*                                                                         *)
(* A scheduler job asks for the notices that are due, claims them in the   *)
(* ledger, mails them over one SMTP session and records what became of     *)
(* each.  Another job refreshes the schedule from AniList, which may move  *)
(* an episode; a third deletes old rows of both tables.  The schedule of   *)
(* one title is enough: keys of different titles never meet.               *)
(***************************************************************************)
EXTENDS Integers, FiniteSets

CONSTANTS
    Users,         \* accounts
    Episodes,      \* episodes of the title
    Replicas,      \* processes that run the notify job
    Limit,         \* MAX_PER_RUN
    Lookback,      \* LOOKBACK_HOURS
    Horizon,       \* HORIZON_DAYS
    ScheduleKeep,  \* SCHEDULE_RETENTION_DAYS
    LedgerKeep,    \* LEDGER_RETENTION_DAYS
    Every,         \* the interval of the notify job
    MaxSlip,       \* how far AniList ever moves an episode
    MaxRun,        \* how long one run of the notify job takes at most
    MaxTime,       \* bound: the clock
    MaxFault,      \* bound: crashes, failed statements and dropped SMTP sessions
    MaxChange      \* bound: subscriptions changed and accounts deleted

ASSUME CountsAssumption == Limit \in Nat \ {0} /\ Every \in Nat \ {0}
ASSUME TimesAssumption ==
    {Lookback, Horizon, ScheduleKeep, LedgerKeep, MaxSlip, MaxRun, MaxTime} \subseteq Nat
ASSUME BoundsAssumption == MaxFault \in Nat /\ MaxChange \in Nat

\* What makes the ledger long enough: with a year of ledger and a day and a half of
\* lookback, an episode may move by most of a year.
ASSUME RetentionAssumption == MaxSlip + Lookback + MaxRun <= LedgerKeep

VARIABLES
    now,        \* the clock
    truth,      \* episode -> its airing time at AniList
    first,      \* episode -> its airing time before AniList moved it
    known,      \* rows of airing_schedule
    at,         \* episode -> airing_at of its row
    accounts,   \* rows of accounts
    readers,    \* those subscribed, with notify_email and a verified address
    status,     \* ledger: key -> status, "none" while there is no row
    claimedAt,  \* ledger: key -> claimed_at
    dry,        \* airing_notify_dry_run
    pc,         \* replica -> where its run is
    started,    \* replica -> when its run began
    batch,      \* replica -> pending keys, then the claimed ones not mailed yet
    outcomes,   \* replica -> <<key, ok>> the progress callback collected
    lastRun,    \* when the notify job last began, on any replica
    mails,      \* history: key -> messages the mail server accepted
    faults, changes   \* counters for the bounds

timeVars   == <<now, truth, first>>
tableVars  == <<known, at, accounts, readers, status, claimedAt>>
ledgerVars == <<status, claimedAt>>
runVars    == <<pc, started, batch, outcomes, lastRun>>
vars == <<timeVars, tableVars, dry, runVars, mails, faults, changes>>

Keys  == Users \X Episodes
Times == 0..(MaxTime + MaxSlip)

TypeOK ==
    /\ now \in 0..MaxTime
    /\ truth \in [Episodes -> Times]
    /\ first \in [Episodes -> 0..MaxTime]
    /\ known \subseteq Episodes
    /\ at \in [Episodes -> Times]
    /\ accounts \subseteq Users
    /\ readers \subseteq accounts
    /\ status \in [Keys -> {"none", "claimed", "sent", "failed"}]
    /\ claimedAt \in [Keys -> 0..MaxTime]
    /\ dry \in BOOLEAN
    /\ pc \in [Replicas -> {"idle", "claim", "send", "record"}]
    /\ started \in [Replicas -> 0..MaxTime]
    /\ batch \in [Replicas -> SUBSET Keys]
    /\ outcomes \in [Replicas -> SUBSET (Keys \X BOOLEAN)]
    /\ lastRun \in 0..MaxTime
    /\ mails \in [Keys -> Nat]
    /\ faults \in 0..MaxFault
    /\ changes \in 0..MaxChange

Init ==
    /\ now = 0
    /\ first \in [Episodes -> 0..MaxTime]
    /\ truth = first
    /\ known = {} /\ at = [e \in Episodes |-> 0]
    /\ accounts = Users /\ readers = Users
    /\ status = [k \in Keys |-> "none"] /\ claimedAt = [k \in Keys |-> 0]
    /\ dry \in BOOLEAN
    /\ pc = [r \in Replicas |-> "idle"] /\ started = [r \in Replicas |-> 0]
    /\ batch = [r \in Replicas |-> {}] /\ outcomes = [r \in Replicas |-> {}]
    /\ lastRun = 0
    /\ mails = [k \in Keys |-> 0]
    /\ faults = 0 /\ changes = 0

-----------------------------------------------------------------------------
(* Helpers.                                                                *)

InLookback(e) == at[e] <= now /\ now < at[e] + Lookback

\* What pending_notifications selects before its LIMIT.
Due == {k \in Keys : /\ k[1] \in readers
                     /\ k[2] \in known /\ InLookback(k[2])
                     /\ status[k] = "none"}

\* ORDER BY airing_at DESC LIMIT n; ties come in any order.
Newest(S, n) ==
    {B \in SUBSET S :
        /\ Cardinality(B) = IF Cardinality(S) < n THEN Cardinality(S) ELSE n
        /\ \A k \in B, l \in S \ B : at[k[2]] >= at[l[2]]}

Fault  == faults < MaxFault /\ faults' = faults + 1
Change == changes < MaxChange /\ changes' = changes + 1

\* Replica r's run is over.
Finish(r) ==
    /\ pc' = [pc EXCEPT ![r] = "idle"]
    /\ batch' = [batch EXCEPT ![r] = {}]
    /\ outcomes' = [outcomes EXCEPT ![r] = {}]
    /\ started' = [started EXCEPT ![r] = 0]
    /\ UNCHANGED lastRun

-----------------------------------------------------------------------------
(* send_due_notifications on replica r.                                    *)

\* pending_notifications; with nothing due the run is over.
Query(r) ==
    /\ pc[r] = "idle"
    /\ lastRun' = now
    /\ \E B \in Newest(Due, Limit) :
          /\ batch' = [batch EXCEPT ![r] = B]
          /\ pc' = [pc EXCEPT ![r] = IF B = {} THEN "idle" ELSE "claim"]
          /\ started' = [started EXCEPT ![r] = IF B = {} THEN 0 ELSE now]
    /\ UNCHANGED <<timeVars, tableVars, dry, outcomes, mails, faults, changes>>

\* INSERT ... ON CONFLICT DO NOTHING RETURNING, for the whole batch.
Claimed(W) ==
    /\ status' = [k \in Keys |-> IF k \in W THEN "claimed" ELSE status[k]]
    /\ claimedAt' = [k \in Keys |-> IF k \in W THEN now ELSE claimedAt[k]]

\* A dry run records every claim as failed and mails nobody.
Rehearsed(r, W) ==
    /\ batch' = [batch EXCEPT ![r] = IF dry THEN {} ELSE W]
    /\ outcomes' = [outcomes EXCEPT ![r] = IF dry THEN W \X {FALSE} ELSE {}]
    /\ pc' = [pc EXCEPT ![r] = IF dry THEN "record" ELSE "send"]

Claim(r) ==
    /\ pc[r] = "claim"
    /\ \A k \in batch[r] : k[1] \in accounts
    /\ LET won == {k \in batch[r] : status[k] = "none"}
       IN  Claimed(won) /\ Rehearsed(r, won)
    /\ UNCHANGED <<timeVars, known, at, accounts, readers, dry, started, lastRun,
                   mails, faults, changes>>

\* An account of the batch is gone: the foreign key fails the whole INSERT.
ClaimRejected(r) ==
    /\ pc[r] = "claim"
    /\ \E k \in batch[r] : k[1] \notin accounts
    /\ Finish(r)
    /\ UNCHANGED <<timeVars, tableVars, dry, mails, faults, changes>>

\* The connection is lost, before the commit or after it.
ClaimError(r) ==
    /\ pc[r] = "claim"
    /\ Fault
    /\ \A k \in batch[r] : k[1] \in accounts
    /\ \E W \in {{}, {k \in batch[r] : status[k] = "none"}} : Claimed(W)
    /\ Finish(r)
    /\ UNCHANGED <<timeVars, known, at, accounts, readers, dry, mails, changes>>

\* server.send_message, which the mail server accepts.
Send(r, k) ==
    /\ pc[r] = "send"
    /\ k \in batch[r]
    /\ batch' = [batch EXCEPT ![r] = @ \ {k}]
    /\ mails' = [mails EXCEPT ![k] = @ + 1]
    /\ outcomes' = [outcomes EXCEPT ![r] = @ \cup {<<k, TRUE>>}]
    /\ UNCHANGED <<timeVars, tableVars, dry, pc, started, lastRun, faults, changes>>

\* server.send_message raises: a refused address, or an answer that never came.
SendFails(r, k) ==
    /\ pc[r] = "send"
    /\ k \in batch[r]
    /\ Fault
    /\ batch' = [batch EXCEPT ![r] = @ \ {k}]
    /\ mails' \in {mails, [mails EXCEPT ![k] = @ + 1]}
    /\ outcomes' = [outcomes EXCEPT ![r] = @ \cup {<<k, FALSE>>}]
    /\ UNCHANGED <<timeVars, tableVars, dry, pc, started, lastRun, changes>>

\* Mutant: the rest of the batch is reported as sent.
SessionDiesQuietly(r) ==
    /\ pc[r] = "send"
    /\ Fault
    /\ batch' = [batch EXCEPT ![r] = {}]
    /\ outcomes' = [outcomes EXCEPT ![r] = @ \cup (batch[r] \X {TRUE})]
    /\ pc' = [pc EXCEPT ![r] = "record"]
    /\ UNCHANGED <<timeVars, tableVars, dry, started, lastRun, mails, changes>>

\* The SMTP session cannot be opened or dies: every unsent message has failed.
SessionDies(r) ==
    /\ pc[r] = "send"
    /\ Fault
    /\ batch' = [batch EXCEPT ![r] = {}]
    /\ outcomes' = [outcomes EXCEPT ![r] = @ \cup (batch[r] \X {FALSE})]
    /\ pc' = [pc EXCEPT ![r] = "record"]
    /\ UNCHANGED <<timeVars, tableVars, dry, started, lastRun, mails, changes>>

AllSent(r) ==
    /\ pc[r] = "send"
    /\ batch[r] = {}
    /\ pc' = [pc EXCEPT ![r] = "record"]
    /\ UNCHANGED <<timeVars, tableVars, dry, started, batch, outcomes, lastRun, mails,
                   faults, changes>>

\* record_outcomes updates the rows that still exist.
Record(r) ==
    /\ pc[r] = "record"
    /\ status' = [k \in Keys |->
                    IF status[k] = "none" THEN "none"
                    ELSE IF <<k, TRUE>> \in outcomes[r] THEN "sent"
                    ELSE IF <<k, FALSE>> \in outcomes[r] THEN "failed" ELSE status[k]]
    /\ Finish(r)
    /\ UNCHANGED <<timeVars, known, at, accounts, readers, claimedAt, dry, mails,
                   faults, changes>>

\* The process dies, or record_outcomes raises: what was claimed stays claimed.
Crash(r) ==
    /\ pc[r] # "idle"
    /\ Fault
    /\ Finish(r)
    /\ UNCHANGED <<timeVars, tableVars, dry, mails, changes>>

-----------------------------------------------------------------------------
(* The other jobs, the users, AniList and the clock.                       *)

\* refresh_schedule upserts what fetch_window collected: some or all of the window.
Refresh ==
    /\ \E S \in SUBSET {e \in Episodes : now < truth[e] + Lookback /\ truth[e] < now + Horizon} :
          /\ S # {}
          /\ known' = known \cup S
          /\ at' = [e \in Episodes |-> IF e \in S THEN truth[e] ELSE at[e]]
    /\ UNCHANGED <<timeVars, accounts, readers, ledgerVars, dry, runVars, mails,
                   faults, changes>>

\* Mutant: the ledger is kept as long as the schedule.
PurgeBothAlike ==
    /\ known' = {e \in known : now <= at[e] + ScheduleKeep}
    /\ status' = [k \in Keys |-> IF claimedAt[k] + ScheduleKeep < now THEN "none" ELSE status[k]]
    /\ <<known, status>>' # <<known, status>>
    /\ UNCHANGED <<timeVars, at, accounts, readers, claimedAt, dry, runVars, mails,
                   faults, changes>>

\* purge_old, in one transaction.
Purge ==
    /\ known' = {e \in known : now <= at[e] + ScheduleKeep}
    /\ status' = [k \in Keys |-> IF claimedAt[k] + LedgerKeep < now THEN "none" ELSE status[k]]
    /\ <<known, status>>' # <<known, status>>
    /\ UNCHANGED <<timeVars, at, accounts, readers, claimedAt, dry, runVars, mails,
                   faults, changes>>

\* subscribe and unsubscribe, a verified address set or removed.
Follow(u) ==
    /\ u \in accounts
    /\ Change
    /\ readers' = IF u \in readers THEN readers \ {u} ELSE readers \cup {u}
    /\ UNCHANGED <<timeVars, known, at, accounts, ledgerVars, dry, runVars, mails, faults>>

\* Mutant: the subscriptions do not cascade.
DeleteAccountKeepsFollows(u) ==
    /\ u \in accounts
    /\ Change
    /\ accounts' = accounts \ {u}
    /\ status' = [k \in Keys |-> IF k[1] = u THEN "none" ELSE status[k]]
    /\ UNCHANGED <<timeVars, known, at, readers, claimedAt, dry, runVars, mails, faults>>

\* An account is deleted: its subscriptions and ledger rows cascade.
DeleteAccount(u) ==
    /\ u \in accounts
    /\ Change
    /\ accounts' = accounts \ {u}
    /\ readers' = readers \ {u}
    /\ status' = [k \in Keys |-> IF k[1] = u THEN "none" ELSE status[k]]
    /\ UNCHANGED <<timeVars, known, at, claimedAt, dry, runVars, mails, faults>>

\* AniList moves an episode to a later time.
Slip(e) ==
    /\ truth[e] < first[e] + MaxSlip
    /\ truth' = [truth EXCEPT ![e] = @ + 1]
    /\ UNCHANGED <<now, first, tableVars, dry, runVars, mails, faults, changes>>

\* Time passes: the notify job is not late, and no run takes longer than MaxRun.
Tick ==
    /\ now < MaxTime
    /\ \A r \in Replicas : pc[r] # "idle" => now < started[r] + MaxRun
    /\ now < lastRun + Every \/ \E r \in Replicas : pc[r] # "idle"
    /\ now' = now + 1
    /\ UNCHANGED <<truth, first, tableVars, dry, runVars, mails, faults, changes>>

-----------------------------------------------------------------------------
Notify(r) ==
    \/ Query(r) \/ Claim(r) \/ ClaimRejected(r) \/ ClaimError(r)
    \/ \E k \in Keys : Send(r, k) \/ SendFails(r, k)
    \/ SessionDies(r) \/ AllSent(r) \/ Record(r) \/ Crash(r)

Next ==
    \/ \E r \in Replicas : Notify(r)
    \/ Refresh \/ Purge \/ Tick
    \/ \E u \in Users : Follow(u) \/ DeleteAccount(u)
    \/ \E e \in Episodes : Slip(e)

Spec == Init /\ [][Next]_vars

-----------------------------------------------------------------------------
(* Properties.                                                             *)

\* Nobody is mailed twice about an episode: not by two replicas that read the same
\* pending rows, not after a crash or a lost answer, and not when AniList moves an
\* episode whose schedule row, or whose ledger row, has been swept away.
AtMostOnce == \A k \in Keys : mails[k] <= 1

\* The ledger does not claim a delivery that did not happen, whatever died between the
\* claim and the record.
SentWasMailed == \A k \in Keys : status[k] = "sent" => mails[k] = 1

=============================================================================
