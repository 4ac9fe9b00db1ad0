--------------------------- MODULE NotifierProofs ---------------------------
(***************************************************************************)
(* Proof that nobody is mailed twice about an episode, for any number of   *)
(* users, episodes and replicas and any lengths of time that keep the      *)
(* ledger long enough.                                                     *)
(***************************************************************************)
EXTENDS Notifier, TLAPS

USE CountsAssumption, TimesAssumption, BoundsAssumption, RetentionAssumption

\* AniList moves an episode to later times only, and the schedule has one of its times.
Schedule ==
    \A e \in Episodes :
        /\ first[e] <= truth[e] /\ truth[e] <= first[e] + MaxSlip
        /\ e \in known => first[e] <= at[e] /\ at[e] <= first[e] + MaxSlip

\* No run is longer than MaxRun.
Runs ==
    \A r \in Replicas : pc[r] # "idle" => started[r] <= now /\ now <= started[r] + MaxRun

\* What a run is about to claim was in the lookback when the run began.
Asked ==
    \A r \in Replicas : \A k \in batch[r] :
        pc[r] = "claim" => /\ first[k[2]] <= started[r]
                           /\ started[r] < first[k[2]] + MaxSlip + Lookback

Sends(r, k) == pc[r] = "send" /\ k \in batch[r]

\* A key that was mailed, or is about to be, was claimed after its episode first aired, and has
\* its ledger row still, unless the account is gone or the row had its year.
Spent ==
    \A k \in Keys : mails[k] > 0 \/ (\E r \in Replicas : Sends(r, k)) =>
        /\ first[k[2]] <= claimedAt[k]
        /\ status[k] = "none" => k[1] \notin accounts \/ claimedAt[k] + LedgerKeep < now

\* A key is in the batch of one sender at most, and then was not mailed yet.
Once ==
    \A k \in Keys :
        /\ mails[k] <= 1
        /\ \A r \in Replicas : Sends(r, k) =>
              mails[k] = 0 /\ \A q \in Replicas : Sends(q, k) => q = r

\* What is told, or recorded, as sent was mailed.
Told ==
    /\ \A r \in Replicas, k \in Keys : <<k, TRUE>> \in outcomes[r] => mails[k] = 1
    /\ \A k \in Keys : status[k] = "sent" => mails[k] = 1

IInv == TypeOK /\ Schedule /\ Runs /\ Asked /\ Spent /\ Once /\ Told

LEMMA Pairs == \A k \in Keys : k[1] \in Users /\ k[2] \in Episodes
  BY DEF Keys

LEMMA InitInv == Init => IInv
  BY DEF Init, IInv, TypeOK, Schedule, Runs, Asked, Spent, Once, Told, Sends, Times

-----------------------------------------------------------------------------
(* Runs of the notify job.                                                 *)

\* A run that claims a key finds it unmailed: the ledger row of a key that was mailed outlives
\* every run that could still hold it as due.
LEMMA Fresh ==
    ASSUME IInv, NEW r \in Replicas, pc[r] = "claim", \A l \in batch[r] : l[1] \in accounts,
           NEW k \in batch[r], status[k] = "none"
    PROVE  k \in Keys /\ mails[k] = 0 /\ \A q \in Replicas : ~Sends(q, k)
<1>1. k \in Keys
  BY DEF IInv, TypeOK
<1>2. now <= started[r] + MaxRun /\ started[r] < first[k[2]] + MaxSlip + Lookback
  BY DEF IInv, Runs, Asked
<1>3. /\ now \in Nat /\ started[r] \in Nat /\ first[k[2]] \in Nat
      /\ claimedAt[k] \in Nat /\ mails[k] \in Nat
  BY <1>1, Pairs DEF IInv, TypeOK
<1>4. ~(mails[k] > 0 \/ \E q \in Replicas : Sends(q, k))
  BY <1>1, <1>2, <1>3 DEF IInv, Spent
<1> QED BY <1>1, <1>3, <1>4

LEMMA Extended ==
    ASSUME outcomes \in [Replicas -> SUBSET (Keys \X BOOLEAN)], NEW r \in Replicas,
           NEW S \in SUBSET (Keys \X BOOLEAN)
    PROVE  [outcomes EXCEPT ![r] = @ \cup S] \in [Replicas -> SUBSET (Keys \X BOOLEAN)]
<1> DEFINE P == Keys \X BOOLEAN
<1> HIDE DEF P
<1>1. outcomes \in [Replicas -> SUBSET P] /\ S \in SUBSET P
  BY DEF P
<1>2. [outcomes EXCEPT ![r] = @ \cup S] \in [Replicas -> SUBSET P]
  BY <1>1
<1> QED BY <1>2 DEF P

LEMMA TypeNotify ==
    ASSUME IInv, NEW r \in Replicas, Notify(r) PROVE TypeOK'
<1>1. CASE Query(r)
  <2>1. PICK B \in Newest(Due, Limit) :
           /\ batch' = [batch EXCEPT ![r] = B]
           /\ pc' = [pc EXCEPT ![r] = IF B = {} THEN "idle" ELSE "claim"]
           /\ started' = [started EXCEPT ![r] = IF B = {} THEN 0 ELSE now]
    BY <1>1 DEF Query
  <2>2. B \subseteq Keys
    BY DEF Newest, Due
  <2> QED BY <1>1, <2>1, <2>2 DEF IInv, TypeOK, Query, timeVars, tableVars, ledgerVars
<1>2. CASE Claim(r)
  BY <1>2 DEF IInv, TypeOK, Claim, Claimed, Rehearsed, timeVars
<1>3. CASE ClaimRejected(r)
  BY <1>3 DEF IInv, TypeOK, ClaimRejected, Finish, timeVars, tableVars, ledgerVars
<1>4. CASE ClaimError(r)
  BY <1>4 DEF IInv, TypeOK, ClaimError, Claimed, Finish, Fault, timeVars
<1>5. CASE \E k \in Keys : Send(r, k) \/ SendFails(r, k)
  <2>1. PICK k \in Keys, ok \in BOOLEAN :
           /\ batch' = [batch EXCEPT ![r] = @ \ {k}]
           /\ mails' \in {mails, [mails EXCEPT ![k] = @ + 1]}
           /\ outcomes' = [outcomes EXCEPT ![r] = @ \cup {<<k, ok>>}]
    BY <1>5 DEF Send, SendFails
  <2>2. outcomes' \in [Replicas -> SUBSET (Keys \X BOOLEAN)]
    <3>1. {<<k, ok>>} \in SUBSET (Keys \X BOOLEAN)
      OBVIOUS
    <3> QED BY <2>1, <3>1, Extended DEF IInv, TypeOK
  <2>3. /\ UNCHANGED <<timeVars, tableVars, dry, pc, started, lastRun, changes>>
        /\ faults' = faults \/ (faults < MaxFault /\ faults' = faults + 1)
    BY <1>5 DEF Send, SendFails, Fault
  <2> QED BY <2>1, <2>2, <2>3 DEF IInv, TypeOK, timeVars, tableVars, ledgerVars
<1>6. CASE SessionDies(r)
  <2>1. batch[r] \X {FALSE} \subseteq Keys \X BOOLEAN
    BY DEF IInv, TypeOK
  <2>2. outcomes' \in [Replicas -> SUBSET (Keys \X BOOLEAN)]
    BY <1>6, <2>1, Extended DEF IInv, TypeOK, SessionDies
  <2>3. /\ pc' = [pc EXCEPT ![r] = "record"] /\ batch' = [batch EXCEPT ![r] = {}]
        /\ faults < MaxFault /\ faults' = faults + 1
        /\ UNCHANGED <<timeVars, tableVars, dry, started, lastRun, mails, changes>>
    BY <1>6 DEF SessionDies, Fault
  <2> QED BY <2>2, <2>3 DEF IInv, TypeOK, timeVars, tableVars, ledgerVars
<1>7. CASE AllSent(r)
  BY <1>7 DEF IInv, TypeOK, AllSent, timeVars, tableVars, ledgerVars
<1>8. CASE Record(r)
  <2>1. status' \in [Keys -> {"none", "claimed", "sent", "failed"}]
    BY <1>8 DEF IInv, TypeOK, Record
  <2>2. /\ Finish(r)
        /\ UNCHANGED <<timeVars, known, at, accounts, readers, claimedAt, dry, mails, faults, changes>>
    BY <1>8 DEF Record
  <2> QED BY <2>1, <2>2 DEF IInv, TypeOK, Finish, timeVars
<1>9. CASE Crash(r)
  BY <1>9 DEF IInv, TypeOK, Crash, Finish, Fault, timeVars, tableVars, ledgerVars
<1> QED BY <1>1, <1>2, <1>3, <1>4, <1>5, <1>6, <1>7, <1>8, <1>9 DEF Notify

LEMMA QueryStep ==
    ASSUME IInv, NEW r \in Replicas, Query(r) PROVE Runs' /\ Asked' /\ Spent' /\ Once' /\ Told'
<1>1. PICK B \in Newest(Due, Limit) :
         /\ batch' = [batch EXCEPT ![r] = B]
         /\ pc' = [pc EXCEPT ![r] = IF B = {} THEN "idle" ELSE "claim"]
         /\ started' = [started EXCEPT ![r] = IF B = {} THEN 0 ELSE now]
  BY DEF Query
<1>2. B \subseteq Due /\ B \subseteq Keys
  BY DEF Newest, Due
<1>3. /\ UNCHANGED <<timeVars, tableVars, outcomes, mails>> /\ pc[r] = "idle"
  BY DEF Query
<1>4. Runs'
  BY <1>1, <1>3 DEF IInv, TypeOK, Runs, timeVars
<1>5. Asked'
  <2>1. ASSUME NEW k \in B
        PROVE  first[k[2]] <= now /\ now < first[k[2]] + MaxSlip + Lookback
    BY <1>2, <2>1, Pairs DEF IInv, TypeOK, Due, InLookback, Schedule, Times
  <2> QED BY <1>1, <1>2, <1>3, <2>1 DEF IInv, TypeOK, Asked, timeVars
<1>6. \A q \in Replicas, k \in Keys : Sends(q, k)' => Sends(q, k)
  BY <1>1, <1>3 DEF IInv, TypeOK, Sends
<1> QED BY <1>3, <1>4, <1>5, <1>6 DEF IInv, Spent, Once, Told, timeVars, tableVars, ledgerVars

LEMMA ClaimStep ==
    ASSUME IInv, NEW r \in Replicas, Claim(r) PROVE Runs' /\ Asked' /\ Spent' /\ Once' /\ Told'
<1> DEFINE won == {k \in batch[r] : status[k] = "none"}
<1>1. /\ pc[r] = "claim" /\ \A k \in batch[r] : k[1] \in accounts
      /\ Claimed(won) /\ Rehearsed(r, won)
      /\ UNCHANGED <<timeVars, accounts, started, mails>>
  BY DEF Claim
<1>2. \A k \in won : k \in Keys /\ mails[k] = 0 /\ \A q \in Replicas : ~Sends(q, k)
  BY <1>1, Fresh
<1>3. \A k \in won : first[k[2]] <= now
  BY <1>1, <1>2, Pairs DEF IInv, TypeOK, Runs, Asked
<1> HIDE DEF won
<1>4. Runs'
  BY <1>1 DEF IInv, TypeOK, Runs, Rehearsed, timeVars
<1>5. Asked'
  BY <1>1 DEF IInv, TypeOK, Asked, Rehearsed, timeVars
<1>6. \A k \in Keys : /\ Sends(r, k)' => k \in won
                      /\ \A q \in Replicas \ {r} : Sends(q, k)' <=> Sends(q, k)
  BY <1>1 DEF IInv, TypeOK, Rehearsed, Sends
<1>7. Once'
  BY <1>1, <1>2, <1>6 DEF IInv, Once
<1>8. Spent'
  <2> SUFFICES ASSUME NEW k \in Keys, (mails[k] > 0 \/ (\E q \in Replicas : Sends(q, k)))'
               PROVE  /\ first[k[2]] <= claimedAt'[k]
                      /\ status'[k] = "none" => k[1] \notin accounts \/ claimedAt'[k] + LedgerKeep < now
    BY <1>1 DEF Spent, timeVars
  <2>1. CASE k \in won
    BY <1>1, <1>3, <2>1 DEF Claimed
  <2>2. CASE k \notin won
    <3>1. status'[k] = status[k] /\ claimedAt'[k] = claimedAt[k]
      BY <1>1, <2>2 DEF Claimed
    <3>2. mails[k] > 0 \/ \E q \in Replicas : Sends(q, k)
      BY <1>1, <1>6, <2>2
    <3> QED BY <3>1, <3>2 DEF IInv, Spent
  <2> QED BY <2>1, <2>2
<1>9. Told'
  BY <1>1 DEF IInv, TypeOK, Told, Claimed, Rehearsed
<1> QED BY <1>4, <1>5, <1>7, <1>8, <1>9

\* A run that ends leaves its rows as they are.
LEMMA FinishStep ==
    ASSUME IInv, NEW r \in Replicas, Finish(r), UNCHANGED <<timeVars, mails>>
    PROVE  /\ Runs' /\ Asked' /\ Once'
           /\ \A q \in Replicas, k \in Keys : Sends(q, k)' => Sends(q, k)
           /\ \A q \in Replicas, k \in Keys : <<k, TRUE>> \in outcomes'[q] => mails[k] = 1
<1>1. /\ Runs' /\ Asked'
      /\ \A q \in Replicas, k \in Keys : <<k, TRUE>> \in outcomes'[q] => mails[k] = 1
  BY DEF IInv, TypeOK, Runs, Asked, Told, Finish, timeVars
<1>2. \A q \in Replicas, k \in Keys : Sends(q, k)' => Sends(q, k)
  BY DEF IInv, TypeOK, Sends, Finish
<1> QED BY <1>1, <1>2 DEF IInv, Once

LEMMA ClaimErrorStep ==
    ASSUME IInv, NEW r \in Replicas, ClaimError(r)
    PROVE  Runs' /\ Asked' /\ Spent' /\ Once' /\ Told'
<1>1. PICK W \in {{}, {k \in batch[r] : status[k] = "none"}} : Claimed(W)
  BY DEF ClaimError
<1>2. /\ pc[r] = "claim" /\ \A k \in batch[r] : k[1] \in accounts
      /\ Finish(r) /\ UNCHANGED <<timeVars, accounts, mails>>
  BY DEF ClaimError
<1>3. \A k \in W : mails[k] = 0 /\ \A q \in Replicas : ~Sends(q, k)
  BY <1>1, <1>2, Fresh
<1>4. \A q \in Replicas, k \in Keys : Sends(q, k)' => Sends(q, k)
  BY <1>2, FinishStep
<1>5. Spent'
  <2> SUFFICES ASSUME NEW k \in Keys, (mails[k] > 0 \/ (\E q \in Replicas : Sends(q, k)))'
               PROVE  /\ first[k[2]] <= claimedAt'[k]
                      /\ status'[k] = "none" => k[1] \notin accounts \/ claimedAt'[k] + LedgerKeep < now
    BY <1>2 DEF Spent, timeVars
  <2>1. mails[k] > 0 \/ \E q \in Replicas : Sends(q, k)
    BY <1>2, <1>4
  <2>2. k \notin W
    BY <1>3, <2>1
  <2>3. status'[k] = status[k] /\ claimedAt'[k] = claimedAt[k]
    BY <1>1, <2>2 DEF Claimed
  <2> QED BY <2>1, <2>3 DEF IInv, Spent
<1>6. Told'
  BY <1>1, <1>2, FinishStep DEF IInv, Told, Claimed
<1> QED BY <1>2, <1>5, <1>6, FinishStep

\* A message leaves, or may have left, and its key leaves the batch with it.
LEMMA SendStep ==
    ASSUME IInv, NEW r \in Replicas, NEW l \in Keys, Send(r, l) \/ SendFails(r, l)
    PROVE  Runs' /\ Asked' /\ Spent' /\ Once' /\ Told'
<1>1. /\ Sends(r, l) /\ batch' = [batch EXCEPT ![r] = @ \ {l}]
      /\ mails' \in {mails, [mails EXCEPT ![l] = @ + 1]}
      /\ UNCHANGED <<timeVars, tableVars, pc, started>>
  BY DEF Send, SendFails, Sends
<1>2. /\ Send(r, l) => mails' = [mails EXCEPT ![l] = @ + 1]
      /\ \E ok \in BOOLEAN : /\ outcomes' = [outcomes EXCEPT ![r] = @ \cup {<<l, ok>>}]
                             /\ ok => Send(r, l)
  BY DEF Send, SendFails
<1>3. mails[l] = 0
  BY <1>1 DEF IInv, Once
<1>4. Runs' /\ Asked'
  BY <1>1 DEF IInv, TypeOK, Runs, Asked, timeVars, tableVars
<1>5. \A k \in Keys \ {l} : mails'[k] = mails[k] /\ \A q \in Replicas : Sends(q, k)' <=> Sends(q, k)
  BY <1>1 DEF IInv, TypeOK, Sends
<1>6. mails'[l] <= 1 /\ \A q \in Replicas : ~Sends(q, l)'
  <2>1. mails'[l] <= 1
    BY <1>1, <1>3 DEF IInv, TypeOK
  <2>2. \A q \in Replicas : Sends(q, l) => q = r
    BY <1>1 DEF IInv, Once
  <2> QED BY <1>1, <2>1, <2>2 DEF IInv, TypeOK, Sends
<1>7. Once'
  BY <1>5, <1>6 DEF IInv, Once
<1>8. Spent'
  BY <1>1, <1>5 DEF IInv, Spent, timeVars, tableVars, ledgerVars
<1>9. Told'
  <2>1. \A k \in Keys : mails[k] = 1 => mails'[k] = 1
    BY <1>3, <1>5
  <2>2. PICK ok \in BOOLEAN : /\ outcomes' = [outcomes EXCEPT ![r] = @ \cup {<<l, ok>>}]
                              /\ ok => Send(r, l)
    BY <1>2
  <2>3. ok = TRUE => mails'[l] = 1
    BY <1>2, <1>3, <2>2 DEF IInv, TypeOK
  <2>4. ASSUME NEW q \in Replicas, NEW k \in Keys, <<k, TRUE>> \in outcomes'[q]
        PROVE  mails'[k] = 1
    <3>1. <<k, TRUE>> \in outcomes[q] \/ <<k, TRUE>> = <<l, ok>>
      BY <2>2, <2>4 DEF IInv, TypeOK
    <3>2. <<k, TRUE>> = <<l, ok>> => k = l /\ ok = TRUE
      OBVIOUS
    <3>3. CASE k = l /\ ok = TRUE
      BY <2>3, <3>3
    <3>4. CASE <<k, TRUE>> \in outcomes[q]
      <4>1. mails[k] = 1
        BY <3>4 DEF IInv, Told
      <4> QED BY <2>1, <4>1
    <3> QED BY <3>1, <3>2, <3>3, <3>4
  <2> QED BY <1>1, <2>1, <2>4 DEF IInv, Told, tableVars, ledgerVars
<1> QED BY <1>4, <1>7, <1>8, <1>9

LEMMA EndStep ==
    ASSUME IInv, NEW r \in Replicas, SessionDies(r) \/ AllSent(r)
    PROVE  Runs' /\ Asked' /\ Spent' /\ Once' /\ Told'
<1>1. /\ pc[r] = "send" /\ pc' = [pc EXCEPT ![r] = "record"]
      /\ batch' \in {batch, [batch EXCEPT ![r] = {}]}
      /\ UNCHANGED <<timeVars, tableVars, started, mails>>
      /\ \/ outcomes' = outcomes
         \/ outcomes' = [outcomes EXCEPT ![r] = @ \cup (batch[r] \X {FALSE})]
  BY DEF SessionDies, AllSent
<1>2. Runs' /\ Asked'
  BY <1>1 DEF IInv, TypeOK, Runs, Asked, timeVars, tableVars
<1>3. \A q \in Replicas, k \in Keys : Sends(q, k)' => Sends(q, k)
  BY <1>1 DEF IInv, TypeOK, Sends
<1>4. \A q \in Replicas, k \in Keys : <<k, TRUE>> \in outcomes'[q] => <<k, TRUE>> \in outcomes[q]
  <2>1. \A k : <<k, TRUE>> \notin batch[r] \X {FALSE}
    OBVIOUS
  <2> DEFINE untold == batch[r] \X {FALSE}
  <2> HIDE DEF untold
  <2>2. outcomes' = outcomes \/ outcomes' = [outcomes EXCEPT ![r] = @ \cup untold]
    BY <1>1 DEF untold
  <2>3. \A k : <<k, TRUE>> \notin untold
    BY <2>1 DEF untold
  <2> QED BY <2>2, <2>3 DEF IInv, TypeOK
<1>5. Spent' /\ Once'
  BY <1>1, <1>3 DEF IInv, Spent, Once, timeVars, tableVars, ledgerVars
<1>6. Told'
  BY <1>1, <1>4 DEF IInv, Told, tableVars, ledgerVars
<1> QED BY <1>2, <1>5, <1>6

LEMMA RecordStep ==
    ASSUME IInv, NEW r \in Replicas, Record(r) PROVE Runs' /\ Asked' /\ Spent' /\ Once' /\ Told'
<1>1. Finish(r) /\ UNCHANGED <<timeVars, accounts, claimedAt, mails>>
  BY DEF Record
<1>2. \A k \in Keys : /\ status'[k] = "none" <=> status[k] = "none"
                      /\ status'[k] = "sent" => status[k] = "sent" \/ <<k, TRUE>> \in outcomes[r]
  BY DEF Record, IInv, TypeOK
<1>3. Spent'
  BY <1>1, <1>2, FinishStep DEF IInv, Spent, timeVars
<1>4. Told'
  BY <1>1, <1>2, FinishStep DEF IInv, Told
<1> QED BY <1>1, <1>3, <1>4, FinishStep

LEMMA StopStep ==
    ASSUME IInv, NEW r \in Replicas, ClaimRejected(r) \/ Crash(r)
    PROVE  Runs' /\ Asked' /\ Spent' /\ Once' /\ Told'
<1>1. Finish(r) /\ UNCHANGED <<timeVars, tableVars, mails>>
  BY DEF ClaimRejected, Crash
<1>2. Spent' /\ Told'
  BY <1>1, FinishStep DEF IInv, Spent, Told, timeVars, tableVars, ledgerVars
<1> QED BY <1>1, <1>2, FinishStep

LEMMA NotifyStep ==
    ASSUME IInv, NEW r \in Replicas, Notify(r) PROVE IInv'
<1>1. UNCHANGED <<first, truth, known, at>>
  BY DEF Notify, Query, Claim, ClaimRejected, ClaimError, Send, SendFails, SessionDies, AllSent,
         Record, Crash, timeVars, tableVars
<1>2. Schedule'
  BY <1>1 DEF IInv, Schedule
<1>3. Runs' /\ Asked' /\ Spent' /\ Once' /\ Told'
  BY QueryStep, ClaimStep, ClaimErrorStep, SendStep, EndStep, RecordStep, StopStep DEF Notify
<1> QED BY <1>2, <1>3, TypeNotify DEF IInv

-----------------------------------------------------------------------------
(* The other jobs, the users, AniList and the clock.                       *)

LEMMA TableStep ==
    ASSUME IInv, Refresh \/ Purge \/ (\E u \in Users : Follow(u) \/ DeleteAccount(u))
    PROVE  IInv'
<1>1. UNCHANGED <<now, truth, first, runVars, mails, dry>> /\ UNCHANGED claimedAt
  BY DEF Refresh, Purge, Follow, DeleteAccount, timeVars, ledgerVars
<1>2. TypeOK'
  <2>1. CASE Refresh
    BY <2>1 DEF IInv, TypeOK, Refresh, timeVars, ledgerVars, runVars
  <2>2. CASE Purge
    BY <2>2 DEF IInv, TypeOK, Purge, timeVars, runVars
  <2>3. CASE \E u \in Users : Follow(u)
    BY <2>3 DEF IInv, TypeOK, Follow, Change, timeVars, ledgerVars, runVars
  <2>4. CASE \E u \in Users : DeleteAccount(u)
    BY <2>4 DEF IInv, TypeOK, DeleteAccount, Change, timeVars, runVars
  <2> QED BY <2>1, <2>2, <2>3, <2>4
<1>3. Schedule'
  <2>1. CASE Refresh
    BY <1>1, <2>1 DEF IInv, TypeOK, Schedule, Refresh
  <2>2. CASE Purge \/ \E u \in Users : Follow(u) \/ DeleteAccount(u)
    BY <1>1, <2>2 DEF IInv, Schedule, Purge, Follow, DeleteAccount
  <2> QED BY <2>1, <2>2
<1>4. Runs' /\ Asked' /\ Once'
  BY <1>1 DEF IInv, Runs, Asked, Once, Sends, runVars
<1>5. /\ accounts' \subseteq accounts
      /\ \A k \in Keys : \/ status'[k] = status[k]
                         \/ /\ status'[k] = "none"
                            /\ k[1] \notin accounts' \/ claimedAt[k] + LedgerKeep < now
  BY DEF IInv, TypeOK, Refresh, Purge, Follow, DeleteAccount, ledgerVars
<1>6. Spent'
  BY <1>1, <1>5 DEF IInv, Spent, Sends, runVars
<1>7. Told'
  BY <1>1, <1>5 DEF IInv, Told, runVars
<1> QED BY <1>2, <1>3, <1>4, <1>6, <1>7 DEF IInv

LEMMA TimeStep ==
    ASSUME IInv, Tick \/ \E e \in Episodes : Slip(e) PROVE IInv'
<1>1. CASE Tick
  <2>1. /\ now' = now + 1 /\ now \in Nat /\ now < MaxTime
        /\ \A r \in Replicas : pc[r] # "idle" => now < started[r] + MaxRun
        /\ UNCHANGED <<truth, first, tableVars, dry, runVars, mails, faults, changes>>
    BY <1>1 DEF IInv, TypeOK, Tick
  <2>2. TypeOK'
    BY <2>1 DEF IInv, TypeOK, tableVars, ledgerVars, runVars
  <2>3. Schedule' /\ Asked' /\ Once' /\ Told'
    BY <2>1 DEF IInv, Schedule, Asked, Once, Told, Sends, tableVars, ledgerVars, runVars
  <2>4. Runs'
    BY <2>1 DEF IInv, TypeOK, Runs, runVars
  <2>5. Spent'
    <3>1. \A k \in Keys : claimedAt[k] \in Nat
      BY DEF IInv, TypeOK
    <3> QED BY <2>1, <3>1 DEF IInv, Spent, Sends, tableVars, ledgerVars, runVars
  <2> QED BY <2>2, <2>3, <2>4, <2>5 DEF IInv
<1>2. CASE \E e \in Episodes : Slip(e)
  <2>1. /\ UNCHANGED <<now, first, tableVars, dry, runVars, mails, faults, changes>>
        /\ \E e \in Episodes : /\ truth[e] < first[e] + MaxSlip
                               /\ truth' = [truth EXCEPT ![e] = @ + 1]
    BY <1>2 DEF Slip
  <2>2. TypeOK' /\ Schedule'
    BY <2>1 DEF IInv, TypeOK, Schedule, Times, tableVars, ledgerVars, runVars
  <2>3. Runs' /\ Asked' /\ Spent' /\ Once' /\ Told'
    BY <2>1 DEF IInv, Runs, Asked, Spent, Once, Told, Sends, tableVars, ledgerVars, runVars
  <2> QED BY <2>2, <2>3 DEF IInv
<1> QED BY <1>1, <1>2

LEMMA StepInv == IInv /\ [Next]_vars => IInv'
<1> SUFFICES ASSUME IInv, [Next]_vars PROVE IInv'
  OBVIOUS
<1>1. CASE UNCHANGED vars
  BY <1>1 DEF IInv, TypeOK, Schedule, Runs, Asked, Spent, Once, Told, Sends, vars, timeVars,
              tableVars, ledgerVars, runVars
<1> QED BY <1>1, NotifyStep, TableStep, TimeStep DEF Next

-----------------------------------------------------------------------------
LEMMA Invariant == Spec => []IInv
  BY InitInv, StepInv, PTL DEF Spec

\* The tables, the runs and the mails keep their types (notifier.py).
THEOREM TypesKept == Spec => []TypeOK
<1>1. IInv => TypeOK
  BY DEF IInv
<1> QED BY <1>1, Invariant, PTL

\* One mail per user and episode, whatever the replicas, crashes, moves and purges do
\* (run_notifier, purge_old).
THEOREM OneMailEach == Spec => []AtMostOnce
<1>1. IInv => AtMostOnce
  BY DEF IInv, Once, AtMostOnce
<1> QED BY <1>1, Invariant, PTL

\* A row says sent only when the mail left (record_outcomes).
THEOREM RecordedTruly == Spec => []SentWasMailed
<1>1. IInv => SentWasMailed
  BY DEF IInv, Told, SentWasMailed
<1> QED BY <1>1, Invariant, PTL
=============================================================================
