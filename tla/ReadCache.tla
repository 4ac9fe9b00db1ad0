------------------------------ MODULE ReadCache ------------------------------
(***************************************************************************)
(* The read cache CacheStore keeps in front of the master switch and of    *)
(* the target list (cache_engine/db.py), on one replica.                   *)
(*                                                                         *)
(* The value and the time it was read live in two class attributes.  The   *)
(* store runs in a thread pool, so threads interleave between any two of   *)
(* its reads and writes; a value is a version of the row, counted by the   *)
(* writes of all the replicas.                                             *)
(***************************************************************************)
EXTENDS Integers

CONSTANTS
    Readers,    \* threads in get_enabled or enabled_targets
    Writers,    \* threads in set_enabled, add_target, update_target, delete_target
    None,       \* no cached value
    TTL,        \* _READ_TTL
    MaxCall,    \* how long one call takes at most
    MaxTime,    \* bound: the clock
    MaxWrite,   \* bound: writes of any replica
    MaxError    \* bound: failed queries

NoneAssumption == None \notin Nat
TimesAssumption == {TTL, MaxCall, MaxTime, MaxWrite, MaxError} \subseteq Nat

VARIABLES
    now,      \* time.monotonic
    db,       \* the version in the database
    until,    \* history: version -> when it was replaced
    value,    \* _enabled_cache or _targets_cache
    stamp,    \* _enabled_cache_at or _targets_cache_at
    pc,       \* thread -> what it does next
    begun,    \* thread -> `now` as it read it
    got,      \* thread -> the value it holds
    errors    \* counter for the bound

threadVars == <<pc, begun, got>>
vars == <<now, db, until, value, stamp, threadVars, errors>>

Threads  == Readers \cup Writers
Versions == 0..MaxWrite
Never    == MaxTime + 1

TypeOK ==
    /\ now \in 0..MaxTime
    /\ db \in Versions
    /\ until \in [Versions -> 0..Never]
    /\ value \in Versions \cup {None}
    /\ stamp \in 0..MaxTime
    /\ pc \in [Threads -> {"idle", "value", "stamp", "query", "put", "putStamp", "bump"}]
    /\ begun \in [Threads -> 0..MaxTime]
    /\ got \in [Threads -> Versions \cup {None}]
    /\ errors \in 0..MaxError

Init ==
    /\ now = 0
    /\ db = 0 /\ until = [v \in Versions |-> Never]
    /\ value = None /\ stamp = 0
    /\ pc = [t \in Threads |-> "idle"]
    /\ begun = [t \in Threads |-> 0]
    /\ got = [t \in Threads |-> None]
    /\ errors = 0

-----------------------------------------------------------------------------
(* A read.                                                                 *)

Goto(t, from, to) == pc[t] = from /\ pc' = [pc EXCEPT ![t] = to]

\* now = time.monotonic()
Begin(t) ==
    /\ t \in Readers
    /\ Goto(t, "idle", "value")
    /\ begun' = [begun EXCEPT ![t] = now]
    /\ UNCHANGED <<now, db, until, value, stamp, got, errors>>

\* cached = CacheStore._enabled_cache
LoadValue(t) ==
    /\ Goto(t, "value", IF value = None THEN "query" ELSE "stamp")
    /\ got' = [got EXCEPT ![t] = value]
    /\ UNCHANGED <<now, db, until, value, stamp, begun, errors>>

\* The call returns; the thread's locals are gone.
Return(t) ==
    /\ pc' = [pc EXCEPT ![t] = "idle"]
    /\ got' = [got EXCEPT ![t] = None]
    /\ begun' = [begun EXCEPT ![t] = 0]

\* The stamp is young enough: the value loaded before it is returned.
Hit(t) ==
    /\ pc[t] = "stamp"
    /\ begun[t] < stamp + TTL
    /\ Return(t)
    /\ UNCHANGED <<now, db, until, value, stamp, errors>>

Expired(t) ==
    /\ Goto(t, "stamp", "query")
    /\ begun[t] >= stamp + TTL
    /\ UNCHANGED <<now, db, until, value, stamp, begun, got, errors>>

Query(t) ==
    /\ Goto(t, "query", "put")
    /\ got' = [got EXCEPT ![t] = db]
    /\ UNCHANGED <<now, db, until, value, stamp, begun, errors>>

\* Mutant: the old value is given another TTL.
QueryErrorRenews(t) ==
    /\ pc[t] = "query"
    /\ errors < MaxError /\ errors' = errors + 1
    /\ stamp' = begun[t]
    /\ Return(t)
    /\ UNCHANGED <<now, db, until, value>>

\* The query raises: nothing is stored, and the call returns what it had loaded
\* (enabled_targets) or FALSE (get_enabled).
QueryError(t) ==
    /\ pc[t] = "query"
    /\ errors < MaxError /\ errors' = errors + 1
    /\ Return(t)
    /\ UNCHANGED <<now, db, until, value, stamp>>

\* CacheStore._enabled_cache = enabled
PutValue(t) ==
    /\ Goto(t, "put", "putStamp")
    /\ value' = got[t]
    /\ UNCHANGED <<now, db, until, stamp, begun, got, errors>>

\* CacheStore._enabled_cache_at = now, the time from before the query.
PutStamp(t) ==
    /\ pc[t] = "putStamp"
    /\ stamp' = begun[t]
    /\ Return(t)
    /\ UNCHANGED <<now, db, until, value, errors>>

-----------------------------------------------------------------------------
(* A write, and the clock.                                                 *)

NewVersion ==
    /\ db < MaxWrite
    /\ db' = db + 1
    /\ until' = [until EXCEPT ![db] = now]

\* The write of another replica.
WriteElsewhere ==
    /\ NewVersion
    /\ UNCHANGED <<now, value, stamp, threadVars, errors>>

\* set_enabled and the target writes: the transaction commits ...
Commit(t) ==
    /\ t \in Writers
    /\ NewVersion
    /\ Goto(t, "idle", "bump")
    /\ got' = [got EXCEPT ![t] = db']
    /\ begun' = [begun EXCEPT ![t] = now]
    /\ UNCHANGED <<now, value, stamp, errors>>

\* Mutant: _bump drops the stamp and leaves the value.
BumpDropsStamp(t) ==
    /\ Goto(t, "bump", "idle")
    /\ stamp' = None
    /\ got' = [got EXCEPT ![t] = None]
    /\ begun' = [begun EXCEPT ![t] = 0]
    /\ UNCHANGED <<now, db, until, value, errors>>

\* ... and _bump drops the value; the stamp stays.
Bump(t) ==
    /\ Goto(t, "bump", "idle")
    /\ value' = None
    /\ got' = [got EXCEPT ![t] = None]
    /\ begun' = [begun EXCEPT ![t] = 0]
    /\ UNCHANGED <<now, db, until, stamp, errors>>

\* No call takes longer than MaxCall.
Tick ==
    /\ now < MaxTime
    /\ \A t \in Threads : pc[t] # "idle" => now < begun[t] + MaxCall
    /\ now' = now + 1
    /\ UNCHANGED <<db, until, value, stamp, threadVars, errors>>

Read(t) ==
    \/ Begin(t) \/ LoadValue(t) \/ Hit(t) \/ Expired(t)
    \/ Query(t) \/ QueryError(t) \/ PutValue(t) \/ PutStamp(t)

Next ==
    \/ \E t \in Threads : Read(t) \/ Commit(t) \/ Bump(t)
    \/ WriteElsewhere \/ Tick

Spec == Init /\ [][Next]_vars

-----------------------------------------------------------------------------
(* Properties.                                                             *)

\* v was in the database at time s or later.
CurrentSince(v, s) == until[v] >= s

\* "Other replicas converge within the TTL": what the two attributes hold together is
\* served no longer than that, give or take the length of a call, however threads
\* interleave between the store of the one and of the other, and whatever queries fail.
StoredIsRecent ==
    value # None /\ now < stamp + TTL => CurrentSince(value, now - TTL - MaxCall)

=============================================================================
