------------------------------ MODULE Supporters ------------------------------
(***************************************************************************)
(* The supporters page (supporters_engine/db.py, service.py, routes.py).   *)
(*                                                                         *)
(* Ko-fi posts every payment, again when no answer reaches it. The ledger  *)
(* keeps a payment by its transaction id; the list of supporters is        *)
(* aggregated on read and held by the replica for a while. Requests run    *)
(* as threads of the replica; what other replicas record reaches this one  *)
(* only through the ledger.                                                *)
(***************************************************************************)
EXTENDS FiniteSetsExt, Integers

CONSTANTS
    Payments,  \* records [id, email, name, at, sub, public]; 0: Ko-fi sent none
    Viewers,   \* threads that read the list
    TTL,       \* kofi_list_cache_ttl
    Window,    \* kofi_active_window_days
    LastTick   \* bound on the clock

VARIABLES
    ledger,      \* table kofi_transactions: transaction id -> payment
    posting,     \* payments recorded here whose thread has yet to invalidate
    announced,   \* payments this replica has recorded and answered for
    rows,        \* _rows: the list as aggregated, NoList, and _fetched_at
    generation,  \* _generation
    viewer,      \* viewer -> what it is doing, the generation it noted and the list it has
    tick         \* the clock; a payment's day is on the same clock

vars == <<ledger, posting, announced, rows, generation, viewer, tick>>

NoList == [key \in {} |-> 0]
Nothing == [list |-> NoList, at |-> 0, held |-> FALSE]

\* _supporter_key; a transaction without an id is filed under its time.
Id(p)  == IF p.id # 0 THEN <<"id", p.id>> ELSE <<"ts", p.at>>
Key(p) == CASE p.email # 0 -> <<"email", p.email>>
            [] p.email = 0 /\ p.name # 0 -> <<"name", p.name>>
            [] OTHER -> Id(p)

\* list_supporters, over the public payments
Aggregated ==
    LET public == {i \in DOMAIN ledger : ledger[i].public}
        Of(key) == {i \in public : Key(ledger[i]) = key}
    IN  [key \in {Key(ledger[i]) : i \in public} |->
            [last  |-> Max({ledger[i].at : i \in Of(key)}),
             sub   |-> \E i \in Of(key) : ledger[i].sub,
             count |-> Cardinality(Of(key))]]

\* _is_active: a subscriber lapses; an unknown time counts as active.
Active(list) == {key \in DOMAIN list :
    list[key].sub => list[key].last = 0 \/ list[key].last >= tick - Window}

TypeOK ==
    /\ \A i \in DOMAIN ledger : ledger[i] \in Payments /\ Id(ledger[i]) = i
    /\ posting \subseteq announced /\ announced \subseteq Payments
    /\ rows.held \in BOOLEAN /\ rows.at \in 0..tick
    /\ generation \in 0..Cardinality(Payments)
    /\ \A v \in Viewers : viewer[v].at \in {"idle", "query", "store"} /\ viewer[v].generation \in 0..generation
    /\ tick \in 0..LastTick

Init ==
    /\ ledger = [i \in {} |-> 0] /\ posting = {} /\ announced = {}
    /\ rows = Nothing /\ generation = 0
    /\ viewer = [v \in Viewers |-> [at |-> "idle", generation |-> 0, list |-> NoList]]
    /\ tick = 0

-----------------------------------------------------------------------------
\* record_transaction on this replica or another; a payment whose id is there is a retry.
Record(p, here) ==
    /\ p.at <= tick
    /\ LET known == Id(p) \in DOMAIN ledger
       IN  /\ ledger' = IF known THEN ledger ELSE [i \in DOMAIN ledger \cup {Id(p)} |-> IF i = Id(p) THEN p ELSE ledger[i]]
           /\ posting' = IF here /\ ~known THEN posting \cup {p} ELSE posting
           /\ announced' = IF here /\ ~known THEN announced \cup {p} ELSE announced
    /\ UNCHANGED <<rows, generation, viewer, tick>>

\* record_payment after an insert, with _invalidate
Invalidate(p) ==
    /\ p \in posting
    /\ posting' = posting \ {p}
    /\ generation' = generation + 1
    /\ rows' = Nothing
    /\ UNCHANGED <<ledger, announced, viewer, tick>>

\* _cached_rows of list_public or stats: answered from the list held while it is fresh
Look(v) ==
    /\ viewer[v].at = "idle" /\ ~(rows.held /\ tick - rows.at < TTL)
    /\ viewer' = [viewer EXCEPT ![v] = [@ EXCEPT !.at = "query", !.generation = generation]]
    /\ UNCHANGED <<ledger, posting, announced, rows, generation, tick>>

Query(v) ==
    /\ viewer[v].at = "query"
    /\ viewer' = [viewer EXCEPT ![v].at = "store", ![v].list = Aggregated]
    /\ UNCHANGED <<ledger, posting, announced, rows, generation, tick>>

\* Mutant: what was read is stored whatever has been paid since.
StoreAnyway(v) ==
    /\ viewer[v].at = "store"
    /\ rows' = [list |-> viewer[v].list, at |-> tick, held |-> TRUE]
    /\ viewer' = [viewer EXCEPT ![v] = [at |-> "idle", generation |-> 0, list |-> NoList]]
    /\ UNCHANGED <<ledger, posting, announced, generation, tick>>

Store(v) ==
    /\ viewer[v].at = "store"
    /\ rows' = IF viewer[v].generation = generation
               THEN [list |-> viewer[v].list, at |-> tick, held |-> TRUE] ELSE rows
    /\ viewer' = [viewer EXCEPT ![v] = [at |-> "idle", generation |-> 0, list |-> NoList]]
    /\ UNCHANGED <<ledger, posting, announced, generation, tick>>

Tick ==
    /\ tick < LastTick
    /\ tick' = tick + 1
    /\ UNCHANGED <<ledger, posting, announced, rows, generation, viewer>>

Next ==
    \/ \E p \in Payments : Record(p, TRUE) \/ Record(p, FALSE) \/ Invalidate(p)
    \/ \E v \in Viewers : Look(v) \/ Query(v) \/ Store(v)
    \/ Tick

Spec == Init /\ [][Next]_vars

-----------------------------------------------------------------------------
(* Properties *)

\* Once a payment has been answered for, whoever paid it is in every list this replica serves from
\* memory, and counts as active if the payment is recent: a list read before it is never put back.
PayersAreListed ==
    rows.held => \A p \in announced \ posting :
        p.public => /\ Key(p) \in DOMAIN rows.list
                    /\ p.at >= tick - Window => Key(p) \in Active(rows.list)
=============================================================================
