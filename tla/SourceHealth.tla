----------------------------- MODULE SourceHealth -----------------------------
(***************************************************************************)
(* The dashboard's view of the sources (playback_engine/health.py) and     *)
(* what a probe learns of one through pipeline.run_single_scraper.         *)
(*                                                                         *)
(* A sweep probes every source at once and is kept for _TTL. Loads of the  *)
(* dashboard share it; a forced one sweeps whatever is kept. Sweeps of a   *)
(* process run one at a time.                                              *)
(***************************************************************************)
EXTENDS Integers, FiniteSets

CONSTANTS
    Loads,     \* loads of the dashboard (bound: at once)
    Sources,   \* scrape sources; the library sources are only counted
    TTL,       \* _TTL
    LastTick,  \* bound on the clock
    MaxSweeps  \* bound on the sweeps

VARIABLES
    now,      \* time.monotonic
    kept,     \* _cache: when the sweep ended (-1: none kept), and what it says of each source
    holder,   \* the loads that hold _lock
    probing,  \* sources that the running sweep has not heard from
    hears,    \* what it heard of the others
    load,     \* load -> where it is, whether it is forced
    sweeps    \* sweeps begun so far

vars == <<now, kept, holder, probing, hears, load, sweeps>>

\* What a source does when it is asked for the canary title
Replies == {"embeds", "nothing", "raises"}
Idle == [at |-> "idle", forced |-> FALSE]
Heard == [Sources -> {"none", "ok", "empty"} \X (Replies \cup {"none"})]

TypeOK ==
    /\ now \in 0..LastTick /\ sweeps \in 0..MaxSweeps
    /\ kept.at \in -1..now /\ kept.says \in Heard /\ hears \in Heard
    /\ holder \subseteq Loads /\ probing \subseteq Sources
    /\ \A d \in Loads : load[d].at \in {"idle", "lock", "sweep"} /\ load[d].forced \in BOOLEAN

Unheard == [s \in Sources |-> <<"none", "none">>]

Init ==
    /\ now = 0 /\ kept = [at |-> -1, says |-> Unheard]
    /\ holder = {} /\ probing = {} /\ hears = Unheard /\ sweeps = 0
    /\ load = [d \in Loads |-> Idle]

-----------------------------------------------------------------------------
\* _cached
Cached == kept.at # -1 /\ now - kept.at < TTL

\* source_health: the load is answered at once, or waits for the lock, ...
Ask(d) ==
    /\ load[d].at = "idle"
    /\ \E forced \in BOOLEAN :
          load' = IF ~forced /\ Cached THEN load ELSE [load EXCEPT ![d] = [at |-> "lock", forced |-> forced]]
    /\ UNCHANGED <<now, kept, holder, probing, hears, sweeps>>

\* ... and with it is answered with what another load has swept meanwhile, or sweeps.
Locks(d, hit) ==
    /\ load[d].at = "lock" /\ holder = {}
    /\ IF hit
       THEN /\ load' = [load EXCEPT ![d] = Idle]
            /\ UNCHANGED <<holder, probing, hears, sweeps>>
       ELSE /\ sweeps < MaxSweeps /\ sweeps' = sweeps + 1
            /\ holder' = {d} /\ load' = [load EXCEPT ![d].at = "sweep"]
            /\ probing' = Sources /\ hears' = Unheard
    /\ UNCHANGED <<now, kept>>

\* Mutant: what is kept is not looked at again once the lock is there.
LockAtOnce(d) == Locks(d, FALSE)

Lock(d) == Locks(d, ~load[d].forced /\ Cached)

\* run_single_scraper answers an exception of the scraper with no embeds.
Found(reply) == IF reply = "embeds" THEN 1 ELSE 0

\* _probe_scrape_source
Verdict(reply) == IF Found(reply) > 0 THEN "ok" ELSE "empty"

Probe(s) ==
    /\ s \in probing
    /\ probing' = probing \ {s}
    /\ \E reply \in Replies : hears' = [hears EXCEPT ![s] = <<Verdict(reply), reply>>]
    /\ UNCHANGED <<now, kept, holder, load, sweeps>>

Leaves(d) ==
    /\ load[d].at = "sweep"
    /\ load' = [load EXCEPT ![d] = Idle] /\ holder' = holder \ {d}
    /\ probing' = {} /\ hears' = Unheard
    /\ UNCHANGED <<now, sweeps>>

Swept(d) == Leaves(d) /\ probing = {} /\ kept' = [at |-> now, says |-> hears]

\* The sweep raises (the database of the library sources), or the load is cancelled: nothing is kept.
SweepFails(d) == Leaves(d) /\ UNCHANGED kept

Tick ==
    /\ now < LastTick
    /\ now' = now + 1
    /\ UNCHANGED <<kept, holder, probing, hears, load, sweeps>>

-----------------------------------------------------------------------------
LoadNext(d) == Ask(d) \/ Lock(d) \/ Swept(d) \/ SweepFails(d)
Next == Tick \/ (\E d \in Loads : LoadNext(d)) \/ (\E s \in Sources : Probe(s))

Spec == Init /\ [][Next]_vars

-----------------------------------------------------------------------------
(* Properties *)

\* The lock collapses a herd of loads into one sweep: sweeps land a TTL apart, but for the forced ones.
SweepsAreApart ==
    [][\A d \in Loads : (kept' # kept /\ d \in holder /\ ~load[d].forced)
          => kept.at = -1 \/ kept'.at - kept.at >= TTL]_vars

\* health.py, _probe_scrape_source: "Reachable, but found no embeds for the canary title"
EmptyIsReachable == \A s \in Sources : kept.says[s][1] = "empty" => kept.says[s][2] = "nothing"
=============================================================================
