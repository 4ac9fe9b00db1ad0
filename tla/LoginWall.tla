------------------------------ MODULE LoginWall ------------------------------
(***************************************************************************)
(* The site-wide login wall (account_engine/login_wall.py) in front of the *)
(* sessions table and the api_keys table.                                  *)
(*                                                                         *)
(* A replica remembers a credential that was good until a deadline.  A     *)
(* miss is validated by one statement in a thread, and the event loop      *)
(* serves other requests until the thread answers: logouts, revocations,   *)
(* expiries and other checks of the same credential happen in between.     *)
(* Time is the monotonic clock in steps of which TTL make one cache life.  *)
(***************************************************************************)
EXTENDS Integers, FiniteSets

CONSTANTS
    Tokens,      \* session tokens
    Keys,        \* API keys of the movie-web bridge
    Visits,      \* requests (bound: how many are under way at once)
    WallTTL,     \* life of a remembered credential
    MaxEntries,  \* entries a cache holds before it is cleared
    MaxClock,    \* bound on the clock
    None         \* no credential

Creds == Tokens \cup Keys
Paths == {"public", "content", "mw"}
Stages == {"none", "session", "sessionQuery", "sessionKnown", "apikey", "apikeyQuery",
           "apikeyKnown", "passed"}

VARIABLES
    clock,     \* the clock
    live,      \* credentials whose row is there, unexpired and unrevoked
    lastLive,  \* history: credential -> last moment its row was good
    until,     \* credential -> remembered until, 0 when it is not remembered
    visit      \* request -> what it asks for and carries, its stage, the clock when its
               \*            lookup began and what the validating statement said

vars == <<clock, live, lastLive, until, visit>>

TypeOK ==
    /\ clock \in 1..MaxClock
    /\ live \subseteq Creds
    /\ lastLive \in [Creds -> 1..MaxClock]
    /\ until \in [Creds -> 0..(MaxClock + WallTTL)]
    /\ visit \in [Visits -> [path : Paths, token : Tokens \cup {None}, key : Keys \cup {None},
                             at : Stages, stamp : 0..MaxClock, good : BOOLEAN]]

Idle == [path |-> "public", token |-> None, key |-> None, at |-> "none", stamp |-> 0,
         good |-> FALSE]

Init ==
    /\ clock = 1
    /\ live = Creds /\ lastLive = [c \in Creds |-> 1]
    /\ until = [c \in Creds |-> 0]
    /\ visit = [q \in Visits |-> Idle]

-----------------------------------------------------------------------------
\* The credential a check is about; sessions and keys have a cache each.
Cred(q) == IF visit[q].at \in {"session", "sessionQuery", "sessionKnown"}
           THEN visit[q].token ELSE visit[q].key
SameCache(c) == IF c \in Tokens THEN Tokens ELSE Keys
Remembered(c) == {d \in SameCache(c) : until[d] # 0}

\* A refused session leaves the key, and otherwise the answer is 401.
AfterRefusal(q) ==
    IF visit[q].at = "sessionKnown" /\ visit[q].key # None
    THEN [visit[q] EXCEPT !.at = "apikey", !.good = FALSE] ELSE Idle

\* LoginWallMiddleware.__call__: a public path goes straight through, and the headers of a
\* request are read only where they can matter.
Arrive(q, p, t, k) ==
    /\ visit[q].at \in {"none", "passed"}
    /\ p = "public" => t = None
    /\ p # "mw" => k = None
    /\ LET asks(stage) == [path |-> p, token |-> t, key |-> k, at |-> stage, stamp |-> 0,
                           good |-> FALSE]
       IN  visit' = [visit EXCEPT ![q] =
             CASE p = "public"                          -> asks("passed")
               [] p # "public" /\ t # None              -> asks("session")
               [] p # "public" /\ t = None /\ k # None  -> asks("apikey")
               [] OTHER                                 -> Idle]
    /\ UNCHANGED <<clock, live, lastLive, until>>

\* _ValidTokenCache.__call__ up to its await.
LookUp(q) ==
    /\ visit[q].at \in {"session", "apikey"}
    /\ visit' = [visit EXCEPT ![q].stamp = clock,
                              ![q].at = CASE until[Cred(q)] > clock -> "passed"
                                          [] until[Cred(q)] <= clock /\ @ = "session" -> "sessionQuery"
                                          [] OTHER -> "apikeyQuery"]
    /\ UNCHANGED <<clock, live, lastLive, until>>

\* validate_and_touch_session: one UPDATE in a thread; last_seen_at is left out.
ValidateSession(q) ==
    /\ visit[q].at = "sessionQuery"
    /\ visit' = [visit EXCEPT ![q].good = Cred(q) \in live, ![q].at = "sessionKnown"]
    /\ UNCHANGED <<clock, live, lastLive, until>>

\* validate_and_touch of an API key; last_used_at is left out.
ValidateKey(q) ==
    /\ visit[q].at = "apikeyQuery"
    /\ visit' = [visit EXCEPT ![q].good = Cred(q) \in live, ![q].at = "apikeyKnown"]
    /\ UNCHANGED <<clock, live, lastLive, until>>

\* A full cache is cleared before it takes an entry.
Kept(c) ==
    IF Cardinality(Remembered(c)) >= MaxEntries
    THEN [d \in Creds |-> IF d \in SameCache(c) THEN 0 ELSE until[d]] ELSE until

\* Mutant: the deadline counts from the answer of the thread.
RememberLate(q) ==
    /\ visit[q].at \in {"sessionKnown", "apikeyKnown"}
    /\ visit[q].good
    /\ until' = [Kept(Cred(q)) EXCEPT ![Cred(q)] = clock + WallTTL]
    /\ visit' = [visit EXCEPT ![q].at = "passed", ![q].good = FALSE]
    /\ UNCHANGED <<clock, live, lastLive>>

\* _ValidTokenCache.__call__ after its await, of a credential that is good.
Remember(q) ==
    /\ visit[q].at \in {"sessionKnown", "apikeyKnown"}
    /\ visit[q].good
    /\ until' = [Kept(Cred(q)) EXCEPT ![Cred(q)] = visit[q].stamp + WallTTL]
    /\ visit' = [visit EXCEPT ![q].at = "passed", ![q].good = FALSE]
    /\ UNCHANGED <<clock, live, lastLive>>

\* The same of one that is not.
Refuse(q) ==
    /\ visit[q].at \in {"sessionKnown", "apikeyKnown"}
    /\ ~visit[q].good
    /\ until' = [until EXCEPT ![Cred(q)] = 0]
    /\ visit' = [visit EXCEPT ![q] = AfterRefusal(q)]
    /\ UNCHANGED <<clock, live, lastLive>>

\* delete_session, revoke_session, revoke_other_sessions, an administrator's
\* revoke_user_sessions, or the session's expiry.
EndSession(c) ==
    /\ c \in live \cap Tokens
    /\ live' = live \ {c}
    /\ UNCHANGED <<clock, lastLive, until, visit>>

\* revoke_key
RevokeKey(c) ==
    /\ c \in live \cap Keys
    /\ live' = live \ {c}
    /\ UNCHANGED <<clock, lastLive, until, visit>>

Tick ==
    /\ clock < MaxClock
    /\ clock' = clock + 1
    /\ lastLive' = [c \in Creds |-> IF c \in live THEN clock + 1 ELSE lastLive[c]]
    /\ UNCHANGED <<live, until, visit>>

Next ==
    \/ \E q \in Visits :
          \/ LookUp(q) \/ ValidateSession(q) \/ ValidateKey(q) \/ Remember(q) \/ Refuse(q)
          \/ \E p \in Paths, t \in Tokens \cup {None}, k \in Keys \cup {None} : Arrive(q, p, t, k)
    \/ \E c \in Creds : EndSession(c) \/ RevokeKey(c)
    \/ Tick

Spec == Init /\ [][Next]_vars

-----------------------------------------------------------------------------
(* Properties.                                                             *)

\* Nobody gets past the wall on a credential that had ended a whole TTL before its check
\* began, however the check interleaved with the logout and with other checks; and an
\* API key opens no path but the bridge's.
EndedStaysOut ==
    \A q \in Visits :
        visit[q].at = "passed" /\ visit[q].path # "public" =>
            \E c \in {visit[q].token} \cup (IF visit[q].path = "mw" THEN {visit[q].key} ELSE {}) :
                c \in Creds /\ visit[q].stamp <= lastLive[c] + WallTTL

=============================================================================
