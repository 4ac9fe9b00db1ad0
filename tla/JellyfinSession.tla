---------------------------- MODULE JellyfinSession ----------------------------
(***************************************************************************)
(* One process's session with the operator's Jellyfin                      *)
(* (resolvers/_jellyfin_client.py, _jellyfin_proxy.py, jellyfin.py).       *)
(*                                                                         *)
(* An API call and a proxied media request go the same way: take the       *)
(* process's access token, or log in for one; send; on a 401 log in again, *)
(* once, and send again. Logins run one at a time, under a lock.           *)
(***************************************************************************)
EXTENDS Integers, FiniteSets

CONSTANTS
    Calls,       \* calls (bound: at once)
    MaxLogins,   \* bound on the tokens handed out
    MaxRevokes,  \* bound on how often Jellyfin drops the tokens it knows
    MaxFailures  \* bound on the logins that fail

VARIABLES
    valid,     \* Jellyfin: the tokens it takes
    logins,    \* Jellyfin: tokens handed out
    revokes,   \* how often it dropped them
    failures,  \* logins failed so far
    token,     \* _token, with _user_id; 0: none
    holder,    \* the calls that hold _auth_lock
    call       \* call -> where it is, the token it sends, and whether that is its second

vars == <<valid, logins, revokes, failures, token, holder, call>>

Stages == {"idle", "login", "logging in", "send", "reauth", "streaming"}
Idle == [at |-> "idle", bearer |-> 0, again |-> FALSE]

TypeOK ==
    /\ logins \in 0..MaxLogins /\ valid \subseteq 1..logins /\ token \in 0..logins
    /\ revokes \in 0..MaxRevokes /\ failures \in 0..MaxFailures
    /\ holder \subseteq Calls
    /\ \A c \in Calls : call[c].at \in Stages /\ call[c].bearer \in 0..logins /\ call[c].again \in BOOLEAN

Init ==
    /\ valid = {} /\ logins = 0 /\ revokes = 0 /\ failures = 0
    /\ token = 0 /\ holder = {}
    /\ call = [c \in Calls |-> Idle]

-----------------------------------------------------------------------------
Sends(c, bearer) == [call[c] EXCEPT !.at = "send", !.bearer = bearer]

\* _ensure_auth: the token there is, or the lock for a login
Start(c) ==
    /\ call[c].at = "idle"
    /\ call' = [call EXCEPT ![c] = IF token # 0 THEN Sends(c, token) ELSE [Idle EXCEPT !.at = "login"]]
    /\ UNCHANGED <<valid, logins, revokes, failures, token, holder>>

\* Mutant: a call whose token was rejected logs in whatever token there is by now.
SharedUnlessRejected(c) == token # 0 /\ call[c].at # "reauth"

\* Another call may have logged in while this one waited for the lock; a call whose token was
\* rejected wants another one.
Shared(c) == token # 0 /\ (call[c].at = "reauth" => token # call[c].bearer)

\* The second half of _ensure_auth, and reauth
TakeLock(c) ==
    /\ call[c].at \in {"login", "reauth"} /\ holder = {}
    /\ IF Shared(c) THEN /\ call' = [call EXCEPT ![c] = Sends(c, token)]
                         /\ UNCHANGED holder
       ELSE /\ call' = [call EXCEPT ![c].at = "logging in"]
            /\ holder' = {c}
    /\ UNCHANGED <<valid, logins, revokes, failures, token>>

\* _authenticate
LoggedIn(c) ==
    /\ call[c].at = "logging in" /\ logins < MaxLogins
    /\ logins' = logins + 1 /\ valid' = valid \cup {logins + 1}
    /\ token' = logins + 1
    /\ call' = [call EXCEPT ![c] = Sends(c, logins + 1)]
    /\ holder' = holder \ {c}
    /\ UNCHANGED <<revokes, failures>>

LoginFails(c) ==
    /\ call[c].at = "logging in" /\ failures < MaxFailures
    /\ failures' = failures + 1
    /\ call' = [call EXCEPT ![c] = Idle]
    /\ holder' = holder \ {c}
    /\ UNCHANGED <<valid, logins, revokes, token>>

\* api_request, or the response that proxy_fetch streams for as long as the viewer plays
Answered(c) ==
    /\ call[c].at = "send" /\ call[c].bearer \in valid
    /\ \E next \in {"idle", "streaming"} : call' = [call EXCEPT ![c] = [Idle EXCEPT !.at = next]]
    /\ UNCHANGED <<valid, logins, revokes, failures, token, holder>>

Streamed(c) ==
    /\ call[c].at = "streaming"
    /\ call' = [call EXCEPT ![c] = Idle]
    /\ UNCHANGED <<valid, logins, revokes, failures, token, holder>>

\* 401: a new token once, then an error
Rejected(c) ==
    /\ call[c].at = "send" /\ call[c].bearer \notin valid
    /\ call' = [call EXCEPT ![c] = IF call[c].again THEN Idle ELSE [call[c] EXCEPT !.at = "reauth", !.again = TRUE]]
    /\ UNCHANGED <<valid, logins, revokes, failures, token, holder>>

\* Jellyfin is restarted, or an administrator signs the device out.
Revoke ==
    /\ valid # {} /\ revokes < MaxRevokes
    /\ revokes' = revokes + 1 /\ valid' = {}
    /\ UNCHANGED <<logins, failures, token, holder, call>>

-----------------------------------------------------------------------------
CallNext(c) ==
    \/ Start(c) \/ TakeLock(c) \/ LoggedIn(c) \/ LoginFails(c)
    \/ Answered(c) \/ Streamed(c) \/ Rejected(c)

Next == Revoke \/ \E c \in Calls : CallNext(c)

Spec == Init /\ [][Next]_vars

-----------------------------------------------------------------------------
(* Properties *)

\* Calls that meet the same 401 share one login: there is one for each time that Jellyfin dropped
\* its tokens, and the first. A login takes the lock.
LoginsAreShared ==
    /\ logins <= revokes + 1
    /\ Cardinality(holder) <= 1 /\ \A c \in Calls : call[c].at = "logging in" => holder = {c}
=============================================================================
