---------------------------- MODULE Registration ----------------------------
(***************************************************************************)
(* Signing up and signing in: the register and login flows of              *)
(* account_engine/auth.py over the accounts, challenges and invite_tokens  *)
(* tables of account_engine/db.py.                                         *)
(*                                                                         *)
(* A flow runs in a thread of any replica and makes several statements,    *)
(* each its own transaction.  A mnemonic account is a public key that      *)
(* signs a one-time challenge, an email account has a password; both need  *)
(* an invite, a reusable code or a single-use token.                       *)
(***************************************************************************)
EXTENDS Integers, FiniteSets

CONSTANTS
    PublicKeys,    \* identities of mnemonic accounts
    Emails,        \* identities of email accounts
    Invites,       \* single-use tokens
    StaticCode,    \* the reusable SIGNUP_INVITE_CODE
    Challenges,    \* one-time challenges (bound: how many are issued)
    Requests,      \* requests (bound: how many are made)
    None           \* no key, no challenge, no request

ASSUME NoneAssumption ==
    None \notin PublicKeys \cup Emails \cup Invites \cup Challenges \cup Requests
ASSUME DistinctAssumption == PublicKeys \cap Emails = {} /\ StaticCode \notin Invites

Identities == PublicKeys \cup Emails
Codes      == Invites \cup {StaticCode}

VARIABLES
    accounts,   \* identities with a row in accounts
    invite,     \* token -> "unused", "used", or "gone" when revoked or expired
    usedBy,     \* token -> request whose consume_invite_token took it
    issued,     \* challenge -> the key it was issued for
    live,       \* challenges that are not deleted
    burnedBy,   \* history: challenge -> request whose DELETE returned the row
    flow,       \* request -> "register" or "login", None before it is made
    who,        \* request -> identity
    code,       \* request -> invite code
    challenge,  \* request -> challenge presented
    signed,     \* request -> whether the signature over it is right
    at,         \* request -> the statement it makes next
    answer,     \* request -> status code, 0 while it runs
    created     \* history: request -> whether its INSERT made an account

tableVars   == <<accounts, invite, usedBy, issued, live, burnedBy>>
requestVars == <<flow, who, code, challenge, signed, at, answer, created>>
vars == <<tableVars, requestVars>>

TypeOK ==
    /\ accounts \subseteq Identities
    /\ invite \in [Invites -> {"unused", "used", "gone"}]
    /\ usedBy \in [Invites -> Requests \cup {None}]
    /\ issued \in [Challenges -> PublicKeys \cup {None}]
    /\ live \subseteq {c \in Challenges : issued[c] # None}
    /\ burnedBy \in [Challenges -> Requests \cup {None}]
    /\ flow \in [Requests -> {"register", "login", "none"}]
    /\ who \in [Requests -> Identities \cup {None}]
    /\ code \in [Requests -> Codes \cup {None}]
    /\ challenge \in [Requests -> Challenges \cup {None}]
    /\ signed \in [Requests -> BOOLEAN]
    /\ at \in [Requests -> {"none", "lookup", "check", "consume", "verify", "burn", "insert",
                            "session", "done"}]
    /\ answer \in [Requests -> {0, 200, 401, 403, 404, 409, 500}]
    /\ created \in [Requests -> BOOLEAN]

Init ==
    /\ accounts = {}
    /\ invite = [i \in Invites |-> "unused"] /\ usedBy = [i \in Invites |-> None]
    /\ issued = [c \in Challenges |-> None] /\ live = {}
    /\ burnedBy = [c \in Challenges |-> None]
    /\ flow = [r \in Requests |-> "none"] /\ who = [r \in Requests |-> None]
    /\ code = [r \in Requests |-> None] /\ challenge = [r \in Requests |-> None]
    /\ signed = [r \in Requests |-> FALSE]
    /\ at = [r \in Requests |-> "none"] /\ answer = [r \in Requests |-> 0]
    /\ created = [r \in Requests |-> FALSE]

-----------------------------------------------------------------------------
(* Helpers.                                                                *)

Mnemonic(r) == who[r] \in PublicKeys

Step(r, from, to) ==
    /\ at[r] = from
    /\ at' = [at EXCEPT ![r] = to]
    /\ UNCHANGED <<flow, who, code, challenge, signed>>

Continue(r, from, to) == Step(r, from, to) /\ UNCHANGED <<answer, created>>

Reply(r, from, status) ==
    /\ Step(r, from, "done")
    /\ answer' = [answer EXCEPT ![r] = status]
    /\ UNCHANGED created

-----------------------------------------------------------------------------
(* Requests arrive.                                                        *)

\* Mutant: the challenge is stored without its key.
IssueChallengeUnbound(c, k) ==
    /\ issued[c] = None
    /\ live' = live \cup {c}
    /\ UNCHANGED <<accounts, invite, usedBy, issued, burnedBy, requestVars>>

\* auth_challenge
IssueChallenge(c, k) ==
    /\ issued[c] = None
    /\ issued' = [issued EXCEPT ![c] = k]
    /\ live' = live \cup {c}
    /\ UNCHANGED <<accounts, invite, usedBy, burnedBy, requestVars>>

\* A mnemonic flow presents a challenge somebody was issued; register_email looks at
\* the invite before the account, register_mnemonic the other way round.
Arrive(r, f, i, co, ch, ok) ==
    /\ at[r] = "none"
    /\ (i \in PublicKeys) = (ch # None)
    /\ ch # None => issued[ch] # None
    /\ flow' = [flow EXCEPT ![r] = f]
    /\ who' = [who EXCEPT ![r] = i]
    /\ code' = [code EXCEPT ![r] = co]
    /\ challenge' = [challenge EXCEPT ![r] = ch]
    /\ signed' = [signed EXCEPT ![r] = ok]
    /\ at' = [at EXCEPT ![r] = IF f = "register" /\ i \in Emails THEN "check" ELSE "lookup"]
    /\ UNCHANGED <<tableVars, answer, created>>

-----------------------------------------------------------------------------
(* The statements of a flow.                                               *)

\* get_account_by_public_key or get_account_by_email, and what the flow makes of it.
Lookup(r) ==
    /\ LET exists == who[r] \in accounts
           next   == IF flow[r] = "login" THEN (IF Mnemonic(r) THEN "consume" ELSE "session")
                     ELSE IF Mnemonic(r) THEN "check" ELSE "burn"
       IN  \/ flow[r] = "register" /\ exists /\ Reply(r, "lookup", 409)
           \/ flow[r] = "login" /\ ~exists /\ Reply(r, "lookup", IF Mnemonic(r) THEN 404 ELSE 401)
           \/ flow[r] = "login" /\ exists /\ ~Mnemonic(r) /\ ~signed[r] /\ Reply(r, "lookup", 401)
           \/ /\ exists = (flow[r] = "login")
              /\ flow[r] = "login" /\ ~Mnemonic(r) => signed[r]
              /\ Continue(r, "lookup", next)
    /\ UNCHANGED tableVars

Available(co) == co = StaticCode \/ (co \in Invites /\ invite[co] = "unused")

\* check_invite_code
CheckInvite(r) ==
    /\ \/ Available(code[r]) /\ Continue(r, "check", IF Mnemonic(r) THEN "consume" ELSE "lookup")
       \/ ~Available(code[r]) /\ Reply(r, "check", 403)
    /\ UNCHANGED tableVars

\* Mutant: the row is read, and deleted once the signature has verified.
ConsumeChallengeReads(r) ==
    /\ \/ challenge[r] \in live /\ issued[challenge[r]] = who[r] /\ Continue(r, "consume", "verify")
       \/ ~(challenge[r] \in live /\ issued[challenge[r]] = who[r]) /\ Reply(r, "consume", 401)
    /\ UNCHANGED tableVars

\* consume_challenge: the row goes whoever it was issued for.
ConsumeChallenge(r) ==
    /\ LET fits == challenge[r] \in live /\ issued[challenge[r]] = who[r]
       IN  \/ fits /\ Continue(r, "consume", "verify")
           \/ ~fits /\ Reply(r, "consume", 401)
    /\ live' = live \ {challenge[r]}
    /\ burnedBy' = [burnedBy EXCEPT ![challenge[r]] = IF challenge[r] \in live THEN r ELSE @]
    /\ UNCHANGED <<accounts, invite, usedBy, issued>>

\* Mutant: the verdict is not looked at.
VerifySignatureIgnored(r) ==
    /\ Continue(r, "verify", IF flow[r] = "login" THEN "session" ELSE "burn")
    /\ UNCHANGED tableVars

\* ed25519.verify
VerifySignature(r) ==
    /\ \/ signed[r] /\ Continue(r, "verify", IF flow[r] = "login" THEN "session" ELSE "burn")
       \/ ~signed[r] /\ Reply(r, "verify", 401)
    /\ UNCHANGED tableVars

\* Mutant: the UPDATE does not ask for used_at IS NULL.
ConsumeInviteAgain(r) ==
    /\ \/ code[r] = StaticCode /\ Continue(r, "burn", "insert") /\ UNCHANGED <<invite, usedBy>>
       \/ /\ code[r] \in Invites /\ invite[code[r]] # "gone"
          /\ Continue(r, "burn", "insert")
          /\ invite' = [invite EXCEPT ![code[r]] = "used"]
          /\ usedBy' = [usedBy EXCEPT ![code[r]] = r]
       \/ code[r] \in Invites /\ invite[code[r]] = "gone" /\ Reply(r, "burn", 403)
          /\ UNCHANGED <<invite, usedBy>>
    /\ UNCHANGED <<accounts, issued, live, burnedBy>>

\* consume_invite_code
ConsumeInvite(r) ==
    /\ \/ code[r] = StaticCode /\ Continue(r, "burn", "insert") /\ UNCHANGED <<invite, usedBy>>
       \/ /\ code[r] \in Invites /\ invite[code[r]] = "unused"
          /\ Continue(r, "burn", "insert")
          /\ invite' = [invite EXCEPT ![code[r]] = "used"]
          /\ usedBy' = [usedBy EXCEPT ![code[r]] = r]
       \/ code[r] \in Invites /\ invite[code[r]] # "unused" /\ Reply(r, "burn", 403)
          /\ UNCHANGED <<invite, usedBy>>
    /\ UNCHANGED <<accounts, issued, live, burnedBy>>

\* create_account or create_email_account: the unique index refuses the second one.
InsertAccount(r) ==
    /\ \/ /\ who[r] \notin accounts
          /\ Step(r, "insert", IF Mnemonic(r) THEN "session" ELSE "done")
          /\ answer' = [answer EXCEPT ![r] = IF Mnemonic(r) THEN 0 ELSE 200]
          /\ created' = [created EXCEPT ![r] = TRUE]
          /\ accounts' = accounts \cup {who[r]}
       \/ who[r] \in accounts /\ Reply(r, "insert", 500) /\ UNCHANGED accounts
    /\ UNCHANGED <<invite, usedBy, issued, live, burnedBy>>

\* open_session: the foreign key fails when the account is gone.
OpenSession(r) ==
    /\ Reply(r, "session", IF who[r] \in accounts THEN 200 ELSE 500)
    /\ UNCHANGED tableVars

-----------------------------------------------------------------------------
(* The bot, the owners and the sweep.                                      *)

\* revoke_invite_token, or its expiry: an unused token only.
DropInvite(i) ==
    /\ invite[i] = "unused"
    /\ invite' = [invite EXCEPT ![i] = "gone"]
    /\ UNCHANGED <<accounts, usedBy, issued, live, burnedBy, requestVars>>

\* delete_account; the used invites stay.
DeleteAccount(i) ==
    /\ i \in accounts
    /\ accounts' = accounts \ {i}
    /\ UNCHANGED <<invite, usedBy, issued, live, burnedBy, requestVars>>

\* A challenge expires.
ExpireChallenge(c) ==
    /\ c \in live
    /\ live' = live \ {c}
    /\ UNCHANGED <<accounts, invite, usedBy, issued, burnedBy, requestVars>>

-----------------------------------------------------------------------------
Serve(r) ==
    \/ Lookup(r) \/ CheckInvite(r) \/ ConsumeChallenge(r) \/ VerifySignature(r)
    \/ ConsumeInvite(r) \/ InsertAccount(r) \/ OpenSession(r)

Next ==
    \/ \E r \in Requests : Serve(r)
    \/ \E r \in Requests, i \in Identities, co \in Codes, ch \in Challenges \cup {None},
          ok \in BOOLEAN :
          Arrive(r, "register", i, co, ch, ok) \/ Arrive(r, "login", i, None, ch, ok)
    \/ \E c \in Challenges, k \in PublicKeys : IssueChallenge(c, k)
    \/ \E c \in Challenges : ExpireChallenge(c)
    \/ \E i \in Invites : DropInvite(i)
    \/ \E i \in Identities : DeleteAccount(i)

Spec == Init /\ [][Next]_vars

-----------------------------------------------------------------------------
(* Properties.                                                             *)

\* A single-use invite admits one account, whatever two sign-ups with it found when
\* they checked it.
InviteAdmitsOne ==
    \A i \in Invites : Cardinality({r \in Requests : created[r] /\ code[r] = i}) <= 1

\* A signed challenge is good for one request, and only for the key it was issued to.
ChallengeServesOne ==
    \A c \in Challenges :
        LET passed == {r \in Requests : /\ challenge[r] = c
                                        /\ at[r] \in {"burn", "insert", "session"} \/ answer[r] \in {200, 500}}
        IN  Cardinality(passed) <= 1 /\ \A r \in passed : who[r] = issued[c]

\* A 409 of register and a 404 of login leave the challenge to the other flow, and an
\* invite is not burned by a request whose signature does not verify.
FallbackKeepsBoth ==
    \A r \in Requests :
        /\ answer[r] \in {404, 409} => \A c \in Challenges : burnedBy[c] # r
        /\ Mnemonic(r) /\ ~signed[r] => \A i \in Invites : usedBy[i] # r

=============================================================================
