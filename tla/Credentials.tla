----------------------------- MODULE Credentials -----------------------------
(***************************************************************************)
(* E-mail accounts once they exist: signing in with a password, the        *)
(* mailed verification and reset links, signing out and deleting the       *)
(* account (account_engine/auth.py, security_routes.py and the accounts,   *)
(* sessions and email_tokens tables of db.py).                             *)
(*                                                                         *)
(* A flow runs in a thread of any replica and is a sequence of statements, *)
(* each its own transaction, between which every other flow may run.       *)
(***************************************************************************)
EXTENDS Integers, FiniteSets

CONSTANTS
    Owners,     \* accounts
    Words,      \* passwords
    OldWord,    \* the password every account starts with
    Links,      \* mailed links (bound: how many are issued)
    Flows,      \* requests (bound: how many are made)
    None        \* no account, no link, no word

Kinds  == {"login", "verify", "resend", "forgot", "reset", "delete"}
Stages == {"none", "read", "rehash", "consume", "password", "verified", "revoke", "drop",
           "insert", "session", "erase", "done"}

VARIABLES
    acct,   \* account -> whether its row is there, its password, whether the stored hash has
            \*            fewer rounds than hash_password makes now, whether it is verified
    mailed, \* link -> account and purpose of its row, whether the row is there
    opened, \* requests whose session row is there
    flow    \* request -> kind, account, password, link, stage, status code of its answer, and
            \*            the rows its DELETE is about to remove

vars == <<acct, mailed, opened, flow>>

TypeOK ==
    /\ acct \in [Owners -> [exists : BOOLEAN, word : Words, weak : BOOLEAN, verified : BOOLEAN]]
    /\ mailed \in [Links -> [owner : Owners \cup {None}, purpose : {"verify", "reset", "none"},
                             live : BOOLEAN]]
    /\ opened \subseteq Flows
    /\ flow \in [Flows -> [kind : Kinds \cup {"none"}, owner : Owners \cup {None},
                           word : Words \cup {None}, link : Links \cup {None}, at : Stages,
                           answer : {0, 200, 400, 401, 403, 404, 500}, drops : SUBSET Links]]

Init ==
    /\ acct \in [Owners -> [exists : {TRUE}, word : {OldWord}, weak : BOOLEAN, verified : BOOLEAN]]
    /\ mailed = [l \in Links |-> [owner |-> None, purpose |-> "none", live |-> FALSE]]
    /\ opened = {}
    /\ flow = [f \in Flows |-> [kind |-> "none", owner |-> None, word |-> None, link |-> None,
                                at |-> "none", answer |-> 0, drops |-> {}]]

-----------------------------------------------------------------------------
(* Requests arrive.                                                        *)

Goes(f, stage) == flow' = [flow EXCEPT ![f].at = stage]
Answers(f, code) == flow' = [flow EXCEPT ![f].at = "done", ![f].answer = code, ![f].drops = {}]
At(f, kinds, stage) == flow[f].kind \in kinds /\ flow[f].at = stage

\* email_login, email_resend, email_forgot and the DELETE /account of a signed-in owner.
Ask(f, k, o, w) ==
    /\ flow[f].at = "none"
    /\ k = "delete" => \E g \in opened : flow[g].owner = o
    /\ (k \in {"login", "delete"}) = (w # None)
    /\ flow' = [flow EXCEPT ![f].kind = k, ![f].owner = o, ![f].word = w, ![f].at = "read"]
    /\ UNCHANGED <<acct, mailed, opened>>

\* email_verify and email_reset present a link that was mailed, to either route.
Follow(f, k, l, w) ==
    /\ flow[f].at = "none"
    /\ mailed[l].owner # None
    /\ (k = "reset") = (w # None)
    /\ flow' = [flow EXCEPT ![f].kind = k, ![f].link = l, ![f].word = w, ![f].at = "consume"]
    /\ UNCHANGED <<acct, mailed, opened>>

-----------------------------------------------------------------------------
(* Signing in.                                                             *)

\* login_email up to its first write: the row is read and the password checked against it.
LoginReads(f) ==
    /\ At(f, {"login"}, "read")
    /\ LET a == acct[flow[f].owner]
           good == a.exists /\ a.word = flow[f].word
       IN  \/ ~good /\ Answers(f, 401)
           \/ good /\ ~a.verified /\ Answers(f, 403)
           \/ good /\ a.verified /\ Goes(f, IF a.weak THEN "rehash" ELSE "session")
    /\ UNCHANGED <<acct, mailed, opened>>

\* needs_rehash of the hash that was read: set_password with the password that was typed.
Rehash(f) ==
    /\ At(f, {"login"}, "rehash")
    /\ acct' = [acct EXCEPT ![flow[f].owner].word = IF acct[flow[f].owner].exists
                                                   THEN flow[f].word ELSE @,
                            ![flow[f].owner].weak = FALSE]
    /\ Goes(f, "session")
    /\ UNCHANGED <<mailed, opened>>

\* Mutant: sessions have no foreign key.
OpenSessionAnyway(f) ==
    /\ At(f, {"login", "verify"}, "session")
    /\ opened' = opened \cup {f}
    /\ Answers(f, 200)
    /\ UNCHANGED <<acct, mailed>>

\* _email_session: the foreign key refuses a session of an account that is gone.
OpenSession(f) ==
    /\ At(f, {"login", "verify"}, "session")
    /\ \/ acct[flow[f].owner].exists /\ opened' = opened \cup {f} /\ Answers(f, 200)
       \/ ~acct[flow[f].owner].exists /\ Answers(f, 500) /\ UNCHANGED opened
    /\ UNCHANGED <<acct, mailed>>

-----------------------------------------------------------------------------
(* Links.                                                                  *)

\* resend_verification and request_password_reset look the account up.
AskForLink(f) ==
    /\ At(f, {"resend", "forgot"}, "read")
    /\ LET a == acct[flow[f].owner]
           sends == a.exists /\ (flow[f].kind = "resend" => ~a.verified)
       IN  IF sends THEN Goes(f, "drop") ELSE Answers(f, 200)
    /\ UNCHANGED <<acct, mailed, opened>>

Purpose(f) == IF flow[f].kind = "resend" THEN "verify" ELSE "reset"

\* create_email_token, its DELETE: the statement sees the rows committed by now, not the
\* ones another transaction is about to commit.
DropOlder(f) ==
    /\ At(f, {"resend", "forgot"}, "drop")
    /\ flow' = [flow EXCEPT ![f].at = "insert",
                            ![f].drops = {l \in Links : /\ mailed[l].live
                                                        /\ mailed[l].owner = flow[f].owner
                                                        /\ mailed[l].purpose = Purpose(f)}]
    /\ UNCHANGED <<acct, mailed, opened>>

\* create_email_token, its INSERT and commit; the link is mailed.
IssueLink(f, l) ==
    /\ At(f, {"resend", "forgot"}, "insert")
    /\ mailed[l].owner = None
    /\ \/ /\ acct[flow[f].owner].exists
          /\ mailed' = [k \in Links |->
                CASE k = l -> [owner |-> flow[f].owner, purpose |-> Purpose(f), live |-> TRUE]
                  [] k # l /\ k \in flow[f].drops -> [mailed[k] EXCEPT !.live = FALSE]
                  [] OTHER -> mailed[k]]
          /\ Answers(f, 200)
       \/ ~acct[flow[f].owner].exists /\ Answers(f, 500) /\ UNCHANGED mailed
    /\ UNCHANGED <<acct, opened>>

\* Mutant: the row is selected, and deleted by the next statement.
ConsumeReads(f) ==
    /\ At(f, {"verify", "reset"}, "consume")
    /\ LET m == mailed[flow[f].link]
           fits == m.live /\ m.purpose = flow[f].kind
       IN  \/ /\ fits
              /\ flow' = [flow EXCEPT ![f].owner = m.owner,
                             ![f].at = IF flow[f].kind = "reset" THEN "password" ELSE "verified"]
           \/ ~fits /\ Answers(f, 400)
    /\ UNCHANGED <<acct, mailed, opened>>

\* consume_email_token: the row goes, whatever it was for.  An expired row is not
\* distinguished from one that is gone.
Consume(f) ==
    /\ At(f, {"verify", "reset"}, "consume")
    /\ LET m == mailed[flow[f].link]
           fits == m.live /\ m.purpose = flow[f].kind
       IN  \/ /\ fits
              /\ flow' = [flow EXCEPT ![f].owner = m.owner,
                             ![f].at = IF flow[f].kind = "reset" THEN "password" ELSE "verified"]
           \/ ~fits /\ Answers(f, 400)
    /\ mailed' = [mailed EXCEPT ![flow[f].link].live = FALSE]
    /\ UNCHANGED <<acct, opened>>

\* reset_password: the new hash, ...
SetPassword(f) ==
    /\ At(f, {"reset"}, "password")
    /\ acct' = [acct EXCEPT ![flow[f].owner].word = IF acct[flow[f].owner].exists
                                                   THEN flow[f].word ELSE @,
                            ![flow[f].owner].weak = FALSE]
    /\ Goes(f, "verified")
    /\ UNCHANGED <<mailed, opened>>

\* ... the address counts as verified, in verify_email too, which then looks the account up, ...
SetVerified(f) ==
    /\ At(f, {"reset", "verify"}, "verified")
    /\ acct' = [acct EXCEPT ![flow[f].owner].verified = acct[flow[f].owner].exists \/ @]
    /\ \/ flow[f].kind = "reset" /\ Goes(f, "revoke")
       \/ flow[f].kind = "verify" /\ acct[flow[f].owner].exists /\ Goes(f, "session")
       \/ flow[f].kind = "verify" /\ ~acct[flow[f].owner].exists /\ Answers(f, 400)
    /\ UNCHANGED <<mailed, opened>>

\* ... and every session goes.
RevokeSessions(f) ==
    /\ At(f, {"reset"}, "revoke")
    /\ opened' = {g \in opened : flow[g].owner # flow[f].owner}
    /\ Answers(f, 200)
    /\ UNCHANGED <<acct, mailed>>

-----------------------------------------------------------------------------
(* Signing out and leaving.                                                *)

\* auth_logout, revoke_session, or the session's expiry.
Logout(g) ==
    /\ g \in opened
    /\ opened' = opened \ {g}
    /\ UNCHANGED <<acct, mailed, flow>>

\* delete_account, up to confirm_owner, whose row is the one the request came in with.
ConfirmOwner(f) ==
    /\ At(f, {"delete"}, "read")
    /\ \/ ~acct[flow[f].owner].exists /\ Answers(f, 401)
       \/ acct[flow[f].owner].exists /\ acct[flow[f].owner].word # flow[f].word /\ Answers(f, 401)
       \/ acct[flow[f].owner].exists /\ acct[flow[f].owner].word = flow[f].word /\ Goes(f, "erase")
    /\ UNCHANGED <<acct, mailed, opened>>

\* delete_account's last statement: the account's rows cascade.
Erase(f) ==
    /\ At(f, {"delete"}, "erase")
    /\ LET o == flow[f].owner
       IN  /\ Answers(f, IF acct[o].exists THEN 200 ELSE 404)
           /\ acct' = [acct EXCEPT ![o].exists = FALSE]
           /\ opened' = {g \in opened : flow[g].owner # o}
           /\ mailed' = [l \in Links |-> IF mailed[l].owner = o THEN [mailed[l] EXCEPT !.live = FALSE]
                                         ELSE mailed[l]]

-----------------------------------------------------------------------------
Step(f) ==
    \/ LoginReads(f) \/ Rehash(f) \/ OpenSession(f)
    \/ AskForLink(f) \/ DropOlder(f) \/ Consume(f) \/ SetPassword(f) \/ SetVerified(f)
    \/ RevokeSessions(f) \/ ConfirmOwner(f) \/ Erase(f) \/ Logout(f)

Next ==
    \/ \E f \in Flows : Step(f)
    \/ \E f \in Flows, l \in Links : IssueLink(f, l)
    \/ \E f \in Flows, k \in {"login", "resend", "forgot", "delete"}, o \in Owners,
          w \in Words \cup {None} : Ask(f, k, o, w)
    \/ \E f \in Flows, k \in {"verify", "reset"}, l \in Links, w \in Words \cup {None} :
          Follow(f, k, l, w)

Spec == Init /\ [][Next]_vars

-----------------------------------------------------------------------------
(* Properties.                                                             *)

\* A mailed link works once, for the route it was issued for, and only for its account, however
\* many requests present it at once (consume_email_token).
LinkServesOne ==
    \A l \in Links :
        LET served == {f \in Flows : flow[f].link = l /\ flow[f].at # "consume" /\ flow[f].owner # None}
        IN  /\ Cardinality(served) <= 1
            /\ \A f \in served : flow[f].kind = mailed[l].purpose /\ flow[f].owner = mailed[l].owner

\* Nothing of an account outlives it: a sign-in or a link request under way when the account is
\* deleted leaves no session and no link behind.
NothingOutlivesAccount ==
    /\ \A f \in opened : acct[flow[f].owner].exists
    /\ \A l \in Links : mailed[l].live => acct[mailed[l].owner].exists

\* A reset that was answered with 200 and no later reset: the account's password is the one
\* that was set.
ResetSticks ==
    \A f \in Flows :
        /\ flow[f].kind = "reset" /\ flow[f].answer = 200 /\ acct[flow[f].owner].exists
        /\ \A g \in Flows \ {f} : flow[g].kind # "reset"
        => acct[flow[f].owner].word = flow[f].word

=============================================================================
