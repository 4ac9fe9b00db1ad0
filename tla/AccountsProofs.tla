---------------------------- MODULE AccountsProofs ----------------------------
(***************************************************************************)
(* Proofs about the accounts: what an invite, a challenge and a mailed     *)
(* link are good for, what is left of an account that is deleted, how long *)
(* the login wall lets a revoked credential in, when the broadcast's flag  *)
(* stands, and what a viewer's library is promised, for any number of      *)
(* requests, accounts, keys, links and replicas.  Each component has an    *)
(* inductive invariant of its own; the last section states them of the     *)
(* composition that the run checks.                                        *)
(***************************************************************************)
EXTENDS MCAccounts, SequenceTheorems, FiniteSetTheorems, TLAPS

USE NoneAssumption, DistinctAssumption

-----------------------------------------------------------------------------
(* Signing up and signing in: the inductive invariant.                     *)

\* A request has a challenge when it is about a key, and has not answered before its end.
Shape ==
    \A r \in Requests :
        /\ Mnemonic(r) <=> challenge[r] # None
        /\ at[r] # "none" => who[r] \in Identities
        /\ at[r] # "done" => answer[r] = 0
        /\ at[r] \in {"none", "lookup", "check", "consume", "verify", "burn", "insert"} => ~created[r]
        /\ at[r] \in {"consume", "verify"} => Mnemonic(r)

\* A challenge that a DELETE returned is not there again: it was issued, and is issued once.
Spent == \A c \in Challenges : burnedBy[c] # None => c \notin live /\ issued[c] # None

\* A request about a key that is past its challenge has burned it, and it was its own.
Passed ==
    \A r \in Requests :
        /\ Mnemonic(r)
        /\ at[r] \in {"verify", "burn", "insert", "session"} \/ answer[r] \in {200, 500}
        => burnedBy[challenge[r]] = r /\ issued[challenge[r]] = who[r]

\* A request that burned a challenge is past the answers 404 and 409.
Burned ==
    \A c \in Challenges, r \in Requests : burnedBy[c] = r =>
        at[r] \in {"verify", "burn", "insert", "session", "done"} /\ answer[r] \notin {404, 409}

\* An invite is taken after the signature has verified.
Taken ==
    /\ \A r \in Requests : at[r] \in {"burn", "insert"} /\ Mnemonic(r) => signed[r]
    /\ \A i \in Invites, r \in Requests : usedBy[i] = r =>
           at[r] \in {"insert", "session", "done"} /\ (Mnemonic(r) => signed[r])

\* Whoever inserts an account, or has, holds its invite.
Admitted ==
    \A r \in Requests : (at[r] = "insert" \/ created[r]) /\ code[r] \in Invites =>
        invite[code[r]] = "used" /\ usedBy[code[r]] = r

IInv == TypeOK /\ Shape /\ Spent /\ Passed /\ Burned /\ Taken /\ Admitted

LEMMA InitIInv == Init => IInv
<1> SUFFICES ASSUME Init PROVE IInv
  OBVIOUS
<1>1. TypeOK
  BY DEF Init, TypeOK, Codes, Identities
<1>2. Shape /\ Spent /\ Passed /\ Burned
  BY DEF Init, Shape, Spent, Passed, Burned, Mnemonic
<1>3. Taken /\ Admitted
  BY DEF Init, Taken, Admitted
<1> QED BY <1>1, <1>2, <1>3 DEF IInv

\* What all steps of a request's flow have in common.
LEMMA Along ==
    ASSUME TypeOK, NEW r \in Requests, Serve(r)
    PROVE  /\ UNCHANGED <<flow, who, code, challenge, signed, issued>>
           /\ at[r] \notin {"none", "done"}
           /\ \A q \in Requests \ {r} : at'[q] = at[q] /\ answer'[q] = answer[q] /\ created'[q] = created[q]
<1> USE DEF Step, Continue, Reply, tableVars, TypeOK
<1>1. CASE Lookup(r)
  BY <1>1 DEF Lookup
<1>2. CASE CheckInvite(r) \/ ConsumeChallenge(r)
  BY <1>2 DEF CheckInvite, ConsumeChallenge
<1>3. CASE VerifySignature(r) \/ ConsumeInvite(r)
  BY <1>3 DEF VerifySignature, ConsumeInvite
<1>4. CASE InsertAccount(r)
  BY <1>4 DEF InsertAccount
<1>5. CASE OpenSession(r)
  BY <1>5 DEF OpenSession
<1> QED BY <1>1, <1>2, <1>3, <1>4, <1>5 DEF Serve

\* Where each step leads, and what it writes.
Leads(r) ==
    \/ /\ at[r] = "lookup" /\ UNCHANGED <<tableVars, created>>
       /\ \/ at'[r] = "done" /\ answer'[r] \in {401, 404, 409}
          \/ at'[r] = "check" /\ Mnemonic(r) /\ answer' = answer
          \/ at'[r] = "consume" /\ Mnemonic(r) /\ answer' = answer
          \/ at'[r] \in {"burn", "session"} /\ ~Mnemonic(r) /\ answer' = answer
    \/ /\ at[r] = "check" /\ UNCHANGED <<tableVars, created>>
       /\ \/ at'[r] = "done" /\ answer'[r] = 403
          \/ at'[r] = "consume" /\ Mnemonic(r) /\ answer' = answer
          \/ at'[r] = "lookup" /\ answer' = answer
    \/ /\ at[r] = "consume" /\ UNCHANGED <<accounts, invite, usedBy, created>>
       /\ live' = live \ {challenge[r]}
       /\ burnedBy' = [burnedBy EXCEPT ![challenge[r]] = IF challenge[r] \in live THEN r ELSE @]
       /\ \/ at'[r] = "done" /\ answer'[r] = 401
          \/ /\ at'[r] = "verify" /\ answer' = answer
             /\ challenge[r] \in live /\ issued[challenge[r]] = who[r]
    \/ /\ at[r] = "verify" /\ UNCHANGED <<tableVars, created>>
       /\ \/ at'[r] = "done" /\ answer'[r] = 401
          \/ at'[r] \in {"session", "burn"} /\ answer' = answer /\ signed[r]
    \/ /\ at[r] = "burn" /\ UNCHANGED <<accounts, live, burnedBy, created>>
       /\ \/ at'[r] = "done" /\ answer'[r] = 403 /\ UNCHANGED <<invite, usedBy>>
          \/ at'[r] = "insert" /\ code[r] \notin Invites /\ answer' = answer /\ UNCHANGED <<invite, usedBy>>
          \/ /\ at'[r] = "insert" /\ code[r] \in Invites /\ invite[code[r]] = "unused" /\ answer' = answer
             /\ invite' = [invite EXCEPT ![code[r]] = "used"]
             /\ usedBy' = [usedBy EXCEPT ![code[r]] = r]
    \/ /\ at[r] = "insert" /\ UNCHANGED <<invite, usedBy, live, burnedBy>> /\ accounts' \subseteq Identities
       /\ \/ at'[r] = "session" /\ Mnemonic(r) /\ answer'[r] = 0
          \/ at'[r] = "done" /\ answer'[r] \in {200, 500}
    \/ /\ at[r] = "session" /\ UNCHANGED <<tableVars, created>>
       /\ at'[r] = "done" /\ answer'[r] \in {200, 500}

LEMMA ServeLeads ==
    ASSUME TypeOK, Shape, NEW r \in Requests, Serve(r) PROVE Leads(r)
<1> USE DEF Step, Continue, Reply, tableVars, TypeOK
<1>1. CASE Lookup(r)
  <2>1. at[r] = "lookup" /\ UNCHANGED <<tableVars, created>>
    BY <1>1 DEF Lookup
  <2>2. CASE at' = [at EXCEPT ![r] = "done"] /\ \E n \in {401, 404, 409} : answer' = [answer EXCEPT ![r] = n]
    BY <2>1, <2>2 DEF Leads
  <2>3. CASE /\ answer' = answer
             /\ at' = [at EXCEPT ![r] = IF flow[r] = "login" THEN (IF Mnemonic(r) THEN "consume" ELSE "session")
                                        ELSE IF Mnemonic(r) THEN "check" ELSE "burn"]
    <3>1. \/ at'[r] = "check" /\ Mnemonic(r)
          \/ at'[r] = "consume" /\ Mnemonic(r)
          \/ at'[r] \in {"burn", "session"} /\ ~Mnemonic(r)
      BY <2>3
    <3> QED BY <2>1, <2>3, <3>1 DEF Leads
  <2> QED BY <1>1, <2>2, <2>3 DEF Lookup
<1>2. CASE CheckInvite(r)
  BY <1>2 DEF CheckInvite, Leads
<1>3. CASE ConsumeChallenge(r)
  BY <1>3 DEF ConsumeChallenge, Leads
<1>4. CASE VerifySignature(r)
  BY <1>4 DEF VerifySignature, Leads
<1>5. CASE ConsumeInvite(r)
  BY <1>5 DEF ConsumeInvite, Leads
<1>6. CASE InsertAccount(r)
  <2>1. who[r] \in Identities
    BY <1>6 DEF InsertAccount, Shape
  <2> QED BY <1>6, <2>1 DEF InsertAccount, Leads
<1>7. CASE OpenSession(r)
  BY <1>7 DEF OpenSession, Leads
<1> QED BY <1>1, <1>2, <1>3, <1>4, <1>5, <1>6, <1>7 DEF Serve

LEMMA TypeServe == ASSUME TypeOK, Shape, NEW r \in Requests, Serve(r) PROVE TypeOK'
<1>1. UNCHANGED <<flow, who, code, challenge, signed, issued>>
  BY Along
<1>2. Leads(r)
  BY ServeLeads
<1>3. /\ at' \in [Requests -> {"none", "lookup", "check", "consume", "verify", "burn", "insert",
                              "session", "done"}]
      /\ answer' \in [Requests -> {0, 200, 401, 403, 404, 409, 500}]
      /\ created' \in [Requests -> BOOLEAN]
  <2> USE DEF Step, Continue, Reply, TypeOK
  <2>1. CASE Lookup(r)
    BY <2>1 DEF Lookup
  <2>2. CASE CheckInvite(r)
    BY <2>2 DEF CheckInvite
  <2>3. CASE ConsumeChallenge(r) \/ VerifySignature(r)
    BY <2>3 DEF ConsumeChallenge, VerifySignature
  <2>4. CASE ConsumeInvite(r)
    BY <2>4 DEF ConsumeInvite
  <2>5. CASE InsertAccount(r)
    <3>1. \E a \in {"session", "done"} : at' = [at EXCEPT ![r] = a]
      BY <2>5 DEF InsertAccount
    <3>2. \E n \in {0, 200, 500} : answer' = [answer EXCEPT ![r] = n]
      BY <2>5 DEF InsertAccount
    <3>3. created' = created \/ created' = [created EXCEPT ![r] = TRUE]
      BY <2>5 DEF InsertAccount
    <3>4. at' \in [Requests -> {"none", "lookup", "check", "consume", "verify", "burn", "insert",
                                "session", "done"}]
      BY <3>1
    <3>5. answer' \in [Requests -> {0, 200, 401, 403, 404, 409, 500}]
      BY <3>2
    <3>6. created' \in [Requests -> BOOLEAN]
      <4>1. created \in [Requests -> BOOLEAN]
        OBVIOUS
      <4> HIDE DEF TypeOK
      <4> QED BY <3>3, <4>1
    <3> QED BY <3>4, <3>5, <3>6
  <2>6. CASE OpenSession(r)
    BY <2>6 DEF OpenSession
  <2> QED BY <2>1, <2>2, <2>3, <2>4, <2>5, <2>6 DEF Serve
<1>4. /\ accounts' \subseteq Identities /\ live' \subseteq live
      /\ burnedBy' \in [Challenges -> Requests \cup {None}]
      /\ invite' \in [Invites -> {"unused", "used", "gone"}]
      /\ usedBy' \in [Invites -> Requests \cup {None}]
  BY <1>2 DEF TypeOK, Leads, tableVars
<1> QED BY <1>1, <1>3, <1>4 DEF TypeOK

LEMMA ServeKeeps == ASSUME IInv, NEW r \in Requests, Serve(r) PROVE IInv'
<1> USE DEF IInv
<1>1. /\ UNCHANGED <<flow, who, code, challenge, signed, issued>>
      /\ at[r] \notin {"none", "done"}
      /\ \A q \in Requests \ {r} : at'[q] = at[q] /\ answer'[q] = answer[q] /\ created'[q] = created[q]
  BY Along
<1>2. Leads(r)
  BY ServeLeads
<1>3. \A q \in Requests : Mnemonic(q)' <=> Mnemonic(q)
  BY <1>1 DEF Mnemonic
<1>4. \A q \in Requests : Mnemonic(q) => challenge[q] \in Challenges
  BY DEF TypeOK, Shape
<1>5. Shape'
  BY <1>1, <1>2, <1>3 DEF Shape, Leads
<1>6. Spent'
  BY <1>1, <1>2, <1>4 DEF Spent, Leads, tableVars, TypeOK
<1>7. Passed'
  BY <1>1, <1>2, <1>3, <1>4 DEF Passed, Leads, Shape, Spent, tableVars, TypeOK
<1>8. Burned'
  BY <1>1, <1>2 DEF Burned, Leads, Shape, tableVars, TypeOK
<1>9. Taken'
  BY <1>1, <1>2, <1>3 DEF Taken, Leads, tableVars, TypeOK
<1>10. Admitted'
  BY <1>1, <1>2 DEF Admitted, Leads, Shape, tableVars, TypeOK
<1> QED BY <1>5, <1>6, <1>7, <1>8, <1>9, <1>10, TypeServe

LEMMA ArriveKeeps ==
    ASSUME IInv, NEW r \in Requests, NEW f \in {"register", "login"}, NEW i \in Identities,
           NEW co \in Codes \cup {None}, NEW ch \in Challenges \cup {None}, NEW ok \in BOOLEAN,
           Arrive(r, f, i, co, ch, ok)
    PROVE  IInv'
<1> USE DEF IInv
<1>1. /\ at[r] = "none" /\ UNCHANGED <<tableVars, answer, created>>
      /\ who' = [who EXCEPT ![r] = i] /\ challenge' = [challenge EXCEPT ![r] = ch]
      /\ code' = [code EXCEPT ![r] = co] /\ signed' = [signed EXCEPT ![r] = ok]
      /\ \E a \in {"check", "lookup"} : at' = [at EXCEPT ![r] = a]
      /\ (i \in PublicKeys) = (ch # None) /\ flow' = [flow EXCEPT ![r] = f]
  BY DEF Arrive
<1>2. TypeOK'
  BY <1>1 DEF TypeOK, tableVars
<1>3. \A q \in Requests : q # r => (Mnemonic(q)' <=> Mnemonic(q))
  BY <1>1 DEF Mnemonic, TypeOK
<1>4. Mnemonic(r)' <=> ch # None
  BY <1>1 DEF Mnemonic, TypeOK
<1>5. Shape'
  BY <1>1, <1>3, <1>4 DEF Shape, TypeOK
<1>6. Spent'
  BY <1>1 DEF Spent, tableVars
<1>7. Passed'
  BY <1>1, <1>3 DEF Passed, Shape, TypeOK, tableVars
<1>8. Burned'
  BY <1>1 DEF Burned, TypeOK, tableVars
<1>9. Taken'
  BY <1>1, <1>3 DEF Taken, TypeOK, tableVars
<1>10. Admitted'
  BY <1>1 DEF Admitted, Shape, TypeOK, tableVars
<1> QED BY <1>2, <1>5, <1>6, <1>7, <1>8, <1>9, <1>10

LEMMA NextIInv == IInv /\ [Next]_vars => IInv'
<1> SUFFICES ASSUME IInv, [Next]_vars PROVE IInv'
  OBVIOUS
<1>1. ASSUME NEW r \in Requests, Serve(r) PROVE IInv'
  BY <1>1, ServeKeeps
<1>2. ASSUME NEW r \in Requests, NEW i \in Identities, NEW co \in Codes,
             NEW ch \in Challenges \cup {None}, NEW ok \in BOOLEAN,
             Arrive(r, "register", i, co, ch, ok) \/ Arrive(r, "login", i, None, ch, ok)
      PROVE  IInv'
  BY <1>2, ArriveKeeps
<1> USE DEF IInv, requestVars, Shape, Spent, Passed, Burned, Taken, Admitted, Mnemonic
<1>3. ASSUME NEW c \in Challenges, NEW k \in PublicKeys, IssueChallenge(c, k) PROVE IInv'
  <2>1. /\ issued[c] = None /\ issued' = [issued EXCEPT ![c] = k] /\ live' = live \cup {c}
        /\ UNCHANGED <<accounts, invite, usedBy, burnedBy, requestVars>>
    BY <1>3 DEF IssueChallenge
  <2>2. TypeOK'
    BY <2>1 DEF TypeOK
  <2>3. Spent' /\ Shape' /\ Burned' /\ Taken' /\ Admitted'
    BY <2>1 DEF TypeOK
  <2>4. Passed'
    <3>1. \A d \in Challenges : burnedBy[d] # None => issued'[d] = issued[d]
      BY <2>1 DEF TypeOK
    <3>2. \A q \in Requests : Mnemonic(q) => challenge[q] \in Challenges
      BY DEF TypeOK
    <3> QED BY <2>1, <3>1, <3>2 DEF TypeOK
  <2> QED BY <2>2, <2>3, <2>4
<1>4. ASSUME NEW c \in Challenges, ExpireChallenge(c) PROVE IInv'
  BY <1>4 DEF ExpireChallenge, TypeOK
<1>5. ASSUME NEW i \in Invites, DropInvite(i) PROVE IInv'
  <2>1. /\ invite[i] = "unused" /\ invite' = [invite EXCEPT ![i] = "gone"]
        /\ UNCHANGED <<accounts, usedBy, issued, live, burnedBy, requestVars>>
    BY <1>5 DEF DropInvite
  <2>2. TypeOK' /\ Admitted'
    BY <2>1 DEF TypeOK
  <2>3. Shape' /\ Spent' /\ Passed' /\ Burned' /\ Taken'
    BY <2>1
  <2> QED BY <2>2, <2>3
<1>6. ASSUME NEW i \in Identities, DeleteAccount(i) PROVE IInv'
  <2>1. accounts' = accounts \ {i} /\ UNCHANGED <<invite, usedBy, issued, live, burnedBy, requestVars>>
    BY <1>6 DEF DeleteAccount
  <2> QED BY <2>1 DEF TypeOK
<1>7. CASE UNCHANGED vars
  BY <1>7 DEF vars, tableVars, TypeOK
<1> QED BY <1>1, <1>2, <1>3, <1>4, <1>5, <1>6, <1>7 DEF Next

LEMMA Invariant == Spec => []IInv
  BY InitIInv, NextIInv, PTL DEF Spec

-----------------------------------------------------------------------------
(* What follows.                                                           *)

LEMMA AtMostOne ==
    ASSUME NEW S, NEW x, S \subseteq {x} PROVE Cardinality(S) <= 1
<1>1. CASE S = {}
  <2>1. Cardinality({}) = 0
    BY FS_EmptySet
  <2> QED BY <1>1, <2>1
<1>2. CASE S = {x}
  <2>1. Cardinality({x}) = 1
    BY FS_Singleton
  <2> QED BY <1>2, <2>1
<1> QED BY <1>1, <1>2

LEMMA InviteSafe == IInv => InviteAdmitsOne
<1> SUFFICES ASSUME IInv, NEW i \in Invites
             PROVE  Cardinality({r \in Requests : created[r] /\ code[r] = i}) <= 1
  BY DEF InviteAdmitsOne
<1>1. {r \in Requests : created[r] /\ code[r] = i} \subseteq {usedBy[i]}
  BY DEF IInv, Admitted
<1> QED BY <1>1, AtMostOne

LEMMA ChallengeSafe == IInv => ChallengeServesOne
<1> SUFFICES ASSUME IInv PROVE ChallengeServesOne
  OBVIOUS
<1> DEFINE passed(c) == {r \in Requests : /\ challenge[r] = c
                                          /\ at[r] \in {"burn", "insert", "session"} \/ answer[r] \in {200, 500}}
<1>1. ASSUME NEW c \in Challenges
      PROVE  Cardinality(passed(c)) <= 1 /\ \A r \in passed(c) : who[r] = issued[c]
  <2>1. ASSUME NEW r \in passed(c) PROVE burnedBy[c] = r /\ who[r] = issued[c]
    <3>1. r \in Requests /\ challenge[r] = c /\ c # None
      OBVIOUS
    <3>2. Mnemonic(r)
      BY <3>1 DEF IInv, Shape
    <3> QED BY <3>1, <3>2 DEF IInv, Passed
  <2>2. passed(c) \subseteq {burnedBy[c]}
    BY <2>1
  <2> HIDE DEF passed
  <2>3. Cardinality(passed(c)) <= 1
    BY <2>2, AtMostOne
  <2> QED BY <2>1, <2>3
<1> QED BY <1>1 DEF ChallengeServesOne

LEMMA FallbackSafe == IInv => FallbackKeepsBoth
  BY DEF IInv, FallbackKeepsBoth, Burned, Taken

\* Every variable keeps its type, over any requests, revocations and expiries (the flows of
\* auth.py).
THEOREM TypesKept == Spec => []TypeOK
  BY Invariant, PTL DEF IInv

\* A single-use invite admits one account: of any number of sign-ups whose check found it
\* unused, consume_invite_token's UPDATE serves one.
THEOREM InviteOnce == Spec => []InviteAdmitsOne
  BY Invariant, InviteSafe, PTL

\* A challenge is good for one request, and for the key it was issued to: consume_challenge
\* deletes the row it reads.
THEOREM ChallengeOnce == Spec => []ChallengeServesOne
  BY Invariant, ChallengeSafe, PTL

\* A 409 of register and a 404 of login have not touched the challenge, and a request whose
\* signature does not verify has not taken an invite: the order of the statements in auth.py.
THEOREM FallbackIsFree == Spec => []FallbackKeepsBoth
  BY Invariant, FallbackSafe, PTL

-----------------------------------------------------------------------------
(* The login wall.                                                         *)

USE WallAssumption

AtSession(q) == visit[q].at \in {"session", "sessionQuery", "sessionKnown"}
AtKey(q)     == visit[q].at \in {"apikey", "apikeyQuery", "apikeyKnown"}

\* A row that is there was good just now, and a credential is remembered for a TTL from a
\* moment when its row was good.
RememberedTruly ==
    \A c \in Wall!Creds :
        /\ lastLive[c] <= clock
        /\ c \in wallLive => lastLive[c] = clock
        /\ until[c] <= lastLive[c] + WallTTL

\* A check is about a credential that its request carries, and only the bridge's path carries
\* a key.
ChecksOwn ==
    \A q \in Visits :
        /\ visit[q].stamp <= clock
        /\ AtSession(q) => visit[q].token \in Tokens
        /\ AtKey(q) => visit[q].key \in Keys
        /\ visit[q].key # None => visit[q].path = "mw"

\* A good answer was good after its lookup began, and whoever passed carries a credential that
\* was good a TTL before its lookup, or later.
Within(q, c) == c \in Wall!Creds /\ visit[q].stamp <= lastLive[c] + WallTTL

PassedTruly ==
    \A q \in Visits :
        /\ visit[q].at \in {"sessionKnown", "apikeyKnown"} /\ visit[q].good =>
              visit[q].stamp <= lastLive[Wall!Cred(q)]
        /\ visit[q].at = "passed" /\ visit[q].path # "public" =>
              \/ Within(q, visit[q].token)
              \/ visit[q].path = "mw" /\ Within(q, visit[q].key)

WallInv == Wall!TypeOK /\ RememberedTruly /\ ChecksOwn /\ PassedTruly

Visit == [path : Wall!Paths, token : Tokens \cup {None}, key : Keys \cup {None},
          at : Wall!Stages, stamp : 0..MaxClock, good : BOOLEAN]

LEMMA WallInit == Wall!Init => WallInv
<1> SUFFICES ASSUME Wall!Init PROVE WallInv
  OBVIOUS
<1>1. Wall!TypeOK
  BY DEF Wall!Init, Wall!TypeOK, Wall!Idle, Wall!Paths, Wall!Stages
<1>2. RememberedTruly /\ ChecksOwn /\ PassedTruly
  BY DEF Wall!Init, Wall!Idle, RememberedTruly, ChecksOwn, PassedTruly, AtSession, AtKey
<1> QED BY <1>1, <1>2 DEF WallInv

\* A request that does not move is as ChecksOwn and PassedTruly say, while the time stands still.
OwnOk(q) ==
    /\ visit[q].stamp <= clock
    /\ AtSession(q) => visit[q].token \in Tokens
    /\ AtKey(q) => visit[q].key \in Keys
    /\ visit[q].key # None => visit[q].path = "mw"

PassOk(q) ==
    /\ visit[q].at \in {"sessionKnown", "apikeyKnown"} /\ visit[q].good =>
          visit[q].stamp <= lastLive[Wall!Cred(q)]
    /\ visit[q].at = "passed" /\ visit[q].path # "public" =>
          \/ Within(q, visit[q].token)
          \/ visit[q].path = "mw" /\ Within(q, visit[q].key)

LEMMA OthersOk ==
    ASSUME WallInv, UNCHANGED <<clock, lastLive>>, NEW q \in Visits, OwnOk(q)', PassOk(q)',
           \A p \in Visits \ {q} : visit'[p] = visit[p]
    PROVE  ChecksOwn' /\ PassedTruly'
<1>1. \A p \in Visits : OwnOk(p) /\ PassOk(p)
  BY DEF WallInv, ChecksOwn, PassedTruly, OwnOk, PassOk
<1>2. ASSUME NEW p \in Visits, p # q PROVE OwnOk(p)' /\ PassOk(p)'
  BY <1>1, <1>2 DEF OwnOk, PassOk, AtSession, AtKey, Within, Wall!Cred
<1> QED BY <1>2 DEF ChecksOwn, PassedTruly, OwnOk, PassOk

\* The table of remembered credentials is left alone.
LEMMA SameTable ==
    ASSUME WallInv, UNCHANGED <<clock, wallLive, lastLive, until>>, NEW q \in Visits,
           OwnOk(q)', PassOk(q)', \A p \in Visits \ {q} : visit'[p] = visit[p],
           visit' \in [Visits -> Visit]
    PROVE  WallInv'
<1>1. ChecksOwn' /\ PassedTruly'
  BY OthersOk
<1>2. RememberedTruly'
  BY DEF WallInv, RememberedTruly
<1>3. Wall!TypeOK'
  BY DEF WallInv, Wall!TypeOK, Visit
<1> QED BY <1>1, <1>2, <1>3 DEF WallInv

LEMMA WallArrive ==
    ASSUME WallInv, NEW q \in Visits, NEW p \in Wall!Paths, NEW t \in Tokens \cup {None},
           NEW k \in Keys \cup {None}, Wall!Arrive(q, p, t, k)
    PROVE  WallInv'
<1> DEFINE asks(stage) == [path |-> p, token |-> t, key |-> k, at |-> stage, stamp |-> 0, good |-> FALSE]
           v == CASE p = "public"                          -> asks("passed")
                  [] p # "public" /\ t # None              -> asks("session")
                  [] p # "public" /\ t = None /\ k # None  -> asks("apikey")
                  [] OTHER                                 -> Wall!Idle
<1>1. visit' = [visit EXCEPT ![q] = v] /\ (p = "mw" \/ k = None)
  BY DEF Wall!Arrive
<1>2. \/ p = "public" /\ v = asks("passed")
      \/ t # None /\ v = asks("session")
      \/ k # None /\ v = asks("apikey")
      \/ v = Wall!Idle
  OBVIOUS
<1>3. UNCHANGED <<clock, wallLive, lastLive, until>> /\ visit \in [Visits -> Visit] /\ clock \in Nat
  BY DEF Wall!Arrive, WallInv, Wall!TypeOK, Visit
<1>4. v \in Visit
  <2>1. \A a \in Wall!Stages : asks(a) \in Visit
    BY DEF Visit
  <2>2. Wall!Idle \in Visit
    BY DEF Visit, Wall!Idle, Wall!Paths, Wall!Stages
  <2> HIDE DEF asks, v
  <2> QED BY <1>2, <2>1, <2>2 DEF Wall!Stages
<1> HIDE DEF v
<1>5. visit' \in [Visits -> Visit] /\ visit'[q] = v /\ \A o \in Visits \ {q} : visit'[o] = visit[o]
  BY <1>1, <1>3, <1>4
<1>6. OwnOk(q)' /\ PassOk(q)'
  BY <1>1, <1>2, <1>3, <1>5 DEF OwnOk, PassOk, AtSession, AtKey, Wall!Idle
<1> QED BY <1>3, <1>5, <1>6, SameTable

LEMMA CredIs ==
    ASSUME WallInv, NEW q \in Visits
    PROVE  /\ AtSession(q) => Wall!Cred(q) = visit[q].token /\ Wall!Cred(q) \in Tokens
           /\ AtKey(q) => Wall!Cred(q) = visit[q].key /\ Wall!Cred(q) \in Keys /\ visit[q].path = "mw"
  BY DEF WallInv, ChecksOwn, AtSession, AtKey, Wall!Cred

LEMMA WallLookUp == ASSUME WallInv, NEW q \in Visits, Wall!LookUp(q) PROVE WallInv'
<1>1. /\ visit[q].at \in {"session", "apikey"} /\ UNCHANGED <<clock, wallLive, lastLive, until>>
      /\ visit[q] \in Visit /\ clock \in 1..MaxClock
  BY DEF Wall!LookUp, WallInv, Wall!TypeOK, Visit
<1>2. PICK a \in {"passed", "sessionQuery", "apikeyQuery"} :
          /\ visit' = [visit EXCEPT ![q].stamp = clock, ![q].at = a]
          /\ a = "passed" => until[Wall!Cred(q)] > clock
          /\ a = "sessionQuery" => visit[q].at = "session"
          /\ a = "apikeyQuery" => visit[q].at = "apikey"
  <2> DEFINE b == CASE until[Wall!Cred(q)] > clock -> "passed"
                    [] until[Wall!Cred(q)] <= clock /\ visit[q].at = "session" -> "sessionQuery"
                    [] OTHER -> "apikeyQuery"
  <2>1. visit' = [visit EXCEPT ![q].stamp = clock, ![q].at = b]
    BY DEF Wall!LookUp, WallInv, Wall!TypeOK
  <2>2. until[Wall!Cred(q)] \in Nat
    BY <1>1, CredIs DEF WallInv, Wall!TypeOK, Wall!Creds, AtSession, AtKey
  <2>3. /\ b \in {"passed", "sessionQuery", "apikeyQuery"}
        /\ b = "passed" => until[Wall!Cred(q)] > clock
        /\ b = "sessionQuery" => visit[q].at = "session"
        /\ b = "apikeyQuery" => visit[q].at = "apikey"
    BY <1>1, <2>2
  <2> QED BY <2>1, <2>3
<1>3. [visit[q] EXCEPT !.stamp = clock, !.at = a] \in Visit
  <2>1. a \in Wall!Stages /\ clock \in 0..MaxClock /\ visit[q] \in Visit
    BY <1>1, <1>2 DEF Wall!Stages
  <2> QED BY <2>1 DEF Visit
<1>4. /\ visit' \in [Visits -> Visit] /\ \A p \in Visits \ {q} : visit'[p] = visit[p]
      /\ visit'[q].at = a /\ visit'[q].stamp = clock /\ visit'[q].path = visit[q].path
      /\ visit'[q].token = visit[q].token /\ visit'[q].key = visit[q].key
  <2>1. visit \in [Visits -> Visit]
    BY DEF WallInv, Wall!TypeOK, Visit
  <2>2. visit' = [visit EXCEPT ![q] = [visit[q] EXCEPT !.stamp = clock, !.at = a]]
    BY <1>2, <2>1
  <2> QED BY <1>1, <1>3, <2>1, <2>2 DEF Visit
<1>5. OwnOk(q)'
  BY <1>1, <1>2, <1>4 DEF OwnOk, AtSession, AtKey, WallInv, ChecksOwn
<1>6. PassOk(q)'
  <2>1. ASSUME a = "passed" PROVE Within(q, visit[q].token)' \/ (visit[q].path = "mw" /\ Within(q, visit[q].key)')
    <3>1. Wall!Cred(q) \in Wall!Creds
      BY <1>1, CredIs DEF Wall!Creds, AtSession, AtKey
    <3>2. clock <= lastLive[Wall!Cred(q)] + WallTTL
      BY <1>1, <1>2, <2>1, <3>1 DEF WallInv, RememberedTruly, Wall!TypeOK
    <3> QED BY <1>1, <1>4, <3>1, <3>2, CredIs DEF Within, AtSession, AtKey
  <2> QED BY <1>2, <1>4, <2>1 DEF PassOk
<1> QED BY <1>1, <1>4, <1>5, <1>6, SameTable

LEMMA WallValidate ==
    ASSUME WallInv, NEW q \in Visits, Wall!ValidateSession(q) \/ Wall!ValidateKey(q) PROVE WallInv'
<1>1. PICK a \in {"sessionKnown", "apikeyKnown"} :
          /\ visit' = [visit EXCEPT ![q].good = Wall!Cred(q) \in wallLive, ![q].at = a]
          /\ a = "sessionKnown" => visit[q].at = "sessionQuery"
          /\ a = "apikeyKnown" => visit[q].at = "apikeyQuery"
          /\ UNCHANGED <<clock, wallLive, lastLive, until>>
  BY DEF Wall!ValidateSession, Wall!ValidateKey
<1> DEFINE good == Wall!Cred(q) \in wallLive
<1>2. visit[q] \in Visit /\ clock \in 1..MaxClock
  BY DEF WallInv, Wall!TypeOK, Visit
<1>3. [visit[q] EXCEPT !.good = good, !.at = a] \in Visit
  <2>1. a \in Wall!Stages /\ good \in BOOLEAN /\ visit[q] \in Visit
    BY <1>1, <1>2 DEF Wall!Stages
  <2> HIDE DEF good
  <2> QED BY <2>1 DEF Visit
<1>5. /\ visit' \in [Visits -> Visit] /\ \A p \in Visits \ {q} : visit'[p] = visit[p]
      /\ visit'[q].at = a /\ visit'[q].stamp = visit[q].stamp /\ visit'[q].path = visit[q].path
      /\ visit'[q].token = visit[q].token /\ visit'[q].key = visit[q].key /\ visit'[q].good = good
  <2>1. visit \in [Visits -> Visit]
    BY DEF WallInv, Wall!TypeOK, Visit
  <2>2. visit' = [visit EXCEPT ![q] = [visit[q] EXCEPT !.good = good, !.at = a]]
    BY <1>1, <2>1
  <2> HIDE DEF good
  <2> QED BY <1>2, <1>3, <2>1, <2>2 DEF Visit
<1>6. OwnOk(q)'
  BY <1>1, <1>5 DEF OwnOk, AtSession, AtKey, WallInv, ChecksOwn
<1>7. Wall!Cred(q)' = Wall!Cred(q) /\ Wall!Cred(q) \in Wall!Creds
  BY <1>1, <1>5, CredIs DEF Wall!Cred, AtSession, AtKey, Wall!Creds
<1>8. good => visit[q].stamp <= lastLive[Wall!Cred(q)]
  BY <1>7 DEF WallInv, RememberedTruly, ChecksOwn
<1>9. PassOk(q)'
  BY <1>1, <1>5, <1>7, <1>8 DEF PassOk
<1> QED BY <1>1, <1>5, <1>6, <1>9, SameTable

\* A good answer is remembered; a full cache is cleared first.
LEMMA WallRemember == ASSUME WallInv, NEW q \in Visits, Wall!Remember(q) PROVE WallInv'
<1> DEFINE c == Wall!Cred(q)
           entry == visit[q].stamp + WallTTL
           v == [visit[q] EXCEPT !.at = "passed", !.good = FALSE]
<1>1. /\ visit[q].at \in {"sessionKnown", "apikeyKnown"} /\ visit[q].good
      /\ until' = [Wall!Kept(c) EXCEPT ![c] = entry]
      /\ visit' = [visit EXCEPT ![q].at = "passed", ![q].good = FALSE]
      /\ UNCHANGED <<clock, wallLive, lastLive>>
  BY DEF Wall!Remember
<1>2. /\ visit \in [Visits -> Visit] /\ visit[q] \in Visit
      /\ lastLive \in [Wall!Creds -> 1..MaxClock] /\ until \in [Wall!Creds -> 0..(MaxClock + WallTTL)]
  BY DEF WallInv, Wall!TypeOK, Visit
<1>3. c \in Wall!Creds
  BY <1>1, CredIs DEF AtSession, AtKey, Wall!Creds
<1>4. visit[q].stamp <= lastLive[c]
  BY <1>1 DEF WallInv, PassedTruly
<1>5. /\ Wall!Kept(c) \in [Wall!Creds -> 0..(MaxClock + WallTTL)]
      /\ \A d \in Wall!Creds : Wall!Kept(c)[d] \in {0, until[d]}
  BY <1>2 DEF Wall!Kept
<1>6. visit[q].stamp \in 0..MaxClock /\ entry \in 0..(MaxClock + WallTTL)
  BY <1>2 DEF Visit
<1> HIDE DEF c, entry
<1>7. /\ until' \in [Wall!Creds -> 0..(MaxClock + WallTTL)]
      /\ \A d \in Wall!Creds : until'[d] \in {0, until[d]} \/ (d = c /\ until'[d] = entry)
  BY <1>1, <1>3, <1>5, <1>6
<1>8. RememberedTruly'
  <2>1. \A d \in Wall!Creds : until'[d] <= lastLive[d] + WallTTL
    BY <1>2, <1>4, <1>6, <1>7 DEF WallInv, RememberedTruly, entry
  <2> QED BY <1>1, <2>1 DEF WallInv, RememberedTruly
<1>9. v \in Visit
  BY <1>2 DEF Visit, Wall!Stages
<1>10. /\ visit' \in [Visits -> Visit] /\ \A p \in Visits \ {q} : visit'[p] = visit[p]
       /\ visit'[q].at = "passed" /\ visit'[q].stamp = visit[q].stamp /\ visit'[q].path = visit[q].path
       /\ visit'[q].token = visit[q].token /\ visit'[q].key = visit[q].key
  <2>1. visit' = [visit EXCEPT ![q] = v]
    BY <1>1, <1>2
  <2> QED BY <1>2, <1>9, <2>1 DEF Visit
<1>11. OwnOk(q)'
  BY <1>1, <1>10 DEF OwnOk, AtSession, AtKey, WallInv, ChecksOwn
<1>12. PassOk(q)'
  <2>1. visit[q].stamp <= lastLive[c] + WallTTL
    BY <1>2, <1>3, <1>4, <1>6
  <2>2. c = visit[q].token \/ (c = visit[q].key /\ visit[q].path = "mw")
    BY <1>1, CredIs DEF c, AtSession, AtKey
  <2> QED BY <1>1, <1>3, <1>10, <2>1, <2>2 DEF PassOk, Within
<1>13. ChecksOwn' /\ PassedTruly'
  BY <1>1, <1>10, <1>11, <1>12, OthersOk
<1>14. Wall!TypeOK'
  BY <1>1, <1>7, <1>10 DEF WallInv, Wall!TypeOK, Visit
<1> QED BY <1>8, <1>13, <1>14 DEF WallInv

LEMMA WallRefuse == ASSUME WallInv, NEW q \in Visits, Wall!Refuse(q) PROVE WallInv'
<1>1. /\ visit[q].at \in {"sessionKnown", "apikeyKnown"}
      /\ until' = [until EXCEPT ![Wall!Cred(q)] = 0]
      /\ visit' = [visit EXCEPT ![q] = Wall!AfterRefusal(q)]
      /\ UNCHANGED <<clock, wallLive, lastLive>>
  BY DEF Wall!Refuse
<1>2. /\ visit \in [Visits -> Visit] /\ visit[q] \in Visit /\ clock \in Nat
      /\ lastLive \in [Wall!Creds -> 1..MaxClock] /\ until \in [Wall!Creds -> 0..(MaxClock + WallTTL)]
  BY DEF WallInv, Wall!TypeOK, Visit
<1>3. \/ Wall!AfterRefusal(q) = Wall!Idle
      \/ visit[q].key # None /\ Wall!AfterRefusal(q) = [visit[q] EXCEPT !.at = "apikey", !.good = FALSE]
  BY DEF Wall!AfterRefusal
<1>4. Wall!AfterRefusal(q) \in Visit
  <2>1. Wall!Idle \in Visit
    BY DEF Visit, Wall!Idle, Wall!Paths, Wall!Stages
  <2>2. [visit[q] EXCEPT !.at = "apikey", !.good = FALSE] \in Visit
    BY <1>2 DEF Visit, Wall!Stages
  <2> QED BY <1>3, <2>1, <2>2
<1>5. /\ visit' \in [Visits -> Visit] /\ visit'[q] = Wall!AfterRefusal(q)
      /\ \A p \in Visits \ {q} : visit'[p] = visit[p]
  BY <1>1, <1>2, <1>4
<1>6. OwnOk(q)' /\ PassOk(q)'
  <2>1. CASE visit'[q] = Wall!Idle
    BY <1>1, <1>2, <2>1 DEF OwnOk, PassOk, AtSession, AtKey, Wall!Idle
  <2>2. CASE visit[q].key # None /\ visit'[q] = [visit[q] EXCEPT !.at = "apikey", !.good = FALSE]
    <3>1. /\ visit'[q].at = "apikey" /\ visit'[q].stamp = visit[q].stamp
          /\ visit'[q].path = visit[q].path /\ visit'[q].key = visit[q].key
      BY <1>2, <2>2 DEF Visit
    <3>2. visit[q].key \in Keys
      BY <1>2, <2>2 DEF Visit
    <3> QED BY <1>1, <2>2, <3>1, <3>2 DEF OwnOk, PassOk, AtSession, AtKey, WallInv, ChecksOwn
  <2> QED BY <1>3, <1>5, <2>1, <2>2
<1>7. ChecksOwn' /\ PassedTruly'
  BY <1>1, <1>5, <1>6, OthersOk
<1>8. RememberedTruly' /\ Wall!TypeOK'
  <2>1. /\ until' \in [Wall!Creds -> 0..(MaxClock + WallTTL)]
        /\ \A c \in Wall!Creds : until'[c] = until[c] \/ until'[c] = 0
    <3>1. PICK d : until' = [until EXCEPT ![d] = 0]
      BY <1>1
    <3>2. 0 \in 0..(MaxClock + WallTTL)
      OBVIOUS
    <3> QED BY <1>2, <3>1, <3>2
  <2>2. RememberedTruly'
    BY <1>1, <1>2, <2>1 DEF WallInv, RememberedTruly
  <2> QED BY <1>1, <1>5, <2>1, <2>2 DEF WallInv, Wall!TypeOK, Visit
<1> QED BY <1>7, <1>8 DEF WallInv

\* A row goes, or time passes: no request moves, and a credential was good no earlier than before.
LEMMA WallTime ==
    ASSUME WallInv,
           (\E c \in Wall!Creds : Wall!EndSession(c) \/ Wall!RevokeKey(c)) \/ Wall!Tick
    PROVE  WallInv'
<1>1. /\ UNCHANGED <<until, visit>> /\ wallLive' \subseteq wallLive
      /\ clock' \in 1..MaxClock /\ clock <= clock'
      /\ lastLive' \in [Wall!Creds -> 1..MaxClock]
      /\ \A c \in Wall!Creds : /\ lastLive[c] <= lastLive'[c] /\ lastLive'[c] <= clock'
                               /\ c \in wallLive' => lastLive'[c] = clock'
  BY DEF Wall!EndSession, Wall!RevokeKey, Wall!Tick, WallInv, Wall!TypeOK, RememberedTruly
<1>2. Wall!TypeOK'
  BY <1>1 DEF WallInv, Wall!TypeOK
<1>3. RememberedTruly' /\ ChecksOwn'
  BY <1>1 DEF WallInv, Wall!TypeOK, RememberedTruly, ChecksOwn, AtSession, AtKey
<1>4. PassedTruly'
  <2>1. \A q \in Visits : /\ visit[q].stamp \in Nat /\ Wall!Cred(q)' = Wall!Cred(q)
                          /\ \A c \in Wall!Creds : visit[q].stamp <= lastLive[c] => visit[q].stamp <= lastLive'[c]
                          /\ \A c : Within(q, c) => Within(q, c)'
    BY <1>1 DEF WallInv, Wall!TypeOK, Wall!Cred, Within
  <2>2. ASSUME NEW q \in Visits, visit[q].at \in {"sessionKnown", "apikeyKnown"}
        PROVE  Wall!Cred(q) \in Wall!Creds
    BY <2>2, CredIs DEF AtSession, AtKey, Wall!Creds
  <2> QED BY <1>1, <2>1, <2>2 DEF WallInv, PassedTruly
<1> QED BY <1>2, <1>3, <1>4 DEF WallInv

LEMMA WallStep == WallInv /\ [Wall!Next]_wallVars => WallInv'
<1>1. ASSUME WallInv, UNCHANGED wallVars PROVE WallInv'
  BY <1>1 DEF wallVars, WallInv, Wall!TypeOK, RememberedTruly, ChecksOwn, PassedTruly, AtSession, AtKey,
              Within, Wall!Cred
<1> QED BY <1>1, WallArrive, WallLookUp, WallValidate, WallRemember, WallRefuse, WallTime
        DEF Wall!Next

LEMMA WallSafe == WallInv => Wall!EndedStaysOut
<1> SUFFICES ASSUME WallInv, NEW q \in Visits, visit[q].at = "passed", visit[q].path # "public"
             PROVE  \E c \in {visit[q].token} \cup (IF visit[q].path = "mw" THEN {visit[q].key} ELSE {}) :
                        c \in Wall!Creds /\ visit[q].stamp <= lastLive[c] + WallTTL
  BY DEF Wall!EndedStaysOut
<1> QED BY DEF WallInv, PassedTruly, Within

-----------------------------------------------------------------------------
(* The broadcast of the administrators.                                    *)

USE DeskAssumption

\* The sends that wait are requests, and the flag stands only while one waits or runs.
MailTyped ==
    /\ running \in BOOLEAN /\ lock \in Acts \cup {None} /\ waiting \in Seq(Acts)
    /\ letters \in [Acts -> {"none", "all", "some"}]

DeskInv == MailTyped /\ Desk!FlagFalls

LEMMA DeskInit == Desk!Init => DeskInv
<1> SUFFICES ASSUME Desk!Init PROVE DeskInv
  OBVIOUS
<1>1. running = FALSE /\ lock = None /\ waiting = <<>> /\ letters = [a \in Acts |-> "none"]
  BY DEF Desk!Init
<1>2. waiting \in Seq(Acts)
  BY <1>1
<1>3. letters \in [Acts -> {"none", "all", "some"}]
  BY <1>1
<1> QED BY <1>1, <1>2, <1>3 DEF DeskInv, MailTyped, Desk!FlagFalls

LEMMA DeskStep == DeskInv /\ [Desk!Next]_deskVars => DeskInv'
<1> SUFFICES ASSUME DeskInv, [Desk!Next]_deskVars PROVE DeskInv'
  OBVIOUS
<1> USE DEF DeskInv, MailTyped, Desk!FlagFalls, Desk!mailVars
<1>1. CASE UNCHANGED <<running, lock, waiting, letters>>
  BY <1>1
<1>2. ASSUME NEW a \in Acts, Desk!Broadcast(a) PROVE DeskInv'
  <2>1. CASE UNCHANGED <<running, waiting>>
    BY <1>2, <2>1 DEF Desk!Broadcast
  <2>2. CASE running' = TRUE /\ waiting' = Append(waiting, a)
    <3>1. waiting' \in Seq(Acts) /\ waiting' # <<>>
      BY <2>2
    <3> QED BY <1>2, <2>2, <3>1 DEF Desk!Broadcast
  <2> QED BY <1>2, <2>1, <2>2 DEF Desk!Broadcast
<1>3. CASE Desk!BeginSend
  <2>1. Head(waiting) \in Acts /\ Tail(waiting) \in Seq(Acts)
    BY <1>3 DEF Desk!BeginSend
  <2> QED BY <1>3, <2>1 DEF Desk!BeginSend
<1>4. ASSUME NEW outcome \in {"all", "some"}, Desk!EndSend(outcome) PROVE DeskInv'
  BY <1>4 DEF Desk!EndSend
<1>5. \/ UNCHANGED <<running, lock, waiting, letters>>
      \/ \E a \in Acts : Desk!Broadcast(a)
      \/ Desk!BeginSend
      \/ \E outcome \in {"all", "some"} : Desk!EndSend(outcome)
  <2>1. ASSUME NEW a \in Acts, NEW k, NEW p, NEW t, Desk!Ask(a, k, p, t)
        PROVE  UNCHANGED <<running, lock, waiting, letters>>
    BY <2>1 DEF Desk!Ask
  <2>2. ASSUME NEW a \in Acts,
               \/ Desk!Target(a) \/ Desk!CheckUpdate(a) \/ Desk!SetAdmin(a) \/ Desk!CheckDelete(a)
               \/ Desk!DeleteAccount(a)
        PROVE  UNCHANGED <<running, lock, waiting, letters>>
    BY <2>2 DEF Desk!Target, Desk!CheckUpdate, Desk!SetAdmin, Desk!CheckDelete, Desk!DeleteAccount
  <2>3. CASE Desk!BootstrapAdmins \/ Desk!WipeDemoData
    BY <2>3 DEF Desk!BootstrapAdmins, Desk!WipeDemoData
  <2> QED BY <2>1, <2>2, <2>3 DEF Desk!Next, deskVars
<1> QED BY <1>1, <1>2, <1>3, <1>4, <1>5

Role   == {"gone", "user", "admin"}
AnAct  == [kind : Desk!Kinds \cup {"none"}, by : People \cup {None}, target : People \cup {None},
           at : Desk!Stages, was : Role]

\* A request about an account names one.
DeskTyped ==
    /\ role \in [People -> Role] /\ act \in [Acts -> AnAct] /\ starts \in 0..MaxStart
    /\ \A a \in Acts : act[a].kind \notin {"none", "mail"} => act[a].target \in People

LEMMA DeskTypedInit == Desk!Init => DeskTyped
<1> SUFFICES ASSUME Desk!Init PROVE DeskTyped
  OBVIOUS
<1>1. role \in [People -> Role]
  BY DEF Desk!Init, Role
<1>2. act \in [Acts -> AnAct] /\ \A a \in Acts : act[a].kind = "none"
  BY DEF Desk!Init, AnAct, Role, Desk!Stages
<1>3. starts \in 0..MaxStart
  BY DeskAssumption DEF Desk!Init
<1> QED BY <1>1, <1>2, <1>3 DEF DeskTyped

\* A request that goes on to another stage stays what it is.
LEMMA ActGoes ==
    ASSUME DeskTyped, NEW a \in Acts, NEW stage \in Desk!Stages, act' = [act EXCEPT ![a].at = stage],
           role' \in [People -> Role], starts' \in 0..MaxStart
    PROVE  DeskTyped'
<1> DEFINE y == [act[a] EXCEPT !.at = stage]
<1>1. y \in AnAct /\ y.kind = act[a].kind /\ y.target = act[a].target
  BY DEF DeskTyped, AnAct
<1>2. act' = [act EXCEPT ![a] = y] /\ act \in [Acts -> AnAct]
  BY DEF DeskTyped
<1> HIDE DEF y
<1> QED BY <1>1, <1>2 DEF DeskTyped

LEMMA DeskTypedStep == DeskTyped /\ MailTyped /\ [Desk!Next]_deskVars => DeskTyped'
<1> SUFFICES ASSUME DeskTyped, MailTyped, [Desk!Next]_deskVars PROVE DeskTyped'
  OBVIOUS
<1>1. /\ role \in [People -> Role] /\ act \in [Acts -> AnAct] /\ starts \in 0..MaxStart
      /\ \A a \in Acts : act[a].kind \notin {"none", "mail"} => act[a].target \in People
  BY DEF DeskTyped
<1>2. ASSUME NEW a \in Acts, NEW k \in Desk!Kinds, NEW p \in People, NEW t \in People \cup {None},
             Desk!Ask(a, k, p, t)
      PROVE  DeskTyped'
  <2> DEFINE stage == CASE k \in {"promote", "demote"} -> "target"
                        [] k = "delete"                -> "check"
                        [] k = "leave"                 -> "write"
                        [] OTHER -> IF running THEN "done" ELSE "recipients"
             y == [act[a] EXCEPT !.kind = k, !.by = p, !.target = t, !.at = stage]
  <2>1. stage \in Desk!Stages
    BY DEF Desk!Stages
  <2>2. act' = [act EXCEPT ![a] = y] /\ (k = "mail") = (t = None) /\ UNCHANGED <<role, starts>>
    BY <1>2 DEF Desk!Ask
  <2> HIDE DEF stage
  <2>3. y \in AnAct /\ y.kind = k /\ y.target = t
    BY <1>1, <2>1 DEF AnAct
  <2>4. k # "mail" => t \in People
    BY <2>2
  <2> HIDE DEF y
  <2> QED BY <1>1, <2>2, <2>3, <2>4 DEF DeskTyped
<1>3. ASSUME NEW a \in Acts, Desk!Target(a) PROVE DeskTyped'
  <2> DEFINE stage == IF role[act[a].target] = "gone" THEN "done" ELSE "check"
             y == [act[a] EXCEPT !.was = role[act[a].target], !.at = stage]
  <2>1. act' = [act EXCEPT ![a] = y] /\ act[a].kind \in {"promote", "demote"} /\ UNCHANGED <<role, starts>>
    BY <1>3 DEF Desk!Target, Desk!At
  <2>2. role[act[a].target] \in Role /\ stage \in Desk!Stages
    BY <1>1, <2>1 DEF Desk!Stages
  <2> HIDE DEF stage
  <2>3. y \in AnAct /\ y.kind = act[a].kind /\ y.target = act[a].target
    BY <1>1, <2>2 DEF AnAct
  <2> HIDE DEF y
  <2> QED BY <1>1, <2>1, <2>3 DEF DeskTyped
<1>4. ASSUME NEW a \in Acts, Desk!CheckUpdate(a) \/ Desk!CheckDelete(a) PROVE DeskTyped'
  <2>1. UNCHANGED <<role, starts>>
        /\ \E stage \in {"done", "write"} : act' = [act EXCEPT ![a].at = stage]
    BY <1>4 DEF Desk!CheckUpdate, Desk!CheckDelete, Desk!Goes
  <2> QED BY <1>1, <2>1, ActGoes DEF Desk!Stages
<1>5. ASSUME NEW a \in Acts, Desk!SetAdmin(a) \/ Desk!DeleteAccount(a) PROVE DeskTyped'
  <2>1. act' = [act EXCEPT ![a].at = "done"] /\ starts' = starts
    BY <1>5 DEF Desk!SetAdmin, Desk!DeleteAccount, Desk!Goes
  <2>2. role' \in [People -> Role]
    BY <1>1, <1>5 DEF Desk!SetAdmin, Desk!DeleteAccount, Role
  <2> QED BY <1>1, <2>1, <2>2, ActGoes DEF Desk!Stages
<1>6. ASSUME NEW a \in Acts, Desk!Broadcast(a) PROVE DeskTyped'
  <2>1. UNCHANGED <<role, starts>>
        /\ \E stage \in {"done", "queued"} : act' = [act EXCEPT ![a].at = stage]
    BY <1>6 DEF Desk!Broadcast, Desk!Goes
  <2> QED BY <1>1, <2>1, ActGoes DEF Desk!Stages
<1>7. CASE Desk!BootstrapAdmins
  BY <1>1, <1>7, DeskAssumption DEF Desk!BootstrapAdmins, DeskTyped, Role
<1>8. CASE Desk!WipeDemoData
  BY <1>1, <1>8 DEF Desk!WipeDemoData, DeskTyped, Role
<1>9. CASE UNCHANGED deskVars
  BY <1>1, <1>9 DEF deskVars, DeskTyped
<1>10. ASSUME Desk!BeginSend \/ \E outcome \in {"all", "some"} : Desk!EndSend(outcome)
       PROVE  DeskTyped'
  <2>1. /\ \E a \in Acts, stage \in {"sending", "done"} : act' = [act EXCEPT ![a].at = stage]
        /\ UNCHANGED <<role, starts>>
    <3>1. CASE Desk!BeginSend
      <4>1. waiting \in Seq(Acts) /\ waiting # <<>>
        BY <3>1 DEF MailTyped, Desk!BeginSend
      <4>2. Head(waiting) \in Acts
        BY <4>1
      <4> QED BY <3>1, <4>2 DEF Desk!BeginSend, Desk!Goes
    <3>2. ASSUME NEW outcome, Desk!EndSend(outcome)
          PROVE  /\ \E a \in Acts, stage \in {"sending", "done"} : act' = [act EXCEPT ![a].at = stage]
                 /\ UNCHANGED <<role, starts>>
      <4>1. lock \in Acts
        BY <3>2 DEF MailTyped, Desk!EndSend
      <4> QED BY <3>2, <4>1 DEF Desk!EndSend, Desk!Goes
    <3> QED BY <1>10, <3>1, <3>2
  <2> QED BY <1>1, <2>1, ActGoes DEF Desk!Stages
<1>11. CASE Desk!Next
  BY <1>2, <1>3, <1>4, <1>5, <1>6, <1>7, <1>8, <1>10, <1>11 DEF Desk!Next
<1> QED BY <1>9, <1>11

-----------------------------------------------------------------------------
(* Passwords, mailed links and the accounts they belong to.                *)

USE LinksAssumption

Asked == [kind : Credential!Kinds \cup {"none"}, owner : Owners \cup {None},
          word : Words \cup {None}, link : Links \cup {None}, at : Credential!Stages,
          answer : {0, 200, 400, 401, 403, 404, 500}, drops : SUBSET Links]
Account == [exists : BOOLEAN, word : Words, weak : BOOLEAN, verified : BOOLEAN]
Letter == [owner : Owners \cup {None}, purpose : {"verify", "reset", "none"}, live : BOOLEAN]

LinksTyped ==
    /\ acct \in [Owners -> Account] /\ mailed \in [Links -> Letter]
    /\ opened \subseteq Requests /\ linkFlow \in [Requests -> Asked]

LEMMA CredentialTyped == Credential!TypeOK <=> LinksTyped
  BY DEF Credential!TypeOK, LinksTyped, Asked, Account, Letter

\* What a request carries: a link that was mailed, or the account it is about.
Carries(f) ==
    /\ linkFlow[f].at = "none" => linkFlow[f].link = None /\ linkFlow[f].owner = None
    /\ linkFlow[f].link # None => mailed[linkFlow[f].link].owner # None
    /\ linkFlow[f].at = "consume" => linkFlow[f].link # None /\ linkFlow[f].owner = None
    /\ linkFlow[f].at \notin {"none", "consume", "done"} => linkFlow[f].owner # None
    /\ linkFlow[f].at \in {"none", "read", "rehash", "drop", "insert", "erase"} => linkFlow[f].link = None
    /\ linkFlow[f].at \in {"read", "rehash", "drop", "insert", "erase"} =>
          linkFlow[f].kind \notin {"verify", "reset"}
    /\ linkFlow[f].at = "session" => linkFlow[f].kind \in {"login", "verify"}
    /\ linkFlow[f].at \in {"rehash", "password"} => linkFlow[f].word \in Words
    /\ linkFlow[f].at = "consume" /\ linkFlow[f].kind = "reset" => linkFlow[f].word \in Words

\* The request that consumed link l.
Served(l, f) == linkFlow[f].link = l /\ linkFlow[f].at # "consume" /\ linkFlow[f].owner # None

\* A link is gone once it has served a request, which was of its kind and is about its account.
LinkSpent ==
    \A l \in Links : \A f \in Requests : Served(l, f) =>
        /\ ~mailed[l].live
        /\ linkFlow[f].kind = mailed[l].purpose /\ linkFlow[f].owner = mailed[l].owner
        /\ \A g \in Requests : Served(l, g) => g = f

\* What is there of an account: sessions of finished sign-ins, and live links.
AccountHeld ==
    /\ \A f \in opened : /\ linkFlow[f].at = "done" /\ linkFlow[f].owner # None
                         /\ acct[linkFlow[f].owner].exists
    /\ \A l \in Links : mailed[l].live => mailed[l].owner # None /\ acct[mailed[l].owner].exists

LinksInv == LinksTyped /\ (\A f \in Requests : Carries(f)) /\ LinkSpent /\ AccountHeld

LEMMA LinksInit == Credential!Init => LinksInv
<1> SUFFICES ASSUME Credential!Init PROVE LinksInv
  OBVIOUS
<1>1. LinksTyped
  <2>1. acct \in [Owners -> Account]
    <3>1. [exists : {TRUE}, word : {OldWord}, weak : BOOLEAN, verified : BOOLEAN] \subseteq Account
      BY DEF Account
    <3> QED BY <3>1 DEF Credential!Init
  <2>2. mailed \in [Links -> Letter]
    <3>1. [owner |-> None, purpose |-> "none", live |-> FALSE] \in Letter
      BY DEF Letter
    <3> QED BY <3>1 DEF Credential!Init
  <2>3. linkFlow \in [Requests -> Asked]
    <3>1. [kind |-> "none", owner |-> None, word |-> None, link |-> None, at |-> "none", answer |-> 0,
           drops |-> {}] \in Asked
      BY DEF Asked, Credential!Kinds, Credential!Stages
    <3> QED BY <3>1 DEF Credential!Init
  <2> QED BY <2>1, <2>2, <2>3 DEF LinksTyped, Credential!Init
<1>2. (\A f \in Requests : Carries(f)) /\ LinkSpent /\ AccountHeld
  BY DEF Credential!Init, Carries, LinkSpent, Served, AccountHeld
<1> QED BY <1>1, <1>2 DEF LinksInv

\* Request f goes on to a stage with all that it carries; the other requests stand still.
Rest(f) == linkFlow' \in [Requests -> Asked] /\ \A g \in Requests \ {f} : linkFlow'[g] = linkFlow[g]
Moves(f, stage) ==
    /\ Rest(f) /\ linkFlow'[f].at = stage
    /\ linkFlow'[f].kind = linkFlow[f].kind /\ linkFlow'[f].owner = linkFlow[f].owner
    /\ linkFlow'[f].word = linkFlow[f].word /\ linkFlow'[f].link = linkFlow[f].link

LEMMA GoesOn ==
    ASSUME LinksTyped, NEW f \in Requests, NEW stage \in Credential!Stages, Credential!Goes(f, stage)
    PROVE  Moves(f, stage)
<1> DEFINE r == [linkFlow[f] EXCEPT !.at = stage]
<1>1. r \in Asked
  BY DEF LinksTyped, Asked
<1>2. linkFlow' = [linkFlow EXCEPT ![f] = r]
  BY DEF Credential!Goes
<1>3. /\ r.at = stage /\ r.kind = linkFlow[f].kind /\ r.owner = linkFlow[f].owner
      /\ r.word = linkFlow[f].word /\ r.link = linkFlow[f].link
  BY DEF LinksTyped, Asked
<1> HIDE DEF r
<1> QED BY <1>1, <1>2, <1>3 DEF Moves, Rest, LinksTyped

LEMMA AnswersNow ==
    ASSUME LinksTyped, NEW f \in Requests, NEW reply \in {200, 400, 401, 403, 404, 500},
           Credential!Answers(f, reply)
    PROVE  Moves(f, "done")
<1> DEFINE q0 == [linkFlow EXCEPT ![f].at = "done"]
           q1 == [q0 EXCEPT ![f].answer = reply]
           q2 == [q1 EXCEPT ![f].drops = {}]
           Like(q) == /\ q \in [Requests -> Asked] /\ q[f].at = "done"
                      /\ \A g \in Requests \ {f} : q[g] = linkFlow[g]
                      /\ q[f].kind = linkFlow[f].kind /\ q[f].owner = linkFlow[f].owner
                      /\ q[f].word = linkFlow[f].word /\ q[f].link = linkFlow[f].link
<1>1. linkFlow \in [Requests -> Asked]
  BY DEF LinksTyped
<1>2. Like(q0)
  BY <1>1 DEF Asked, Credential!Stages
<1>3. Like(q1)
  <2> HIDE DEF q0
  <2> QED BY <1>2 DEF Asked
<1>4. Like(q2)
  <2> HIDE DEF q1
  <2> QED BY <1>3 DEF Asked
<1>5. linkFlow' = q2
  BY DEF Credential!Answers
<1> QED BY <1>4, <1>5 DEF Moves, Rest

\* A link that was mailed keeps its account and its purpose, and is never live again.
Decays ==
    \A l \in Links : mailed[l].owner # None =>
        /\ mailed'[l].owner = mailed[l].owner /\ mailed'[l].purpose = mailed[l].purpose
        /\ mailed'[l].live => mailed[l].live

LEMMA OthersCarry ==
    ASSUME LinksInv, NEW f \in Requests, Rest(f), Decays, Carries(f)'
    PROVE  (\A g \in Requests : Carries(g))'
<1> SUFFICES ASSUME NEW g \in Requests, g # f PROVE Carries(g)'
  OBVIOUS
<1>1. Carries(g) /\ linkFlow'[g] = linkFlow[g]
  BY DEF LinksInv, Rest
<1>2. linkFlow[g].link # None => linkFlow[g].link \in Links
  BY DEF LinksInv, LinksTyped, Asked
<1> QED BY <1>1, <1>2 DEF Carries, Decays

LEMMA SpentKept ==
    ASSUME LinksInv, NEW f \in Requests, Rest(f), Decays,
           \A l \in Links : Served(l, f)' => /\ Served(l, f)
                                            /\ linkFlow'[f].kind = linkFlow[f].kind
                                            /\ linkFlow'[f].owner = linkFlow[f].owner
    PROVE  LinkSpent'
<1>1. ASSUME NEW l \in Links, NEW g \in Requests, Served(l, g)'
      PROVE  /\ Served(l, g)
             /\ linkFlow'[g].kind = linkFlow[g].kind /\ linkFlow'[g].owner = linkFlow[g].owner
  BY <1>1 DEF Rest, Served
<1>2. ASSUME NEW l \in Links, NEW g \in Requests, Served(l, g) PROVE mailed[l].owner # None
  BY <1>2 DEF LinksInv, Carries, Served
<1>3. ASSUME NEW l \in Links, NEW g \in Requests, Served(l, g)'
      PROVE  /\ ~mailed'[l].live
             /\ linkFlow'[g].kind = mailed'[l].purpose /\ linkFlow'[g].owner = mailed'[l].owner
             /\ \A h \in Requests : Served(l, h)' => h = g
  <2>1. Served(l, g) /\ mailed[l].owner # None
    BY <1>1, <1>2, <1>3
  <2> QED BY <1>1, <1>3, <2>1 DEF LinksInv, LinkSpent, Decays
<1> QED BY <1>3 DEF LinkSpent

LEMMA HeldKept ==
    ASSUME LinksInv, NEW f \in Requests, Rest(f), Decays, f \notin opened, opened' \subseteq opened,
           \A o \in Owners : acct[o].exists => acct'[o].exists,
           \A l \in Links : mailed[l].owner = None => mailed'[l] = mailed[l]
    PROVE  AccountHeld'
<1>1. ASSUME NEW g \in opened' PROVE linkFlow'[g].at = "done" /\ linkFlow'[g].owner # None
                                     /\ acct'[linkFlow'[g].owner].exists
  <2>1. g \in opened /\ g \in Requests /\ linkFlow'[g] = linkFlow[g] /\ linkFlow[g] \in Asked
    BY <1>1 DEF Rest, LinksInv, LinksTyped
  <2>2. linkFlow[g].at = "done" /\ linkFlow[g].owner # None /\ acct[linkFlow[g].owner].exists
    BY <2>1 DEF LinksInv, AccountHeld
  <2> QED BY <2>1, <2>2 DEF Asked
<1>2. ASSUME NEW l \in Links, mailed'[l].live
      PROVE  mailed'[l].owner # None /\ acct'[mailed'[l].owner].exists
  <2>1. mailed[l].live /\ mailed'[l].owner = mailed[l].owner /\ mailed[l].owner # None
    BY <1>2 DEF LinksInv, AccountHeld, Decays
  <2>2. mailed[l].owner \in Owners
    BY <2>1 DEF LinksInv, LinksTyped, Letter
  <2> QED BY <2>1, <2>2 DEF LinksInv, AccountHeld
<1> QED BY <1>1, <1>2 DEF AccountHeld

\* A request goes on, and no link and no session is made.
LEMMA Onward ==
    ASSUME LinksInv, NEW f \in Requests, NEW stage \in Credential!Stages, Moves(f, stage),
           linkFlow[f].at # "done", UNCHANGED mailed, opened' \subseteq opened,
           acct' \in [Owners -> Account], \A o \in Owners : acct[o].exists => acct'[o].exists,
           Carries(f)'
    PROVE  LinksInv'
<1>1. Rest(f) /\ Decays /\ f \notin opened
  BY DEF Moves, Decays, LinksInv, AccountHeld
<1>2. \A l \in Links : Served(l, f)' => /\ Served(l, f)
                                       /\ linkFlow'[f].kind = linkFlow[f].kind
                                       /\ linkFlow'[f].owner = linkFlow[f].owner
  BY DEF Served, Moves, LinksInv, Carries
<1>3. (\A g \in Requests : Carries(g))' /\ LinkSpent'
  BY <1>1, <1>2, OthersCarry, SpentKept
<1>4. AccountHeld'
  BY <1>1, HeldKept
<1>5. LinksTyped'
  BY <1>1 DEF LinksTyped, LinksInv, Rest
<1> QED BY <1>3, <1>4, <1>5 DEF LinksInv

\* What the stage of a request says of it.
LEMMA AtStage ==
    ASSUME LinksInv, NEW f \in Requests
    PROVE  /\ Carries(f) /\ LinksTyped /\ linkFlow[f] \in Asked
           /\ linkFlow[f].at \notin {"none", "consume", "done"} => linkFlow[f].owner \in Owners
           /\ linkFlow[f].at \in {"rehash", "password"} => linkFlow[f].word \in Words
           /\ linkFlow[f].link # None => linkFlow[f].link \in Links
  BY DEF LinksInv, LinksTyped, Asked, Carries

LEMMA LoginReadsKeeps ==
    ASSUME LinksInv, NEW f \in Requests, Credential!LoginReads(f) PROVE LinksInv'
<1> DEFINE a == acct[linkFlow[f].owner]
<1>1. /\ linkFlow[f].at = "read" /\ linkFlow[f].kind = "login" /\ UNCHANGED <<acct, mailed, opened>>
      /\ LinksTyped /\ linkFlow[f].owner \in Owners /\ linkFlow[f].link = None
  BY AtStage DEF Credential!LoginReads, Credential!At, Carries
<1>2. \/ Moves(f, "done")
      \/ a.exists /\ a.word = linkFlow[f].word /\ (Moves(f, "rehash") \/ Moves(f, "session"))
  BY <1>1, GoesOn, AnswersNow DEF Credential!LoginReads, Credential!Stages
<1>3. PICK s \in {"done", "rehash", "session"} : Moves(f, s) /\ (s = "rehash" => linkFlow[f].word \in Words)
  BY <1>1, <1>2 DEF LinksTyped, Account
<1>4. Carries(f)' /\ s \in Credential!Stages
  BY <1>1, <1>3 DEF Carries, Moves, Credential!Stages
<1> QED BY <1>1, <1>3, <1>4, Onward DEF LinksTyped

LEMMA RehashKeeps ==
    ASSUME LinksInv, NEW f \in Requests,
           \/ Credential!Rehash(f)
           \/ Credential!SetPassword(f)
    PROVE  LinksInv'
<1> DEFINE o == linkFlow[f].owner
<1>1. /\ \/ linkFlow[f].at = "rehash" /\ linkFlow[f].kind = "login"
         \/ linkFlow[f].at = "password" /\ linkFlow[f].kind = "reset"
      /\ UNCHANGED <<mailed, opened>>
  BY DEF Credential!Rehash, Credential!SetPassword, Credential!At
<1>2. LinksTyped /\ o \in Owners /\ linkFlow[f].word \in Words /\ Carries(f)
  BY <1>1, AtStage
<1>3. PICK s \in {"session", "verified"} : Moves(f, s) /\ (s = "session" <=> linkFlow[f].kind = "login")
  BY <1>1, <1>2, GoesOn DEF Credential!Rehash, Credential!SetPassword, Credential!Stages, Credential!At
<1>4. acct' \in [Owners -> Account] /\ \A p \in Owners : acct[p].exists => acct'[p].exists
  <2>1. PICK w \in Words : acct' = [acct EXCEPT ![o].word = w, ![o].weak = FALSE]
    BY <1>1, <1>2 DEF Credential!Rehash, Credential!SetPassword, LinksTyped, Account
  <2> DEFINE q0 == [acct EXCEPT ![o].word = w]
             q1 == [q0 EXCEPT ![o].weak = FALSE]
             Like(q) == q \in [Owners -> Account] /\ \A p \in Owners : q[p].exists = acct[p].exists
  <2>2. Like(q0)
    BY <1>1, <1>2 DEF LinksTyped, Account
  <2>3. Like(q1)
    <3> HIDE DEF q0
    <3> DEFINE r == [q0[o] EXCEPT !.weak = FALSE]
    <3>1. r \in Account /\ r.exists = acct[o].exists
      <4>1. q0[o] \in Account /\ q0[o].exists = acct[o].exists
        BY <1>2, <2>2
      <4>2. r \in Account
        BY <4>1 DEF Account
      <4>3. r.exists = q0[o].exists
        BY <4>1 DEF Account
      <4> QED BY <4>1, <4>2, <4>3
    <3>2. q1 = [q0 EXCEPT ![o] = r]
      OBVIOUS
    <3> QED BY <1>2, <2>2, <3>1, <3>2
  <2>4. acct' = q1
    BY <2>1
  <2> QED BY <2>3, <2>4
<1>5. Carries(f)' /\ s \in Credential!Stages
  BY <1>1, <1>3, <1>2 DEF Carries, Moves, Credential!Stages
<1> QED BY <1>1, <1>3, <1>4, <1>5, <1>2, Onward

LEMMA AskForLinkKeeps ==
    ASSUME LinksInv, NEW f \in Requests, Credential!AskForLink(f) PROVE LinksInv'
<1>1. /\ linkFlow[f].at = "read" /\ linkFlow[f].kind \in {"resend", "forgot"}
      /\ UNCHANGED <<acct, mailed, opened>>
      /\ LinksTyped /\ linkFlow[f].owner \in Owners /\ Carries(f)
  BY AtStage DEF Credential!AskForLink, Credential!At
<1>2. PICK s \in {"done", "drop"} : Moves(f, s)
  BY <1>1, GoesOn, AnswersNow DEF Credential!AskForLink, Credential!Stages
<1>3. Carries(f)' /\ s \in Credential!Stages
  BY <1>1, <1>2 DEF Carries, Moves, Credential!Stages
<1> QED BY <1>1, <1>2, <1>3, Onward DEF LinksTyped

LEMMA SetVerifiedKeeps ==
    ASSUME LinksInv, NEW f \in Requests, Credential!SetVerified(f) PROVE LinksInv'
<1> DEFINE o == linkFlow[f].owner
<1>1. /\ linkFlow[f].at = "verified" /\ linkFlow[f].kind \in {"verify", "reset"}
      /\ UNCHANGED <<mailed, opened>>
      /\ LinksTyped /\ o \in Owners /\ Carries(f)
  BY AtStage DEF Credential!SetVerified, Credential!At
<1>2. PICK s \in {"done", "revoke", "session"} :
          /\ Moves(f, s)
          /\ s = "revoke" => linkFlow[f].kind = "reset"
          /\ s = "session" => linkFlow[f].kind = "verify"
  BY <1>1, GoesOn, AnswersNow DEF Credential!SetVerified, Credential!Stages
<1>3. acct' \in [Owners -> Account] /\ \A p \in Owners : acct[p].exists => acct'[p].exists
  BY <1>1 DEF Credential!SetVerified, LinksTyped, Account
<1>4. Carries(f)' /\ s \in Credential!Stages
  BY <1>1, <1>2 DEF Carries, Moves, Credential!Stages
<1> QED BY <1>1, <1>2, <1>3, <1>4, Onward

LEMMA OpenSessionKeeps ==
    ASSUME LinksInv, NEW f \in Requests, Credential!OpenSession(f) PROVE LinksInv'
<1>1. /\ linkFlow[f].at = "session" /\ linkFlow[f].kind \in {"login", "verify"}
      /\ UNCHANGED <<acct, mailed>>
  BY DEF Credential!OpenSession, Credential!At
<1>2. LinksTyped /\ linkFlow[f].owner \in Owners /\ Carries(f)
  BY <1>1, AtStage
<1>3. Moves(f, "done")
  BY <1>2, AnswersNow DEF Credential!OpenSession
<1>4. Carries(f)' /\ "done" \in Credential!Stages
  BY <1>1, <1>2, <1>3 DEF Carries, Moves, Credential!Stages
<1>5. CASE UNCHANGED opened
  BY <1>1, <1>2, <1>3, <1>4, <1>5, Onward DEF LinksTyped
<1>6. CASE acct[linkFlow[f].owner].exists /\ opened' = opened \cup {f}
  <2>1. Rest(f) /\ Decays
    BY <1>1, <1>3 DEF Moves, Decays
  <2>2. (\A g \in Requests : Carries(g))'
    BY <1>4, <2>1, OthersCarry
  <2>3. LinkSpent'
    <3>1. \A l \in Links : Served(l, f)' => /\ Served(l, f)
                                           /\ linkFlow'[f].kind = linkFlow[f].kind
                                           /\ linkFlow'[f].owner = linkFlow[f].owner
      BY <1>1, <1>3 DEF Served, Moves
    <3> QED BY <2>1, <3>1, SpentKept
  <2>4. AccountHeld'
    <3>1. ASSUME NEW g \in opened, g # f
          PROVE  linkFlow'[g].at = "done" /\ linkFlow'[g].owner # None /\ acct'[linkFlow'[g].owner].exists
      BY <1>1, <1>2, <2>1, <3>1 DEF LinksInv, AccountHeld, Rest, LinksTyped
    <3>2. linkFlow'[f].at = "done" /\ linkFlow'[f].owner # None /\ acct'[linkFlow'[f].owner].exists
      BY <1>1, <1>2, <1>3, <1>6 DEF Moves, Carries
    <3>3. \A l \in Links : mailed'[l].live => mailed'[l].owner # None /\ acct'[mailed'[l].owner].exists
      BY <1>1 DEF LinksInv, AccountHeld
    <3> QED BY <1>6, <3>1, <3>2, <3>3 DEF AccountHeld
  <2>5. LinksTyped'
    BY <1>1, <1>2, <1>6, <2>1 DEF LinksTyped, Rest
  <2> QED BY <2>2, <2>3, <2>4, <2>5 DEF LinksInv
<1> QED BY <1>5, <1>6 DEF Credential!OpenSession

LEMMA DropOlderKeeps ==
    ASSUME LinksInv, NEW f \in Requests, Credential!DropOlder(f) PROVE LinksInv'
<1>1. /\ linkFlow[f].at = "drop" /\ linkFlow[f].kind \in {"resend", "forgot"}
      /\ UNCHANGED <<acct, mailed, opened>>
  BY DEF Credential!DropOlder, Credential!At
<1>2. LinksTyped /\ linkFlow[f].owner \in Owners /\ Carries(f) /\ linkFlow[f] \in Asked
  BY <1>1, AtStage
<1>3. Moves(f, "insert")
  <2> DEFINE older == {l \in Links : /\ mailed[l].live
                                     /\ mailed[l].owner = linkFlow[f].owner
                                     /\ mailed[l].purpose = Credential!Purpose(f)}
             q0 == [linkFlow EXCEPT ![f].at = "insert"]
             q1 == [q0 EXCEPT ![f].drops = older]
             Like(q) == /\ q \in [Requests -> Asked] /\ q[f].at = "insert"
                        /\ \A g \in Requests \ {f} : q[g] = linkFlow[g]
                        /\ q[f].kind = linkFlow[f].kind /\ q[f].owner = linkFlow[f].owner
                        /\ q[f].word = linkFlow[f].word /\ q[f].link = linkFlow[f].link
  <2>1. Like(q0)
    BY <1>2 DEF LinksTyped, Asked, Credential!Stages
  <2>2. older \in SUBSET Links
    OBVIOUS
  <2>3. Like(q1)
    <3> HIDE DEF q0, older
    <3> QED BY <2>1, <2>2 DEF Asked
  <2>4. linkFlow' = q1
    BY DEF Credential!DropOlder
  <2> QED BY <2>3, <2>4 DEF Moves, Rest
<1>4. Carries(f)' /\ "insert" \in Credential!Stages
  BY <1>1, <1>2, <1>3 DEF Carries, Moves, Credential!Stages
<1> QED BY <1>1, <1>2, <1>3, <1>4, Onward DEF LinksTyped

LEMMA RevokeSessionsKeeps ==
    ASSUME LinksInv, NEW f \in Requests,
           \/ Credential!RevokeSessions(f)
           \/ Credential!ConfirmOwner(f)
    PROVE  LinksInv'
<1>1. /\ \/ linkFlow[f].at = "revoke" /\ linkFlow[f].kind = "reset"
         \/ linkFlow[f].at = "read" /\ linkFlow[f].kind = "delete"
      /\ UNCHANGED <<acct, mailed>> /\ opened' \subseteq opened
  BY DEF Credential!RevokeSessions, Credential!ConfirmOwner, Credential!At
<1>2. LinksTyped /\ linkFlow[f].owner \in Owners /\ Carries(f)
  BY <1>1, AtStage
<1>3. PICK s \in {"done", "erase"} : Moves(f, s) /\ (s = "erase" => linkFlow[f].kind = "delete")
  BY <1>2, GoesOn, AnswersNow
     DEF Credential!RevokeSessions, Credential!ConfirmOwner, Credential!At, Credential!Stages
<1>4. Carries(f)' /\ s \in Credential!Stages
  BY <1>1, <1>2, <1>3 DEF Carries, Moves, Credential!Stages
<1> QED BY <1>1, <1>2, <1>3, <1>4, Onward DEF LinksTyped

LEMMA LogoutKeeps == ASSUME LinksInv, NEW g \in Requests, Credential!Logout(g) PROVE LinksInv'
<1>1. UNCHANGED <<acct, mailed, linkFlow>> /\ opened' \subseteq opened
  BY DEF Credential!Logout
<1>2. LinksTyped' /\ (\A f \in Requests : Carries(f))'
  BY <1>1 DEF LinksInv, LinksTyped, Carries
<1>3. LinkSpent'
  BY <1>1 DEF LinksInv, LinkSpent, Served
<1>4. AccountHeld'
  BY <1>1 DEF LinksInv, AccountHeld
<1> QED BY <1>2, <1>3, <1>4 DEF LinksInv

LEMMA EraseKeeps == ASSUME LinksInv, NEW f \in Requests, Credential!Erase(f) PROVE LinksInv'
<1> DEFINE o == linkFlow[f].owner
<1>1. /\ linkFlow[f].at = "erase" /\ linkFlow[f].kind = "delete"
      /\ acct' = [acct EXCEPT ![o].exists = FALSE]
      /\ opened' = {g \in opened : linkFlow[g].owner # o}
      /\ mailed' = [l \in Links |-> IF mailed[l].owner = o THEN [mailed[l] EXCEPT !.live = FALSE]
                                    ELSE mailed[l]]
  BY DEF Credential!Erase, Credential!At
<1>2. LinksTyped /\ o \in Owners /\ Carries(f)
  BY <1>1, AtStage
<1>3. Moves(f, "done")
  <2>1. PICK reply \in {200, 404} : Credential!Answers(f, reply)
    BY DEF Credential!Erase
  <2> QED BY <1>2, <2>1, AnswersNow
<1>4. \A l \in Links : /\ mailed'[l] \in Letter
                       /\ mailed'[l].owner = mailed[l].owner /\ mailed'[l].purpose = mailed[l].purpose
                       /\ mailed'[l].live => mailed[l].live /\ mailed[l].owner # o
  BY <1>1, <1>2, ZenonT(30) DEF LinksTyped, Letter
<1>5. Rest(f) /\ Decays
  BY <1>3, <1>4 DEF Moves, Decays
<1>6. (\A g \in Requests : Carries(g))'
  <2>1. Carries(f)'
    BY <1>1, <1>2, <1>3 DEF Carries, Moves
  <2> QED BY <1>5, <2>1, OthersCarry
<1>7. LinkSpent'
  <2>1. \A l \in Links : Served(l, f)' => /\ Served(l, f)
                                         /\ linkFlow'[f].kind = linkFlow[f].kind
                                         /\ linkFlow'[f].owner = linkFlow[f].owner
    BY <1>1, <1>3 DEF Served, Moves
  <2> QED BY <1>5, <2>1, SpentKept
<1>8. AccountHeld'
  <2>1. \A p \in Owners : p # o => acct'[p] = acct[p]
    BY <1>1, <1>2 DEF LinksTyped
  <2>2. ASSUME NEW g \in opened'
        PROVE  linkFlow'[g].at = "done" /\ linkFlow'[g].owner # None /\ acct'[linkFlow'[g].owner].exists
    <3>1. g \in opened /\ g \in Requests /\ linkFlow[g].owner # o /\ linkFlow[g].owner \in Owners \cup {None}
      BY <1>1, <1>2, <2>2 DEF LinksTyped, Asked
    <3>2. linkFlow[g].at = "done" /\ linkFlow[g].owner # None /\ acct[linkFlow[g].owner].exists
      BY <3>1 DEF LinksInv, AccountHeld
    <3>3. linkFlow'[g] = linkFlow[g]
      BY <1>1, <1>5, <3>1, <3>2 DEF Rest
    <3> QED BY <2>1, <3>1, <3>2, <3>3
  <2>3. ASSUME NEW l \in Links, mailed'[l].live
        PROVE  mailed'[l].owner # None /\ acct'[mailed'[l].owner].exists
    <3>1. mailed[l].live /\ mailed[l].owner # o /\ mailed[l].owner \in Owners \cup {None}
      BY <1>2, <1>4, <2>3 DEF LinksTyped, Letter
    <3> QED BY <1>4, <2>1, <3>1 DEF LinksInv, AccountHeld
  <2> QED BY <2>2, <2>3 DEF AccountHeld
<1>9. LinksTyped'
  <2>1. acct' \in [Owners -> Account]
    <3>1. [acct[o] EXCEPT !.exists = FALSE] \in Account
      <4>1. acct[o] \in Account
        BY <1>2 DEF LinksTyped
      <4> QED BY <4>1 DEF Account
    <3> QED BY <1>1, <1>2, <3>1 DEF LinksTyped
  <2>2. mailed' \in [Links -> Letter]
    BY <1>1, <1>4
  <2> QED BY <1>1, <1>2, <1>5, <2>1, <2>2 DEF LinksTyped, Rest
<1> QED BY <1>6, <1>7, <1>8, <1>9 DEF LinksInv

\* A request arrives, about an account or with a link that was mailed.
LEMMA Arrives ==
    ASSUME LinksInv, NEW f \in Requests, Rest(f), UNCHANGED <<acct, mailed, opened>>,
           linkFlow[f].at = "none", Carries(f)', \A l \in Links : ~Served(l, f)'
    PROVE  LinksInv'
<1>1. Decays /\ f \notin opened
  BY DEF Decays, LinksInv, AccountHeld
<1>2. (\A g \in Requests : Carries(g))' /\ LinkSpent'
  BY <1>1, OthersCarry, SpentKept
<1>3. AccountHeld'
  BY <1>1, HeldKept
<1>4. LinksTyped'
  BY DEF LinksTyped, LinksInv, Rest
<1> QED BY <1>2, <1>3, <1>4 DEF LinksInv

LEMMA AskKeeps ==
    ASSUME LinksInv, NEW f \in Requests, NEW k \in {"login", "resend", "forgot", "delete"},
           NEW o \in Owners, NEW w \in Words \cup {None}, Credential!Ask(f, k, o, w)
    PROVE  LinksInv'
<1> DEFINE q0 == [linkFlow EXCEPT ![f].kind = k]
           q1 == [q0 EXCEPT ![f].owner = o]
           q2 == [q1 EXCEPT ![f].word = w]
           q3 == [q2 EXCEPT ![f].at = "read"]
           Like(q) == /\ q \in [Requests -> Asked] /\ q[f].kind = k /\ q[f].link = None
                      /\ \A g \in Requests \ {f} : q[g] = linkFlow[g]
<1>1. /\ linkFlow[f].at = "none" /\ UNCHANGED <<acct, mailed, opened>> /\ linkFlow' = q3
  BY DEF Credential!Ask
<1>2. LinksTyped /\ Carries(f) /\ linkFlow[f].link = None
  BY <1>1, AtStage DEF Carries
<1>3. Like(q0)
  BY <1>2 DEF LinksTyped, Asked, Credential!Kinds
<1>4. Like(q1) /\ q1[f].owner = o
  <2> HIDE DEF q0
  <2> QED BY <1>3 DEF Asked
<1>5. Like(q2) /\ q2[f].owner = o
  <2> HIDE DEF q1
  <2> QED BY <1>4 DEF Asked
<1>6. Like(q3) /\ q3[f].owner = o /\ q3[f].at = "read"
  <2> HIDE DEF q2
  <2>1. "read" \in Credential!Stages
    BY DEF Credential!Stages
  <2> QED BY <1>5, <2>1 DEF Asked
<1> HIDE DEF q3
<1>7. Rest(f) /\ Carries(f)' /\ \A l \in Links : ~Served(l, f)'
  BY <1>1, <1>6 DEF Rest, Carries, Served
<1> QED BY <1>1, <1>7, Arrives

LEMMA FollowKeeps ==
    ASSUME LinksInv, NEW f \in Requests, NEW k \in {"verify", "reset"}, NEW l \in Links,
           NEW w \in Words \cup {None}, Credential!Follow(f, k, l, w)
    PROVE  LinksInv'
<1> DEFINE q0 == [linkFlow EXCEPT ![f].kind = k]
           q1 == [q0 EXCEPT ![f].link = l]
           q2 == [q1 EXCEPT ![f].word = w]
           q3 == [q2 EXCEPT ![f].at = "consume"]
           Like(q) == /\ q \in [Requests -> Asked] /\ q[f].kind = k /\ q[f].owner = None
                      /\ \A g \in Requests \ {f} : q[g] = linkFlow[g]
<1>1. /\ linkFlow[f].at = "none" /\ UNCHANGED <<acct, mailed, opened>> /\ linkFlow' = q3
      /\ mailed[l].owner # None /\ (k = "reset" => w # None)
  BY DEF Credential!Follow
<1>2. LinksTyped /\ Carries(f) /\ linkFlow[f].owner = None
  BY <1>1, AtStage DEF Carries
<1>3. Like(q0)
  BY <1>2 DEF LinksTyped, Asked, Credential!Kinds
<1>4. Like(q1) /\ q1[f].link = l
  <2> HIDE DEF q0
  <2> QED BY <1>3 DEF Asked
<1>5. Like(q2) /\ q2[f].link = l /\ q2[f].word = w
  <2> HIDE DEF q1
  <2> QED BY <1>4 DEF Asked
<1>6. Like(q3) /\ q3[f].link = l /\ q3[f].word = w /\ q3[f].at = "consume"
  <2> HIDE DEF q2
  <2>1. "consume" \in Credential!Stages
    BY DEF Credential!Stages
  <2> QED BY <1>5, <2>1 DEF Asked
<1> HIDE DEF q3
<1>7. Rest(f) /\ Carries(f)' /\ \A m \in Links : ~Served(m, f)'
  BY <1>1, <1>6 DEF Rest, Carries, Served
<1> QED BY <1>1, <1>7, Arrives

LEMMA IssueLinkKeeps ==
    ASSUME LinksInv, NEW f \in Requests, NEW l \in Links, Credential!IssueLink(f, l) PROVE LinksInv'
<1>1. /\ linkFlow[f].at = "insert" /\ linkFlow[f].kind \in {"resend", "forgot"}
      /\ UNCHANGED <<acct, opened>> /\ mailed[l].owner = None
  BY DEF Credential!IssueLink, Credential!At
<1>2. LinksTyped /\ linkFlow[f].owner \in Owners /\ Carries(f)
  BY <1>1, AtStage
<1>3. Moves(f, "done")
  <2>1. PICK reply \in {200, 500} : Credential!Answers(f, reply)
    BY DEF Credential!IssueLink
  <2> QED BY <1>2, <2>1, AnswersNow
<1>4. Carries(f)' /\ "done" \in Credential!Stages
  BY <1>1, <1>2, <1>3 DEF Carries, Moves, Credential!Stages
<1>5. CASE UNCHANGED mailed
  BY <1>1, <1>2, <1>3, <1>4, <1>5, Onward DEF LinksTyped
<1>6. CASE ~(UNCHANGED mailed)
  <2> DEFINE new == [owner |-> linkFlow[f].owner, purpose |-> Credential!Purpose(f), live |-> TRUE]
  <2>1. /\ acct[linkFlow[f].owner].exists
        /\ mailed' = [k \in Links |->
              CASE k = l -> new
                [] k # l /\ k \in linkFlow[f].drops -> [mailed[k] EXCEPT !.live = FALSE]
                [] OTHER -> mailed[k]]
    BY <1>6 DEF Credential!IssueLink
  <2>2. new \in Letter /\ new.owner = linkFlow[f].owner
    BY <1>2 DEF Letter, Credential!Purpose
  <2> HIDE DEF new
  <2>3. /\ mailed'[l] = new
        /\ \A k \in Links : k # l =>
              /\ mailed'[k] \in Letter
              /\ mailed'[k].owner = mailed[k].owner /\ mailed'[k].purpose = mailed[k].purpose
              /\ mailed'[k].live => mailed[k].live
    <3>1. mailed'[l] = new
      BY <2>1
    <3>2. ASSUME NEW k \in Links, k # l
          PROVE  mailed'[k] = mailed[k] \/ mailed'[k] = [mailed[k] EXCEPT !.live = FALSE]
      BY <2>1, <3>2
    <3>3. \A k \in Links : mailed[k] \in Letter
      BY <1>2 DEF LinksTyped
    <3>4. ASSUME NEW k \in Links, k # l
          PROVE  /\ mailed'[k] \in Letter
                 /\ mailed'[k].owner = mailed[k].owner /\ mailed'[k].purpose = mailed[k].purpose
                 /\ mailed'[k].live => mailed[k].live
      <4>1. CASE mailed'[k] = mailed[k]
        BY <3>3, <4>1
      <4>2. CASE mailed'[k] = [mailed[k] EXCEPT !.live = FALSE]
        BY <3>3, <4>2 DEF Letter
      <4> QED BY <3>2, <3>4, <4>1, <4>2
    <3> QED BY <3>1, <3>4
  <2>4. mailed' \in [Links -> Letter]
    BY <2>1, <2>2, <2>3
  <2>5. Rest(f) /\ Decays
    BY <1>1, <1>3, <2>3 DEF Moves, Decays
  <2>6. (\A g \in Requests : Carries(g))'
    BY <1>4, <2>5, OthersCarry
  <2>7. LinkSpent'
    <3>1. \A m \in Links : Served(m, f)' => /\ Served(m, f)
                                           /\ linkFlow'[f].kind = linkFlow[f].kind
                                           /\ linkFlow'[f].owner = linkFlow[f].owner
      BY <1>1, <1>3 DEF Served, Moves
    <3> QED BY <2>5, <3>1, SpentKept
  <2>8. AccountHeld'
    <3>1. ASSUME NEW g \in opened
          PROVE  linkFlow'[g].at = "done" /\ linkFlow'[g].owner # None /\ acct'[linkFlow'[g].owner].exists
      BY <1>1, <1>2, <2>5, <3>1 DEF LinksInv, AccountHeld, Rest, LinksTyped
    <3>2. ASSUME NEW m \in Links, mailed'[m].live
          PROVE  mailed'[m].owner # None /\ acct'[mailed'[m].owner].exists
      BY <1>1, <1>2, <2>1, <2>2, <2>3, <3>2 DEF LinksInv, AccountHeld
    <3> QED BY <1>1, <3>1, <3>2 DEF AccountHeld
  <2>9. LinksTyped'
    BY <1>1, <1>2, <2>4, <2>5 DEF LinksTyped, Rest
  <2> QED BY <2>6, <2>7, <2>8, <2>9 DEF LinksInv
<1> QED BY <1>5, <1>6

LEMMA ConsumeKeeps == ASSUME LinksInv, NEW f \in Requests, Credential!Consume(f) PROVE LinksInv'
<1> DEFINE l == linkFlow[f].link
<1>1. /\ linkFlow[f].at = "consume" /\ linkFlow[f].kind \in {"verify", "reset"}
      /\ mailed' = [mailed EXCEPT ![l].live = FALSE] /\ UNCHANGED <<acct, opened>>
  BY DEF Credential!Consume, Credential!At
<1>2. LinksTyped /\ l \in Links /\ linkFlow[f].owner = None /\ mailed[l].owner # None /\ Carries(f)
  BY <1>1, AtStage DEF Carries
<1>3. /\ mailed' \in [Links -> Letter] /\ ~mailed'[l].live
      /\ mailed'[l].owner = mailed[l].owner /\ mailed'[l].purpose = mailed[l].purpose
      /\ \A m \in Links : m # l => mailed'[m] = mailed[m]
  <2>1. mailed[l] \in Letter
    BY <1>2 DEF LinksTyped
  <2>2. [mailed[l] EXCEPT !.live = FALSE] \in Letter
    BY <2>1 DEF Letter
  <2> QED BY <1>1, <1>2, <2>1, <2>2 DEF LinksTyped, Letter
<1>4. Decays
  BY <1>3 DEF Decays
<1>5. AccountHeld' \/ ~Rest(f)
  <2>1. f \notin opened
    BY <1>1 DEF LinksInv, AccountHeld
  <2> QED BY <1>1, <1>2, <1>3, <1>4, <2>1, HeldKept
<1>6. CASE Credential!Answers(f, 400)
  <2>1. Moves(f, "done")
    BY <1>2, <1>6, AnswersNow
  <2>2. Rest(f) /\ Carries(f)'
    BY <1>2, <1>3, <2>1 DEF Moves, Carries
  <2>3. LinkSpent'
    <3>1. \A m \in Links : ~Served(m, f)'
      BY <1>2, <2>1 DEF Moves, Served
    <3> QED BY <1>4, <2>2, <3>1, SpentKept
  <2>4. (\A g \in Requests : Carries(g))'
    BY <1>4, <2>2, OthersCarry
  <2> QED BY <1>1, <1>2, <1>3, <1>5, <2>2, <2>3, <2>4 DEF LinksInv, LinksTyped, Rest
<1>7. CASE ~Credential!Answers(f, 400)
  <2>1. PICK s \in {"password", "verified"} :
            /\ mailed[l].live /\ mailed[l].purpose = linkFlow[f].kind
            /\ linkFlow' = [linkFlow EXCEPT ![f].owner = mailed[l].owner, ![f].at = s]
            /\ s = "password" => linkFlow[f].kind = "reset"
    BY <1>1, <1>7 DEF Credential!Consume
  <2> DEFINE o == mailed[l].owner
             q0 == [linkFlow EXCEPT ![f].owner = o]
             q1 == [q0 EXCEPT ![f].at = s]
             Like(q) == /\ q \in [Requests -> Asked] /\ q[f].kind = linkFlow[f].kind
                        /\ q[f].owner = o /\ q[f].link = l /\ q[f].word = linkFlow[f].word
                        /\ \A g \in Requests \ {f} : q[g] = linkFlow[g]
  <2>2. Like(q0)
    <3>1. o \in Owners \cup {None}
      BY <1>2 DEF LinksTyped, Letter
    <3> QED BY <1>2, <3>1 DEF LinksTyped, Asked
  <2>3. Like(q1) /\ q1[f].at = s
    <3> HIDE DEF q0
    <3>1. s \in Credential!Stages
      BY DEF Credential!Stages
    <3> QED BY <2>2, <3>1 DEF Asked
  <2>4. linkFlow' = q1
    BY <2>1
  <2> HIDE DEF q1
  <2>5. Rest(f)
    BY <2>3, <2>4 DEF Rest
  <2>6. Carries(f)'
    BY <1>1, <1>2, <1>3, <2>1, <2>3, <2>4 DEF Carries
  <2>7. (\A g \in Requests : Carries(g))'
    BY <1>4, <2>5, <2>6, OthersCarry
  <2>8. LinkSpent'
    <3>1. \A g \in Requests : ~Served(l, g)
      BY <1>2, <2>1 DEF LinksInv, LinkSpent
    <3>2. ASSUME NEW m \in Links, NEW g \in Requests, Served(m, g)' PROVE (m = l /\ g = f) \/ (m # l /\ g # f)
      <4>1. g = f => linkFlow'[g].link = l
        BY <2>3, <2>4
      <4>2. g # f => Served(m, g)
        BY <2>5, <3>2 DEF Served, Rest
      <4> QED BY <3>1, <3>2, <4>1, <4>2 DEF Served
    <3>3. ASSUME NEW m \in Links, NEW g \in Requests, Served(m, g)'
          PROVE  /\ ~mailed'[m].live
                 /\ linkFlow'[g].kind = mailed'[m].purpose /\ linkFlow'[g].owner = mailed'[m].owner
                 /\ \A h \in Requests : Served(m, h)' => h = g
      <4>1. CASE m = l /\ g = f
        BY <1>3, <2>1, <2>3, <2>4, <3>2, <4>1
      <4>2. CASE m # l /\ g # f
        <5>1. mailed'[m] = mailed[m] /\ linkFlow'[g] = linkFlow[g] /\ Served(m, g)
          BY <1>3, <2>5, <3>3, <4>2 DEF Rest, Served
        <5>2. \A h \in Requests : Served(m, h)' => Served(m, h)
          BY <2>5, <3>2, <4>2 DEF Rest, Served
        <5> QED BY <5>1, <5>2 DEF LinksInv, LinkSpent
      <4> QED BY <3>2, <3>3, <4>1, <4>2
    <3> QED BY <3>3 DEF LinkSpent
  <2> QED BY <1>1, <1>2, <1>3, <1>5, <2>5, <2>7, <2>8 DEF LinksInv, LinksTyped, Rest
<1> QED BY <1>6, <1>7

LEMMA LinksStep == LinksInv /\ [Credential!Next]_linksVars => LinksInv'
<1> SUFFICES ASSUME LinksInv, [Credential!Next]_linksVars PROVE LinksInv'
  OBVIOUS
<1>1. CASE UNCHANGED linksVars
  <2>1. LinksTyped' /\ (\A f \in Requests : Carries(f))'
    BY <1>1 DEF linksVars, LinksInv, LinksTyped, Carries
  <2>2. LinkSpent'
    BY <1>1 DEF linksVars, LinksInv, LinkSpent, Served
  <2>3. AccountHeld'
    BY <1>1 DEF linksVars, LinksInv, AccountHeld
  <2> QED BY <2>1, <2>2, <2>3 DEF LinksInv
<1>2. ASSUME NEW f \in Requests, Credential!Step(f) PROVE LinksInv'
  BY <1>2, LoginReadsKeeps, RehashKeeps, OpenSessionKeeps, AskForLinkKeeps, DropOlderKeeps, ConsumeKeeps,
     SetVerifiedKeeps, RevokeSessionsKeeps, EraseKeeps, LogoutKeeps DEF Credential!Step
<1>3. ASSUME Credential!Next PROVE LinksInv'
  BY <1>2, <1>3, IssueLinkKeeps, AskKeeps, FollowKeeps DEF Credential!Next
<1> QED BY <1>1, <1>3

\* A link serves one request, for its purpose and its account; and of an account that is gone no
\* session and no live link is there.
LEMMA LinksSafe == LinksInv => Credential!LinkServesOne /\ Credential!NothingOutlivesAccount
<1> SUFFICES ASSUME LinksInv PROVE Credential!LinkServesOne /\ Credential!NothingOutlivesAccount
  OBVIOUS
<1>1. ASSUME NEW l \in Links PROVE Cardinality({f \in Requests : Served(l, f)}) <= 1
  <2> DEFINE S == {f \in Requests : Served(l, f)}
  <2>1. CASE S = {}
    BY <2>1, FS_EmptySet
  <2>2. CASE S # {}
    <3>1. PICK f \in S : TRUE
      BY <2>2
    <3>2. S \subseteq {f}
      BY <3>1 DEF LinksInv, LinkSpent
    <3> QED BY <3>2, AtMostOne
  <2> QED BY <2>1, <2>2
<1>2. Credential!LinkServesOne
  <2>1. ASSUME NEW l \in Links
        PROVE  Cardinality({f \in Requests :
                    linkFlow[f].link = l /\ linkFlow[f].at # "consume" /\ linkFlow[f].owner # None}) <= 1
    BY <1>1 DEF Served
  <2>2. ASSUME NEW l \in Links, NEW f \in Requests, linkFlow[f].link = l, linkFlow[f].at # "consume",
               linkFlow[f].owner # None
        PROVE  linkFlow[f].kind = mailed[l].purpose /\ linkFlow[f].owner = mailed[l].owner
    BY <2>2 DEF LinksInv, LinkSpent, Served
  <2>3. \A S : Credential!Cardinality(S) = Cardinality(S)
    BY DEF Cardinality, Credential!Cardinality
  <2> QED BY <2>1, <2>2, <2>3, Zenon DEF Credential!LinkServesOne
<1>3. Credential!NothingOutlivesAccount
  BY DEF Credential!NothingOutlivesAccount, LinksInv, AccountHeld
<1> QED BY <1>2, <1>3

-----------------------------------------------------------------------------
(* Watchlists and progress.                                                *)

LibraryKeys == Shelves!Shelf \cup Episodes
LibraryTx ==
    [kind : {"none", "add", "save", "merge", "replace", "remove"}, at : Shelves!Stages,
     todo : Seq(LibraryKeys), aims : SUBSET LibraryKeys, ins : SUBSET LibraryKeys,
     del : SUBSET LibraryKeys, count : Nat, day : Shelves!Days, spot : Spots \cup {0}]

LibraryTyped ==
    /\ rows \subseteq LibraryKeys /\ tx \in [Saves -> LibraryTx]
    /\ events \in [Episodes \X Shelves!Days -> Spots \cup {0}]
    /\ reached \in [Episodes \X Shelves!Days -> Spots \cup {0}]
    /\ day \in Shelves!Days /\ burst \in Nat /\ excess \in Nat

\* What a transaction writes is of its kind, and before its DELETE it has written nothing.
Fits(x) ==
    /\ x.at \in {"delete", "deleting"} => x.kind \in {"remove", "replace"} /\ x.ins = {} /\ x.del = {}
    /\ x.at \in {"count", "exists", "upsert"} => x.kind \in {"add", "save", "merge", "replace"}
    /\ x.at = "count" /\ x.kind \in {"merge", "replace"} => x.ins = {}
    /\ x.at \in {"exists", "upsert"} \/ (x.at = "count" /\ x.kind \in {"add", "save"}) => x.todo # <<>>
    /\ x.del # {} => x.kind \in {"remove", "replace"}
    /\ x.kind = "remove" => x.todo = <<>> /\ x.ins = {}
    /\ x.kind = "save" => x.todo \in Seq(Episodes) /\ x.ins \subseteq Episodes
    /\ x.kind \in {"add", "merge", "replace"} =>
          x.todo \in Seq(Shelves!Shelf) /\ x.ins \subseteq Shelves!Shelf

\* The entries a transaction brings, and the ones it has written or is about to write.
Brings(p) == (Shelves!Range(tx[p].todo) \cup tx[p].ins) \cap Shelves!Shelf
Brought   == UNION {Brings(p) : p \in Shelves!Opened}
Holds(p)  == (tx[p].ins \cup (IF tx[p].at = "upsert" THEN {Head(tx[p].todo)} ELSE {})) \cap Shelves!Shelf

\* Whatever the open transactions bring, with what p has left there is room for it, less one.
Low(p)  == Cardinality(((rows \ tx[p].del) \cap Shelves!Shelf) \cup Brought) <= Cap - 1 + burst
Full    == (rows \cap Shelves!Shelf) \cup UNION {Holds(p) : p \in {q \in Shelves!Opened : ~Low(q)}}

\* A transaction that is alone sees what there will be.
Sees(p) == (Shelves!Seen(p) \cap Shelves!Shelf) \cup Holds(p)
Solo(p) ==
    /\ Sees(p) \subseteq rows \/ Cardinality(Sees(p)) <= Cap
    /\ Shelves!Bulk(p) /\ tx[p].at \in {"exists", "upsert"} /\ tx[p].count < Cap =>
          Cardinality(Sees(p)) <= tx[p].count

BurstHolds  == Shelves!Opened # {} => Cardinality(Brought) <= burst
CountsHold  ==
    \A p \in Saves :
        Shelves!Bulk(p) /\ tx[p].at \in {"exists", "upsert"} /\ tx[p].count < Cap => Low(p)
CapHolds    == Cardinality(Full) <= Cap + excess
ChainHolds  == Shelves!Opened = {} \/ burst - 1 <= excess \/ \E p \in Saves : Shelves!Opened = {p} /\ Solo(p)

LibraryInv ==
    /\ LibraryTyped /\ (\A p \in Saves : Fits(tx[p]))
    /\ BurstHolds /\ CountsHold /\ CapHolds /\ ChainHolds /\ Shelves!WatchedIsKept

\* Watchlists are finite, and so is what there is of them.
LEMMA ShelfCounts ==
    ASSUME NEW S \in SUBSET Shelves!Shelf
    PROVE  /\ IsFiniteSet(S) /\ Cardinality(S) \in Nat
           /\ \A T \in SUBSET S : Cardinality(T) <= Cardinality(S)
<1>1. IsFiniteSet(S)
  BY FS_Subset, LibraryAssumption DEF Shelves!Shelf
<1>2. Cardinality(S) \in Nat
  BY <1>1, FS_CardinalityType
<1>3. \A T \in SUBSET S : Cardinality(T) <= Cardinality(S)
  BY <1>1, FS_Subset
<1> QED BY <1>1, <1>2, <1>3

\* Two sets are no more than the sum of both.
LEMMA ShelfUnion ==
    ASSUME NEW S \in SUBSET Shelves!Shelf, NEW T \in SUBSET Shelves!Shelf
    PROVE  /\ Cardinality(S \cup T) \in Nat /\ Cardinality(S) \in Nat /\ Cardinality(T) \in Nat
           /\ Cardinality(S \cup T) <= Cardinality(S) + Cardinality(T)
<1>1. IsFiniteSet(S) /\ IsFiniteSet(T) /\ IsFiniteSet(S \cap T) /\ IsFiniteSet(S \cup T)
  <2>1. S \cap T \in SUBSET Shelves!Shelf /\ S \cup T \in SUBSET Shelves!Shelf
    OBVIOUS
  <2> QED BY <2>1, ShelfCounts
<1>2. Cardinality(S \cup T) = Cardinality(S) + Cardinality(T) - Cardinality(S \cap T)
  BY <1>1, FS_Union
<1>3. /\ Cardinality(S \cup T) \in Nat /\ Cardinality(S) \in Nat /\ Cardinality(T) \in Nat
      /\ Cardinality(S \cap T) \in Nat
  BY <1>1, FS_CardinalityType
<1> QED BY <1>2, <1>3

\* One more entry is one more at most.
LEMMA ShelfGrows ==
    ASSUME NEW S \in SUBSET Shelves!Shelf, NEW T \in SUBSET Shelves!Shelf, NEW x, T \subseteq S \cup {x}
    PROVE  /\ Cardinality(S) \in Nat /\ Cardinality(T) \in Nat
           /\ Cardinality(T) <= Cardinality(S) + 1
<1>1. IsFiniteSet(S) /\ IsFiniteSet(S \cup {x}) /\ Cardinality(S) \in Nat /\ Cardinality(T) \in Nat
  BY ShelfCounts, FS_AddElement
<1>2. Cardinality(T) <= Cardinality(S \cup {x})
  BY <1>1, FS_Subset
<1>3. Cardinality(S \cup {x}) = IF x \in S THEN Cardinality(S) ELSE Cardinality(S) + 1
  BY <1>1, FS_AddElement
<1> QED BY <1>1, <1>2, <1>3

\* A file brings no more entries than it has rows.
LEMMA FileBrings ==
    ASSUME NEW s \in Seq(LibraryKeys)
    PROVE  /\ Shelves!Range(s) \subseteq LibraryKeys
           /\ Shelves!Range(s) \cap Shelves!Shelf \in SUBSET Shelves!Shelf
           /\ Len(s) \in Nat /\ Cardinality(Shelves!Range(s) \cap Shelves!Shelf) <= Len(s)
<1> DEFINE T == Shelves!Range(s)
           f == [i \in 1..Len(s) |-> s[i]]
<1>1. Len(s) \in Nat /\ DOMAIN s = 1..Len(s) /\ \A i \in 1..Len(s) : s[i] \in LibraryKeys
  OBVIOUS
<1>2. T \subseteq LibraryKeys
  BY <1>1 DEF Shelves!Range
<1>3. f \in Surjection(1..Len(s), T)
  <2>1. f \in [1..Len(s) -> T]
    BY <1>1 DEF Shelves!Range
  <2>2. \A t \in T : \E i \in 1..Len(s) : f[i] = t
    BY <1>1 DEF Shelves!Range
  <2> QED BY <2>1, <2>2 DEF Surjection
<1>4. IsFiniteSet(1..Len(s)) /\ Cardinality(1..Len(s)) = Len(s)
  <2>1. IsFiniteSet(1..Len(s)) /\ Cardinality(1..Len(s)) = IF 1 > Len(s) THEN 0 ELSE Len(s) - 1 + 1
    BY <1>1, FS_Interval, 1 \in Int
  <2> QED BY <1>1, <2>1
<1> HIDE DEF f, T
<1>5. IsFiniteSet(T) /\ Cardinality(T) <= Len(s)
  BY <1>3, <1>4, FS_Surjection
<1>6. T \cap Shelves!Shelf \in SUBSET T
  OBVIOUS
<1>7. Cardinality(T \cap Shelves!Shelf) <= Cardinality(T) /\ Cardinality(T \cap Shelves!Shelf) \in Nat
      /\ Cardinality(T) \in Nat
  BY <1>5, <1>6, FS_Subset, FS_CardinalityType
<1>8. Cardinality(T \cap Shelves!Shelf) <= Len(s)
  BY <1>1, <1>5, <1>7
<1> QED BY <1>1, <1>2, <1>8 DEF T

\* The first of the rows that are left, and the ones after it.
LEMMA FirstAndRest ==
    ASSUME NEW S, NEW s \in Seq(S), s # <<>>
    PROVE  /\ Head(s) \in S /\ Tail(s) \in Seq(S) /\ Head(s) \in Shelves!Range(s)
           /\ Shelves!Range(Tail(s)) \subseteq Shelves!Range(s)
<1>1. Len(s) \in Nat /\ Len(s) >= 1 /\ DOMAIN s = 1..Len(s) /\ Head(s) = s[1]
  BY EmptySeq
<1>2. Head(s) \in S /\ Tail(s) \in Seq(S) /\ Len(Tail(s)) = Len(s) - 1
      /\ \A i \in 1..Len(Tail(s)) : Tail(s)[i] = s[i + 1]
  BY HeadTailProperties
<1>3. DOMAIN Tail(s) = 1..(Len(s) - 1)
  BY <1>2
<1>4. \A i \in 1..(Len(s) - 1) : i + 1 \in 1..Len(s)
  BY <1>1
<1> QED BY <1>1, <1>2, <1>3, <1>4 DEF Shelves!Range


-----------------------------------------------------------------------------
\* What the statements of a transaction do to it, to the others and to the tables.
Mine(r) ==
    /\ tx' \in [Saves -> LibraryTx] /\ \A q \in Saves \ {r} : tx'[q] = tx[q]
    /\ tx'[r] \in LibraryTx

Began(r) ==
    /\ Mine(r) /\ tx[r].at = "none" /\ UNCHANGED <<rows, events, day, reached>>
    /\ tx'[r].at \in {"exists", "count", "delete"} /\ tx'[r].ins = {} /\ tx'[r].del = {}
    /\ tx'[r].kind \in {"merge", "replace"} => tx'[r].at # "exists"
    /\ burst' = Len(tx'[r].todo) + (IF Shelves!Opened = {} THEN 0 ELSE burst)
    /\ excess' = IF Shelves!Opened = {} \/ burst' <= excess THEN excess ELSE burst' - 1

LEMMA NoTxIs ==
    /\ Shelves!NoTx \in LibraryTx /\ Shelves!NoTx.kind = "none" /\ Shelves!NoTx.at = "none"
    /\ Shelves!NoTx.ins = {} /\ Shelves!NoTx.del = {}
    /\ [Shelves!NoTx EXCEPT !.at = "done"] \in LibraryTx
    /\ Fits([Shelves!NoTx EXCEPT !.at = "done"])
    /\ [Shelves!NoTx EXCEPT !.at = "done"].at = "done"
<1>1. <<>> \in Seq(LibraryKeys) /\ 1 \in Shelves!Days
  BY EmptySeq, LibraryAssumption DEF Shelves!Days
<1> QED BY <1>1 DEF Shelves!NoTx, LibraryTx, Shelves!Stages, Fits

LEMMA BeginDoes ==
    ASSUME LibraryTyped, NEW r \in Saves, NEW kind \in {"add", "save", "merge", "replace", "remove"},
           NEW stage \in {"exists", "count", "delete"}, NEW todo \in Seq(LibraryKeys),
           NEW aims \in SUBSET LibraryKeys, NEW spot \in Spots \cup {0},
           Shelves!Begin(r, kind, stage, todo, aims, spot),
           kind \in {"add", "save"} => stage = "exists" /\ todo # <<>>,
           kind = "merge" => stage = "count", kind \in {"remove", "replace"} => stage = "delete",
           kind = "remove" => todo = <<>>, kind = "save" => todo \in Seq(Episodes),
           kind \in {"add", "merge", "replace"} => todo \in Seq(Shelves!Shelf)
    PROVE  Began(r) /\ LibraryTyped' /\ Fits(tx'[r])
<1> DEFINE y == [Shelves!NoTx EXCEPT !.kind = kind, !.at = stage, !.todo = todo, !.aims = aims,
                                     !.day = IF kind = "save" THEN day ELSE 1, !.spot = spot]
<1>1. /\ y \in LibraryTx /\ y.kind = kind /\ y.at = stage /\ y.todo = todo /\ y.ins = {} /\ y.del = {}
  <2>1. day \in Shelves!Days /\ 1 \in Shelves!Days
    BY LibraryAssumption DEF LibraryTyped, Shelves!Days
  <2> QED BY <2>1 DEF Shelves!NoTx, LibraryTx, Shelves!Stages
<1>2. tx[r].at = "none" /\ tx' = [tx EXCEPT ![r] = y] /\ UNCHANGED <<rows, events, day, reached>>
  BY DEF Shelves!Begin
<1>3. /\ burst' = Len(todo) + (IF Shelves!Opened = {} THEN 0 ELSE burst)
      /\ excess' = IF Shelves!Opened = {} \/ burst' <= excess THEN excess ELSE burst' - 1
  BY DEF Shelves!Begin
<1> HIDE DEF y
<1>4. Mine(r) /\ tx'[r] = y
  BY <1>1, <1>2 DEF LibraryTyped, Mine
<1>5. Began(r)
  BY <1>1, <1>2, <1>3, <1>4 DEF Began
<1>6. Fits(y)
  BY <1>1 DEF Fits
<1>7. burst' \in Nat /\ excess' \in Nat
  <2>1. Len(todo) \in Nat /\ burst \in Nat /\ excess \in Nat
    BY FileBrings DEF LibraryTyped
  <2> QED BY <1>3, <2>1
<1>8. LibraryTyped'
  BY <1>2, <1>4, <1>7 DEF LibraryTyped, Mine
<1> QED BY <1>4, <1>5, <1>6, <1>8

\* The requests of a viewer.
LEMMA RequestsBegin ==
    ASSUME LibraryTyped, NEW r \in Saves,
           \/ \E k \in Shelves!Shelf : Shelves!Add(r, k)
           \/ \E e \in Episodes : Shelves!Forget(r, e) \/ \E s \in Spots : Shelves!Save(r, e, s)
           \/ \E file \in Shelves!Files : Shelves!Import(r, file) \/ Shelves!Replace(r, file)
           \/ \E i \in Items, lists \in {{l} : l \in Lists} \cup {Lists} : Shelves!Remove(r, i, lists)
    PROVE  Began(r) /\ LibraryTyped' /\ Fits(tx'[r])
<1>1. /\ {} \in SUBSET LibraryKeys /\ 0 \in Spots \cup {0} /\ <<>> \in Seq(LibraryKeys)
      /\ Shelves!Shelf \in SUBSET LibraryKeys
  BY EmptySeq DEF LibraryKeys
<1>2. ASSUME NEW k \in Shelves!Shelf, Shelves!Add(r, k)
      PROVE  Began(r) /\ LibraryTyped' /\ Fits(tx'[r])
  <2>1. <<k>> \in Seq(LibraryKeys) /\ <<k>> \in Seq(Shelves!Shelf) /\ <<k>> # <<>>
    BY DEF LibraryKeys
  <2> QED BY <1>1, <1>2, <2>1, BeginDoes DEF Shelves!Add
<1>3. ASSUME NEW e \in Episodes, Shelves!Forget(r, e)
      PROVE  Began(r) /\ LibraryTyped' /\ Fits(tx'[r])
  <2>1. {e} \in SUBSET LibraryKeys
    BY DEF LibraryKeys
  <2> QED BY <1>1, <1>3, <2>1, BeginDoes DEF Shelves!Forget
<1>4. ASSUME NEW e \in Episodes, NEW s \in Spots, Shelves!Save(r, e, s)
      PROVE  Began(r) /\ LibraryTyped' /\ Fits(tx'[r])
  <2>1. <<e>> \in Seq(LibraryKeys) /\ <<e>> \in Seq(Episodes) /\ <<e>> # <<>>
    BY DEF LibraryKeys
  <2> QED BY <1>1, <1>4, <2>1, BeginDoes DEF Shelves!Save
<1>5. ASSUME NEW file \in Shelves!Files, Shelves!Import(r, file) \/ Shelves!Replace(r, file)
      PROVE  Began(r) /\ LibraryTyped' /\ Fits(tx'[r])
  <2>1. PICK n \in 0..MaxFile : file \in [1..n -> Shelves!Shelf]
    BY DEF Shelves!Files
  <2>2. n \in Nat
    BY <2>1, LibraryAssumption
  <2>3. file \in Seq(Shelves!Shelf)
    BY <2>1, <2>2
  <2>4. file \in Seq(LibraryKeys)
    BY <2>1, <2>2 DEF LibraryKeys
  <2>5. CASE Shelves!Import(r, file)
    BY <1>1, <2>3, <2>4, <2>5, BeginDoes DEF Shelves!Import
  <2>6. CASE Shelves!Replace(r, file)
    BY <1>1, <2>3, <2>4, <2>6, BeginDoes DEF Shelves!Replace
  <2> QED BY <1>5, <2>5, <2>6
<1>6. ASSUME NEW i \in Items, NEW lists \in {{l} : l \in Lists} \cup {Lists}, Shelves!Remove(r, i, lists)
      PROVE  Began(r) /\ LibraryTyped' /\ Fits(tx'[r])
  <2>1. {i} \X lists \in SUBSET LibraryKeys
    BY DEF LibraryKeys, Shelves!Shelf
  <2> QED BY <1>1, <1>6, <2>1, BeginDoes DEF Shelves!Remove
<1> QED BY <1>2, <1>3, <1>4, <1>5, <1>6

-----------------------------------------------------------------------------
\* A statement of an open transaction: what it has yet to bring is less or the same, what it is about
\* to write was there unless there is room, and alone it sees what will be there.
Proceeds(r) ==
    /\ Mine(r) /\ Fits(tx'[r]) /\ UNCHANGED <<rows, events, day, burst, excess, reached>>
    /\ tx[r].at \notin {"none", "done"} /\ tx'[r].at # "none"
    /\ Shelves!Range(tx'[r].todo) \cup tx'[r].ins \subseteq Shelves!Range(tx[r].todo) \cup tx[r].ins
    /\ tx'[r].at # "done" =>
          /\ tx[r].del \subseteq tx'[r].del
          /\ Holds(r)' \subseteq Holds(r) \cup rows \/ Low(r)
          /\ Shelves!Bulk(r)' /\ tx'[r].at \in {"exists", "upsert"} /\ tx'[r].count < Cap => Low(r)
          /\ Solo(r) => Solo(r)'

\* Whoever counts fewer rows than the cap leaves room for what is brought.
LEMMA RoomCounted ==
    ASSUME LibraryInv, NEW r \in Shelves!Opened,
           Cardinality(Shelves!Seen(r) \cap Shelves!Shelf) < Cap
    PROVE  Low(r)
<1> DEFINE A == (rows \ tx[r].del) \cap Shelves!Shelf
           S == Shelves!Seen(r) \cap Shelves!Shelf
<1>1. A \in SUBSET S /\ S \in SUBSET Shelves!Shelf /\ A \in SUBSET Shelves!Shelf
  BY DEF Shelves!Seen
<1>2. Brought \in SUBSET Shelves!Shelf
  BY DEF Brought, Brings
<1>3. Cardinality(Brought) <= burst /\ burst \in Nat /\ Cap \in Nat
  BY LibraryAssumption DEF LibraryInv, BurstHolds, LibraryTyped
<1> HIDE DEF A, S
<1>4. Cardinality(A) <= Cardinality(S) /\ Cardinality(S) \in Nat
  BY <1>1, ShelfCounts
<1>5. /\ Cardinality(A \cup Brought) \in Nat /\ Cardinality(A) \in Nat /\ Cardinality(Brought) \in Nat
      /\ Cardinality(A \cup Brought) <= Cardinality(A) + Cardinality(Brought)
  BY <1>1, <1>2, ShelfUnion
<1>6. Cardinality(S) < Cap
  BY DEF S
<1>7. Cardinality(A \cup Brought) <= Cap - 1 + burst
  BY <1>3, <1>4, <1>5, <1>6
<1> QED BY <1>7 DEF Low, A

LEMMA DeleteProceeds ==
    ASSUME LibraryInv, NEW r \in Saves, Shelves!DeleteBegins(r) \/ Shelves!Delete(r)
    PROVE  Proceeds(r)
<1>1. /\ tx[r] \in LibraryTx /\ Fits(tx[r]) /\ tx \in [Saves -> LibraryTx] /\ rows \subseteq LibraryKeys
      /\ UNCHANGED <<rows, events, day, burst, excess, reached>>
  BY DEF LibraryInv, LibraryTyped, Shelves!DeleteBegins, Shelves!Delete
<1>2. PICK y \in LibraryTx : /\ tx' = [tx EXCEPT ![r] = y] /\ tx[r].at \in {"delete", "deleting"}
                             /\ y.at \in {"deleting", "count", "commit"} /\ y.kind = tx[r].kind
                             /\ y.at = "deleting" => y.del = {}
                             /\ y.at = "count" => y.kind = "replace"
                             /\ y.todo = tx[r].todo /\ y.ins = tx[r].ins
  <2>1. CASE Shelves!DeleteBegins(r)
    <3> DEFINE y == [tx[r] EXCEPT !.aims = @ \cap rows, !.at = "deleting"]
    <3>1. tx' = [tx EXCEPT ![r] = y] /\ tx[r].at = "delete"
      BY <1>1, <2>1 DEF Shelves!DeleteBegins
    <3>2. /\ y \in LibraryTx /\ y.at = "deleting" /\ y.kind = tx[r].kind /\ y.todo = tx[r].todo
          /\ y.ins = tx[r].ins /\ y.del = tx[r].del
      BY <1>1 DEF LibraryTx, Shelves!Stages
    <3>3. tx[r].del = {}
      BY <1>1, <3>1 DEF Fits
    <3> HIDE DEF y
    <3> QED BY <3>1, <3>2, <3>3
  <2>2. CASE Shelves!Delete(r)
    <3> DEFINE y == [tx[r] EXCEPT !.del = tx[r].aims \cap rows, !.aims = {},
                                  !.at = IF tx[r].kind = "replace" THEN "count" ELSE "commit"]
    <3>1. tx' = [tx EXCEPT ![r] = y] /\ tx[r].at = "deleting"
      BY <1>1, <2>2 DEF Shelves!Delete
    <3>2. /\ y \in LibraryTx /\ y.at = (IF tx[r].kind = "replace" THEN "count" ELSE "commit")
          /\ y.kind = tx[r].kind /\ y.todo = tx[r].todo /\ y.ins = tx[r].ins
      BY <1>1 DEF LibraryTx, Shelves!Stages
    <3> HIDE DEF y
    <3> QED BY <3>1, <3>2
  <2> QED BY <2>1, <2>2
<1>3. Mine(r) /\ tx'[r] = y
  BY <1>1, <1>2 DEF Mine
<1>4. tx[r].ins = {} /\ tx[r].del = {} /\ tx[r].kind \in {"remove", "replace"}
  BY <1>1, <1>2 DEF Fits
<1>5. Fits(y)
  BY <1>1, <1>2, <1>4 DEF Fits
<1>6. Holds(r)' = {} /\ Sees(r)' \subseteq rows'
  BY <1>2, <1>3, <1>4 DEF Holds, Sees, Shelves!Seen
<1>7. Solo(r)'
  BY <1>2, <1>3, <1>6 DEF Solo
<1> QED BY <1>1, <1>2, <1>3, <1>4, <1>5, <1>6, <1>7 DEF Proceeds

\* A transaction that ends without having written.
LEMMA EndProceeds ==
    ASSUME LibraryInv, NEW r \in Saves, tx[r].at \notin {"none", "done"},
           tx' = [tx EXCEPT ![r] = [Shelves!NoTx EXCEPT !.at = "done"]],
           UNCHANGED <<rows, events, day, burst, excess, reached>>
    PROVE  Proceeds(r)
<1> DEFINE y == [Shelves!NoTx EXCEPT !.at = "done"]
<1>1. y \in LibraryTx /\ Fits(y) /\ y.at = "done" /\ y.todo = <<>> /\ y.ins = {}
  BY NoTxIs DEF Shelves!NoTx
<1>2. tx \in [Saves -> LibraryTx] /\ tx' = [tx EXCEPT ![r] = y]
  BY DEF LibraryInv, LibraryTyped
<1> HIDE DEF y
<1>3. Mine(r) /\ tx'[r] = y
  BY <1>1, <1>2 DEF Mine
<1>4. Shelves!Range(<<>>) = {}
  BY EmptySeq DEF Shelves!Range
<1> QED BY <1>1, <1>3, <1>4 DEF Proceeds

LEMMA CountIs ==
    ASSUME NEW r \in Saves, tx[r].kind # "save"
    PROVE  /\ Shelves!Count(r) = Cardinality(Shelves!Seen(r) \cap Shelves!Shelf)
           /\ Shelves!Count(r) \in Nat
<1>1. Shelves!Count(r) = Cardinality(Shelves!Seen(r) \cap Shelves!Shelf)
  BY DEF Shelves!Count, Cardinality, Shelves!Cardinality
<1>2. Shelves!Seen(r) \cap Shelves!Shelf \in SUBSET Shelves!Shelf
  OBVIOUS
<1> QED BY <1>1, <1>2, ShelfCounts

\* What is left to write decides where a transaction goes.
LEMMA NextIs ==
    ASSUME NEW s PROVE Shelves!Next1(s) \in {"exists", "commit"} /\ (Shelves!Next1(s) = "exists" => s # <<>>)
BY DEF Shelves!Next1

LEMMA CountProceeds ==
    ASSUME LibraryInv, NEW r \in Saves, Shelves!CountRows(r)
    PROVE  Proceeds(r)
<1> DEFINE S == Shelves!Seen(r) \cap Shelves!Shelf
<1>1. /\ tx[r] \in LibraryTx /\ Fits(tx[r]) /\ tx \in [Saves -> LibraryTx] /\ tx[r].at = "count"
      /\ rows \subseteq LibraryKeys
      /\ UNCHANGED <<rows, events, day, burst, excess, reached>>
  BY DEF LibraryInv, LibraryTyped, Shelves!CountRows
<1>2. r \in Shelves!Opened
  BY <1>1 DEF Shelves!Opened, Shelves!Open
<1>3. S \in SUBSET Shelves!Shelf /\ Cardinality(S) \in Nat
  <2>1. S \in SUBSET Shelves!Shelf
    OBVIOUS
  <2> QED BY <2>1, ShelfCounts
<1>4. CASE ~Shelves!Bulk(r) /\ Shelves!Count(r) >= Cap
  BY <1>1, <1>4, EndProceeds DEF Shelves!CountRows
<1>5. CASE Shelves!Bulk(r)
  <2> DEFINE y == [tx[r] EXCEPT !.count = Shelves!Count(r), !.at = Shelves!Next1(tx[r].todo)]
  <2>1. tx' = [tx EXCEPT ![r] = y]
    BY <1>1, <1>5 DEF Shelves!CountRows
  <2>2. tx[r].kind \in {"merge", "replace"} /\ tx[r].ins = {}
    BY <1>1, <1>5 DEF Fits, Shelves!Bulk
  <2>3. Shelves!Count(r) = Cardinality(S) /\ Shelves!Count(r) \in Nat
    BY <2>2, CountIs
  <2>4. /\ y \in LibraryTx /\ y.at \in {"exists", "commit"} /\ (y.at = "exists" => tx[r].todo # <<>>)
        /\ y.kind = tx[r].kind /\ y.todo = tx[r].todo /\ y.ins = tx[r].ins /\ y.del = tx[r].del
        /\ y.count = Shelves!Count(r)
    BY <1>1, <2>3, NextIs DEF LibraryTx, Shelves!Stages
  <2> HIDE DEF y
  <2>5. Mine(r) /\ tx'[r] = y
    BY <1>1, <2>1, <2>4 DEF Mine
  <2>6. Fits(y)
    BY <1>1, <2>2, <2>4 DEF Fits
  <2>7. Holds(r)' = {} /\ Sees(r)' = S /\ Sees(r) = S
    BY <1>1, <2>2, <2>4, <2>5 DEF Holds, Sees, Shelves!Seen
  <2> HIDE DEF S
  <2>8. y.count < Cap => Low(r)
    BY <1>2, <2>3, <2>4, RoomCounted DEF S
  <2>9. Solo(r) => Solo(r)'
    BY <1>1, <1>3, <2>3, <2>4, <2>5, <2>7 DEF Solo
  <2> QED BY <1>1, <2>4, <2>5, <2>6, <2>7, <2>8, <2>9 DEF Proceeds
<1>6. CASE ~Shelves!Bulk(r) /\ ~(Shelves!Count(r) >= Cap)
  <2> DEFINE y == [tx[r] EXCEPT !.at = "upsert"]
  <2>1. tx' = [tx EXCEPT ![r] = y]
    BY <1>1, <1>6 DEF Shelves!CountRows
  <2>2. tx[r].kind \in {"add", "save"} /\ tx[r].todo # <<>>
    BY <1>1, <1>6 DEF Fits, Shelves!Bulk
  <2>4. /\ y \in LibraryTx /\ y.at = "upsert"
        /\ y.kind = tx[r].kind /\ y.todo = tx[r].todo /\ y.ins = tx[r].ins /\ y.del = tx[r].del
    BY <1>1 DEF LibraryTx, Shelves!Stages
  <2> HIDE DEF y
  <2>5. Mine(r) /\ tx'[r] = y
    BY <1>1, <2>1, <2>4 DEF Mine
  <2>6. Fits(y)
    BY <1>1, <2>2, <2>4 DEF Fits
  <2>7. CASE tx[r].kind = "save"
    <3>1. tx[r].todo \in Seq(Episodes) /\ tx[r].ins \subseteq Episodes
      BY <1>1, <2>7 DEF Fits
    <3>2. Head(tx[r].todo) \in Episodes
      BY <2>2, <3>1, FirstAndRest
    <3>3. Holds(r)' = {} /\ Holds(r) = {}
      BY <1>1, <2>4, <2>5, <3>1, <3>2, LibraryAssumption DEF Holds, Shelves!Shelf
    <3>4. Sees(r)' = Sees(r)
      BY <1>1, <2>4, <2>5, <3>3 DEF Sees, Shelves!Seen
    <3>5. Solo(r) => Solo(r)'
      BY <1>1, <2>4, <2>5, <2>7, <3>4 DEF Solo, Shelves!Bulk
    <3> QED BY <1>1, <2>4, <2>5, <2>6, <2>7, <3>3, <3>5 DEF Proceeds, Shelves!Bulk
  <2>8. CASE tx[r].kind = "add"
    <3>1. Cardinality(S) < Cap /\ Cap \in Nat
      BY <1>3, <1>6, <2>8, CountIs, LibraryAssumption
    <3>2. Low(r)
      BY <1>2, <3>1, RoomCounted
    <3>3. Sees(r)' \subseteq S \cup {Head(tx[r].todo)} /\ Sees(r)' \in SUBSET Shelves!Shelf
      BY <1>1, <2>4, <2>5 DEF Sees, Holds, Shelves!Seen
    <3>4. /\ Cardinality(S) \in Nat /\ Cardinality(Sees(r)') \in Nat
          /\ Cardinality(Sees(r)') <= Cardinality(S) + 1
      <4> HIDE DEF S
      <4> QED BY <1>3, <3>3, ShelfGrows
    <3> HIDE DEF S
    <3>7. Cardinality(Sees(r)') <= Cap
      BY <3>1, <3>4
    <3>8. Solo(r)'
      BY <2>4, <2>5, <2>8, <3>7 DEF Solo, Shelves!Bulk
    <3> QED BY <1>1, <2>4, <2>5, <2>6, <3>2, <3>8 DEF Proceeds
  <2> QED BY <2>2, <2>7, <2>8
<1> QED BY <1>4, <1>5, <1>6

LEMMA ExistsProceeds ==
    ASSUME LibraryInv, NEW r \in Saves, Shelves!Exists(r)
    PROVE  Proceeds(r)
<1> DEFINE k == Head(tx[r].todo)
           known == k \in Shelves!Seen(r)
           skip == ~known /\ Shelves!Bulk(r) /\ tx[r].count >= Cap
<1>1. /\ tx[r] \in LibraryTx /\ Fits(tx[r]) /\ tx \in [Saves -> LibraryTx] /\ tx[r].at = "exists"
      /\ rows \subseteq LibraryKeys /\ Cap \in Nat /\ tx[r].count \in Nat
      /\ UNCHANGED <<rows, events, day, burst, excess, reached>>
  BY LibraryAssumption DEF LibraryInv, LibraryTyped, Shelves!Exists, LibraryTx
<1>2. /\ tx[r].todo \in Seq(LibraryKeys) /\ tx[r].todo # <<>>
      /\ tx[r].kind \in {"add", "save", "merge", "replace"}
  BY <1>1 DEF Fits, LibraryTx
<1>3. Shelves!Bulk(r) /\ tx[r].count < Cap => Low(r)
  BY <1>1 DEF LibraryInv, CountsHold
<1>4. Holds(r) = tx[r].ins \cap Shelves!Shelf /\ Sees(r) = Shelves!Seen(r) \cap Shelves!Shelf
  BY <1>1 DEF Holds, Sees, Shelves!Seen
<1>5. CASE skip
  <2> DEFINE y == [tx[r] EXCEPT !.todo = Tail(tx[r].todo), !.at = Shelves!Next1(Tail(tx[r].todo))]
  <2>1. tx' = [tx EXCEPT ![r] = y]
    BY <1>1, <1>5 DEF Shelves!Exists
  <2>2. Tail(tx[r].todo) \in Seq(LibraryKeys)
        /\ Shelves!Range(Tail(tx[r].todo)) \subseteq Shelves!Range(tx[r].todo)
        /\ \A S : tx[r].todo \in Seq(S) => Tail(tx[r].todo) \in Seq(S)
    BY <1>2, FirstAndRest
  <2>3. /\ y \in LibraryTx /\ y.at \in {"exists", "commit"} /\ (y.at = "exists" => y.todo # <<>>)
        /\ y.kind = tx[r].kind /\ y.todo = Tail(tx[r].todo) /\ y.ins = tx[r].ins /\ y.del = tx[r].del
        /\ y.count = tx[r].count
    BY <1>1, <2>2, NextIs DEF LibraryTx, Shelves!Stages
  <2> HIDE DEF y
  <2>4. Mine(r) /\ tx'[r] = y
    BY <1>1, <2>1, <2>3 DEF Mine
  <2>5. Fits(y)
    BY <1>1, <1>2, <2>2, <2>3 DEF Fits
  <2>6. Holds(r)' = Holds(r) /\ Sees(r)' = Sees(r)
    BY <1>1, <1>4, <2>3, <2>4 DEF Holds, Sees, Shelves!Seen
  <2>7. Solo(r) => Solo(r)'
    BY <1>1, <1>5, <2>3, <2>4, <2>6 DEF Solo
  <2> QED BY <1>1, <1>3, <2>2, <2>3, <2>4, <2>5, <2>6, <2>7 DEF Proceeds, Shelves!Bulk
<1>6. CASE ~skip
  <2> DEFINE y == [tx[r] EXCEPT !.count = tx[r].count + IF known \/ ~Shelves!Bulk(r) THEN 0 ELSE 1,
                                !.at = IF known \/ Shelves!Bulk(r) THEN "upsert" ELSE "count"]
  <2>1. tx' = [tx EXCEPT ![r] = y]
    BY <1>1, <1>6 DEF Shelves!Exists
  <2>2. /\ y \in LibraryTx /\ y.at = (IF known \/ Shelves!Bulk(r) THEN "upsert" ELSE "count")
        /\ y.kind = tx[r].kind /\ y.todo = tx[r].todo /\ y.ins = tx[r].ins /\ y.del = tx[r].del
        /\ y.count = tx[r].count + IF known \/ ~Shelves!Bulk(r) THEN 0 ELSE 1
    <3> HIDE DEF known
    <3>1. (tx[r].count + IF known \/ ~Shelves!Bulk(r) THEN 0 ELSE 1) \in Nat
      BY <1>1
    <3> QED BY <1>1, <3>1 DEF LibraryTx, Shelves!Stages
  <2> HIDE DEF y
  <2>3. Mine(r) /\ tx'[r] = y
    BY <1>1, <2>1, <2>2 DEF Mine
  <2>4. Fits(y)
    BY <1>1, <1>2, <2>2 DEF Fits, Shelves!Bulk
  <2>5. Shelves!Seen(r)' = Shelves!Seen(r)
    BY <1>1, <2>2, <2>3 DEF Shelves!Seen
  <2>6. CASE known
    <3>1. Holds(r)' \subseteq Holds(r) \cup rows /\ Sees(r)' = Sees(r)
      BY <1>1, <1>4, <2>2, <2>3, <2>5, <2>6 DEF Holds, Sees, Shelves!Seen
    <3>2. Solo(r) => Solo(r)'
      BY <1>1, <2>2, <2>3, <2>6, <3>1 DEF Solo, Shelves!Bulk
    <3> QED BY <1>1, <1>3, <2>2, <2>3, <2>4, <2>6, <3>1, <3>2 DEF Proceeds, Shelves!Bulk
  <2>7. CASE ~known /\ Shelves!Bulk(r)
    <3>1. tx[r].count < Cap
      BY <1>1, <1>6, <2>7
    <3>2. Sees(r) \in SUBSET Shelves!Shelf /\ Sees(r)' \in SUBSET Shelves!Shelf
          /\ Sees(r)' \subseteq Sees(r) \cup {k}
      BY <1>4, <2>2, <2>3, <2>5, <2>7 DEF Holds, Sees, Shelves!Seen
    <3>3. /\ Cardinality(Sees(r)) \in Nat /\ Cardinality(Sees(r)') \in Nat
          /\ Cardinality(Sees(r)') <= Cardinality(Sees(r)) + 1
      BY <3>2, ShelfGrows
    <3>4. y.count = tx[r].count + 1 /\ y.at = "upsert"
      BY <2>2, <2>7
    <3>5. Solo(r) => Cardinality(Sees(r)) <= tx[r].count
      BY <1>1, <2>7, <3>1 DEF Solo
    <3>6. Solo(r) => Cardinality(Sees(r)') <= y.count /\ Cardinality(Sees(r)') <= Cap
      BY <1>1, <3>1, <3>3, <3>4, <3>5
    <3>7. Solo(r) => Solo(r)'
      BY <2>3, <3>6 DEF Solo
    <3> QED BY <1>1, <1>3, <2>2, <2>3, <2>4, <3>1, <3>4, <3>7 DEF Proceeds
  <2>8. CASE ~known /\ ~Shelves!Bulk(r)
    <3>1. Holds(r)' = Holds(r) /\ Sees(r)' = Sees(r)
      BY <1>1, <1>4, <2>2, <2>3, <2>5, <2>8 DEF Holds, Sees
    <3>2. Solo(r) => Solo(r)'
      BY <1>1, <2>2, <2>3, <2>8, <3>1 DEF Solo, Shelves!Bulk
    <3> QED BY <1>1, <2>2, <2>3, <2>4, <2>8, <3>1, <3>2 DEF Proceeds, Shelves!Bulk
  <2> QED BY <2>6, <2>7, <2>8
<1> QED BY <1>5, <1>6

LEMMA UpsertProceeds ==
    ASSUME LibraryInv, NEW r \in Saves, Shelves!Upsert(r)
    PROVE  Proceeds(r)
<1> DEFINE k == Head(tx[r].todo)
           y == [tx[r] EXCEPT !.ins = @ \cup {k}, !.todo = Tail(@),
                              !.at = Shelves!Next1(Tail(tx[r].todo))]
<1>1. /\ tx[r] \in LibraryTx /\ Fits(tx[r]) /\ tx \in [Saves -> LibraryTx] /\ tx[r].at = "upsert"
      /\ rows \subseteq LibraryKeys
      /\ UNCHANGED <<rows, events, day, burst, excess, reached>>
  BY DEF LibraryInv, LibraryTyped, Shelves!Upsert
<1>2. tx' = [tx EXCEPT ![r] = y]
  BY <1>1 DEF Shelves!Upsert
<1>3. /\ tx[r].todo \in Seq(LibraryKeys) /\ tx[r].todo # <<>>
      /\ tx[r].kind \in {"add", "save", "merge", "replace"}
  BY <1>1 DEF Fits, LibraryTx
<1>4. /\ \A S : tx[r].todo \in Seq(S) => Tail(tx[r].todo) \in Seq(S) /\ k \in S
      /\ k \in Shelves!Range(tx[r].todo)
      /\ Shelves!Range(Tail(tx[r].todo)) \subseteq Shelves!Range(tx[r].todo)
  BY <1>3, FirstAndRest
<1>5. /\ y \in LibraryTx /\ y.at \in {"exists", "commit"} /\ (y.at = "exists" => y.todo # <<>>)
      /\ y.kind = tx[r].kind /\ y.todo = Tail(tx[r].todo) /\ y.ins = tx[r].ins \cup {k}
      /\ y.del = tx[r].del /\ y.count = tx[r].count
  <2>1. k \in LibraryKeys /\ Tail(tx[r].todo) \in Seq(LibraryKeys)
    BY <1>3, <1>4
  <2>2. tx[r].ins \cup {k} \in SUBSET LibraryKeys
    BY <1>1, <2>1 DEF LibraryTx
  <2> HIDE DEF k
  <2> QED BY <1>1, <2>1, <2>2, NextIs DEF LibraryTx, Shelves!Stages
<1> HIDE DEF y
<1>6. Mine(r) /\ tx'[r] = y
  BY <1>1, <1>2, <1>5 DEF Mine
<1>7. Fits(y)
  BY <1>1, <1>3, <1>4, <1>5 DEF Fits
<1>8. Holds(r)' = Holds(r) /\ Sees(r)' = Sees(r)
  BY <1>1, <1>5, <1>6 DEF Holds, Sees, Shelves!Seen
<1>9. Shelves!Bulk(r)' = Shelves!Bulk(r)
  BY <1>5, <1>6 DEF Shelves!Bulk
<1>10. Shelves!Bulk(r) /\ tx[r].count < Cap => Low(r)
  BY <1>1 DEF LibraryInv, CountsHold
<1>11. Solo(r) => Solo(r)'
  BY <1>1, <1>5, <1>6, <1>8, <1>9 DEF Solo
<1> QED BY <1>1, <1>4, <1>5, <1>6, <1>7, <1>8, <1>9, <1>10, <1>11 DEF Proceeds

-----------------------------------------------------------------------------
\* What a transaction has written, or is about to, it brings; and all of it is of the watchlists.
LEMMA BringsAll ==
    ASSUME LibraryInv
    PROVE  /\ \A p \in Saves : Holds(p) \subseteq Brings(p)
           /\ \A p \in Shelves!Opened : Brings(p) \subseteq Brought
           /\ Brought \in SUBSET Shelves!Shelf /\ Full \in SUBSET Shelves!Shelf
           /\ \A p \in Saves : ((rows \ tx[p].del) \cap Shelves!Shelf) \cup Brought \in SUBSET Shelves!Shelf
           /\ Cap \in Nat /\ burst \in Nat /\ excess \in Nat
           /\ Cardinality(Full) \in Nat /\ Cardinality(Full) <= Cap + excess
           /\ Shelves!Opened \subseteq Saves
<1>1. ASSUME NEW p \in Saves PROVE Holds(p) \subseteq Brings(p)
  <2>1. Fits(tx[p]) /\ tx[p].todo \in Seq(LibraryKeys)
    BY DEF LibraryInv, LibraryTyped, LibraryTx
  <2>2. tx[p].at = "upsert" => Head(tx[p].todo) \in Shelves!Range(tx[p].todo)
    BY <2>1, FirstAndRest DEF Fits
  <2> QED BY <2>2 DEF Holds, Brings
<1>2. \A p \in Shelves!Opened : Brings(p) \subseteq Brought
  BY DEF Brought
<1>3. /\ Brought \in SUBSET Shelves!Shelf /\ Full \in SUBSET Shelves!Shelf
      /\ \A p \in Saves : ((rows \ tx[p].del) \cap Shelves!Shelf) \cup Brought \in SUBSET Shelves!Shelf
  BY DEF Brought, Brings, Full, Holds
<1>4. Cap \in Nat /\ burst \in Nat /\ excess \in Nat /\ Cardinality(Full) <= Cap + excess
  BY LibraryAssumption DEF LibraryInv, LibraryTyped, CapHolds
<1>5. Cardinality(Full) \in Nat
  BY <1>3, ShelfCounts
<1> QED BY <1>1, <1>2, <1>3, <1>4, <1>5 DEF Shelves!Opened

\* Fewer entries, the same room.
LEMMA LowStays ==
    ASSUME LibraryInv, NEW p \in Saves, Low(p), burst' = burst,
           ((rows' \ tx'[p].del) \cap Shelves!Shelf) \cup Brought'
              \subseteq ((rows \ tx[p].del) \cap Shelves!Shelf) \cup Brought
    PROVE  Low(p)'
<1> DEFINE A == ((rows \ tx[p].del) \cap Shelves!Shelf) \cup Brought
           B == ((rows' \ tx'[p].del) \cap Shelves!Shelf) \cup Brought'
<1>1. A \in SUBSET Shelves!Shelf /\ B \in SUBSET A /\ B \in SUBSET Shelves!Shelf
  BY BringsAll
<1>2. Cardinality(A) <= Cap - 1 + burst
  BY DEF Low
<1> HIDE DEF A, B
<1>3. Cardinality(B) <= Cardinality(A) /\ Cardinality(A) \in Nat /\ Cardinality(B) \in Nat
  BY <1>1, ShelfCounts
<1>4. Cardinality(B) <= Cap - 1 + burst
  BY <1>2, <1>3, BringsAll
<1> QED BY <1>4 DEF Low, B

\* Less is brought, and no more than was.
LEMMA BurstStays ==
    ASSUME LibraryInv, Brought' \subseteq Brought, Shelves!Opened # {}, burst' = burst
    PROVE  BurstHolds'
<1>1. Brought' \in SUBSET Shelves!Shelf /\ Brought' \in SUBSET Brought /\ Brought \in SUBSET Shelves!Shelf
  BY BringsAll
<1>2. Cardinality(Brought') <= Cardinality(Brought) /\ Cardinality(Brought) \in Nat
      /\ Cardinality(Brought') \in Nat
  BY <1>1, ShelfCounts
<1>3. Cardinality(Brought) <= burst /\ burst \in Nat
  BY DEF LibraryInv, BurstHolds, LibraryTyped
<1> QED BY <1>2, <1>3 DEF BurstHolds

\* No more than before is at stake.
LEMMA CapStays ==
    ASSUME LibraryInv, Full' \subseteq Full, excess \in Nat, excess' \in Nat, excess <= excess'
    PROVE  CapHolds'
<1>1. Full' \in SUBSET Full /\ Full \in SUBSET Shelves!Shelf /\ Full' \in SUBSET Shelves!Shelf
  BY BringsAll
<1>2. Cardinality(Full') <= Cardinality(Full) /\ Cardinality(Full') \in Nat
  BY <1>1, ShelfCounts
<1> QED BY <1>2, BringsAll DEF CapHolds

LEMMA ProceedsKeeps == ASSUME LibraryInv, NEW r \in Saves, Proceeds(r) PROVE LibraryInv'
<1>1. /\ \A q \in Saves \ {r} : tx'[q] = tx[q]
      /\ rows' = rows /\ burst' = burst /\ excess' = excess
      /\ events' = events /\ reached' = reached /\ day' = day
  BY DEF Proceeds, Mine
<1>2. /\ r \in Shelves!Opened /\ Shelves!Opened' \subseteq Shelves!Opened
      /\ Shelves!Opened \subseteq Shelves!Opened' \cup {r}
      /\ tx'[r].at = "done" => r \notin Shelves!Opened'
  BY <1>1 DEF Proceeds, Shelves!Opened, Shelves!Open
<1>3. /\ \A q \in Saves : Brings(q)' \subseteq Brings(q)
      /\ \A q \in Saves \ {r} : Brings(q)' = Brings(q) /\ Holds(q)' = Holds(q)
  BY <1>1 DEF Proceeds, Brings, Holds
<1>4. Brought' \subseteq Brought
  BY <1>2, <1>3 DEF Brought, Shelves!Opened
<1>5. ASSUME NEW q \in Saves, Low(q), q # r \/ tx'[r].at # "done"
      PROVE  Low(q)'
  <2>1. tx[q].del \subseteq tx'[q].del
    BY <1>1, <1>5 DEF Proceeds
  <2> QED BY <1>1, <1>4, <1>5, <2>1, LowStays
<1>6. LibraryTyped'
  BY <1>1 DEF Proceeds, Mine, LibraryInv, LibraryTyped
<1>7. \A p \in Saves : Fits(tx[p])'
  BY <1>1 DEF Proceeds, LibraryInv, Fits
<1>8. BurstHolds'
  BY <1>1, <1>2, <1>4, BurstStays
<1>9. CountsHold'
  <2> SUFFICES ASSUME NEW q \in Saves, Shelves!Bulk(q)', tx'[q].at \in {"exists", "upsert"}, tx'[q].count < Cap
               PROVE  Low(q)'
    BY DEF CountsHold
  <2>1. Low(q)
    BY <1>1 DEF Proceeds, LibraryInv, CountsHold, Shelves!Bulk
  <2> QED BY <1>5, <2>1
<1>10. CapHolds'
  <2>1. ASSUME NEW q \in Shelves!Opened', ~Low(q)'
        PROVE  Holds(q)' \subseteq Full
    <3>1. q \in Shelves!Opened /\ q \in Saves /\ (q = r => tx'[r].at # "done")
      BY <1>2, <2>1 DEF Shelves!Opened
    <3>2. ~Low(q)
      BY <1>5, <2>1, <3>1
    <3>3. Holds(q) \subseteq Full
      BY <3>1, <3>2 DEF Full
    <3>4. Holds(q)' \subseteq Holds(q) \cup (rows \cap Shelves!Shelf)
      BY <1>3, <3>1, <3>2 DEF Proceeds, Holds
    <3> QED BY <3>3, <3>4 DEF Full
  <2>2. Full' \subseteq Full
    BY <1>1, <2>1 DEF Full
  <2> QED BY <1>1, <2>2, BringsAll, CapStays
<1>11. ChainHolds'
  <2>1. CASE burst - 1 <= excess
    BY <1>1, <2>1 DEF ChainHolds
  <2>2. ASSUME NEW p \in Saves, Shelves!Opened = {p}, Solo(p)
        PROVE  ChainHolds'
    <3>1. p = r /\ (Shelves!Opened' = {} \/ Shelves!Opened' = {r})
      BY <1>2, <2>2
    <3>2. Shelves!Opened' = {r} => Solo(r)'
      BY <1>2, <2>2, <3>1 DEF Proceeds
    <3> QED BY <3>1, <3>2 DEF ChainHolds
  <2> QED BY <1>2, <2>1, <2>2 DEF LibraryInv, ChainHolds
<1>12. Shelves!WatchedIsKept'
  BY <1>1 DEF LibraryInv, Shelves!WatchedIsKept, Shelves!Days
<1> QED BY <1>6, <1>7, <1>8, <1>9, <1>10, <1>11, <1>12 DEF LibraryInv

\* A commit saves of the seconds no less than what it reached.
LEMMA CommitWatched ==
    ASSUME LibraryInv, NEW r \in Saves, Shelves!Commit(r)
    PROVE  /\ Shelves!WatchedIsKept' /\ events' \in [Episodes \X Shelves!Days -> Spots \cup {0}]
           /\ reached' \in [Episodes \X Shelves!Days -> Spots \cup {0}]
<1>1. /\ events \in [Episodes \X Shelves!Days -> Spots \cup {0}]
      /\ reached \in [Episodes \X Shelves!Days -> Spots \cup {0}]
      /\ tx[r].spot \in Spots \cup {0} /\ Spots \cup {0} \subseteq Nat /\ day' = day
  BY LibraryAssumption DEF LibraryInv, LibraryTyped, LibraryTx, Shelves!Commit
<1>2. /\ events' = [ed \in Episodes \X Shelves!Days |->
                      IF /\ tx[r].kind = "save" /\ ed[1] \in tx[r].ins /\ ed[2] = tx[r].day
                         /\ tx[r].spot > events[ed]
                      THEN tx[r].spot ELSE events[ed]]
      /\ reached' = [ed \in Episodes \X Shelves!Days |->
                      IF /\ tx[r].kind = "save" /\ ed \in tx[r].ins \X {tx[r].day}
                         /\ tx[r].spot > reached[ed]
                      THEN tx[r].spot ELSE reached[ed]]
  BY DEF Shelves!Commit, Shelves!EventSaved
<1>3. ASSUME NEW ed \in Episodes \X Shelves!Days
      PROVE  /\ events'[ed] \in Spots \cup {0} /\ reached'[ed] \in Spots \cup {0}
             /\ events[ed] >= reached[ed] => events'[ed] >= reached'[ed]
  <2>1. ed \in tx[r].ins \X {tx[r].day} <=> ed[1] \in tx[r].ins /\ ed[2] = tx[r].day
    OBVIOUS
  <2>2. events[ed] \in Spots \cup {0} /\ reached[ed] \in Spots \cup {0}
    BY <1>1
  <2>3. /\ events'[ed] = IF /\ tx[r].kind = "save" /\ ed[1] \in tx[r].ins /\ ed[2] = tx[r].day
                            /\ tx[r].spot > events[ed]
                         THEN tx[r].spot ELSE events[ed]
        /\ reached'[ed] = IF /\ tx[r].kind = "save" /\ ed[1] \in tx[r].ins /\ ed[2] = tx[r].day
                             /\ tx[r].spot > reached[ed]
                          THEN tx[r].spot ELSE reached[ed]
    BY <1>2, <2>1
  <2> QED BY <1>1, <2>2, <2>3
<1>4. \A ed \in Episodes \X Shelves!Days : ed[2] >= day - Retention => events[ed] >= reached[ed]
  BY DEF LibraryInv, Shelves!WatchedIsKept
<1>5. Shelves!WatchedIsKept'
  BY <1>1, <1>3, <1>4 DEF Shelves!WatchedIsKept
<1>6. /\ events' \in [Episodes \X Shelves!Days -> Spots \cup {0}]
      /\ reached' \in [Episodes \X Shelves!Days -> Spots \cup {0}]
  BY <1>2, <1>3
<1> QED BY <1>5, <1>6

LEMMA CommitKeeps == ASSUME LibraryInv, NEW r \in Saves, Shelves!Commit(r) PROVE LibraryInv'
<1>1. /\ tx[r].at = "commit" /\ tx' = [tx EXCEPT ![r] = [Shelves!NoTx EXCEPT !.at = "done"]]
      /\ rows' = (rows \ tx[r].del) \cup tx[r].ins /\ UNCHANGED <<day, burst, excess>>
  BY DEF Shelves!Commit, Shelves!Seen
<1>2. /\ tx' \in [Saves -> LibraryTx] /\ \A q \in Saves \ {r} : tx'[q] = tx[q]
      /\ tx'[r].at = "done" /\ Fits(tx'[r]) /\ tx'[r].kind = "none"
  <2>1. tx \in [Saves -> LibraryTx]
    BY DEF LibraryInv, LibraryTyped
  <2>2. [Shelves!NoTx EXCEPT !.at = "done"].kind = "none"
    BY DEF Shelves!NoTx
  <2> QED BY <1>1, <2>1, <2>2, NoTxIs
<1>3. r \in Shelves!Opened /\ Shelves!Opened' = Shelves!Opened \ {r}
  BY <1>1, <1>2 DEF Shelves!Opened, Shelves!Open
<1>4. \A q \in Saves \ {r} : Brings(q)' = Brings(q) /\ Holds(q)' = Holds(q)
  BY <1>2 DEF Brings, Holds
<1>5. Brought' \subseteq Brought
  BY <1>3, <1>4 DEF Brought, Shelves!Opened
<1>6. tx[r].ins \cap Shelves!Shelf \subseteq Brought /\ tx[r].ins \cap Shelves!Shelf = Holds(r)
  BY <1>1, <1>3 DEF Brought, Brings, Holds
<1>7. ASSUME NEW q \in Saves \ {r}, Low(q)
      PROVE  Low(q)'
  <2>1. tx'[q].del = tx[q].del
    BY <1>2
  <2> QED BY <1>1, <1>5, <1>6, <1>7, <2>1, LowStays
<1>8. LibraryTyped'
  <2>1. tx[r].ins \subseteq LibraryKeys /\ rows \subseteq LibraryKeys
    BY DEF LibraryInv, LibraryTyped, LibraryTx
  <2> QED BY <1>1, <1>2, <2>1, CommitWatched DEF LibraryInv, LibraryTyped
<1>9. \A p \in Saves : Fits(tx[p])'
  BY <1>2 DEF LibraryInv, Fits
<1>10. BurstHolds'
  BY <1>1, <1>3, <1>5, BurstStays
<1>11. CountsHold'
  <2> SUFFICES ASSUME NEW q \in Saves, Shelves!Bulk(q)', tx'[q].at \in {"exists", "upsert"}, tx'[q].count < Cap
               PROVE  Low(q)'
    BY DEF CountsHold
  <2>1. q # r /\ Low(q)
    BY <1>2 DEF LibraryInv, CountsHold, Shelves!Bulk
  <2> QED BY <1>7, <2>1
<1>12. CapHolds'
  <2>1. ASSUME NEW q \in Shelves!Opened', ~Low(q)'
        PROVE  Holds(q)' \subseteq Full /\ Holds(q)' \subseteq Brought
    <3>1. q \in Shelves!Opened /\ q \in Saves \ {r}
      BY <1>3, <2>1 DEF Shelves!Opened
    <3>2. ~Low(q)
      BY <1>7, <2>1, <3>1
    <3>3. Holds(q) \subseteq Full
      BY <3>1, <3>2 DEF Full
    <3>4. Holds(q) \subseteq Brought
      BY <3>1, BringsAll
    <3> QED BY <1>4, <3>1, <3>3, <3>4
  <2>2. CASE ~Low(r)
    <3>1. Holds(r) \subseteq Full
      BY <1>3, <2>2 DEF Full
    <3>2. Full' \subseteq Full
      BY <1>1, <1>6, <2>1, <3>1 DEF Full
    <3> QED BY <1>1, <3>2, BringsAll, CapStays
  <2>3. CASE Low(r) /\ burst - 1 <= excess
    <3> DEFINE A == ((rows \ tx[r].del) \cap Shelves!Shelf) \cup Brought
               B == Full'
    <3>1. B \subseteq A
      BY <1>1, <1>6, <2>1 DEF Full
    <3>2. A \in SUBSET Shelves!Shelf /\ B \in SUBSET A
      BY <3>1, BringsAll
    <3>3. Cardinality(A) <= Cap - 1 + burst
      BY <2>3 DEF Low
    <3> HIDE DEF A, B
    <3>4. B \in SUBSET Shelves!Shelf
      BY <3>2
    <3>5. Cardinality(B) <= Cardinality(A) /\ Cardinality(A) \in Nat /\ Cardinality(B) \in Nat
      BY <3>2, <3>4, ShelfCounts
    <3>6. Cap \in Nat /\ burst \in Nat /\ excess \in Nat
      BY BringsAll
    <3>7. Cardinality(B) <= Cap + excess
      BY <2>3, <3>3, <3>5, <3>6
    <3> QED BY <1>1, <3>7 DEF CapHolds, B
  <2>4. ASSUME NEW p \in Saves, Shelves!Opened = {p}, Solo(p)
        PROVE  CapHolds'
    <3>1. p = r /\ Shelves!Opened' = {}
      BY <1>3, <2>4
    <3>2. Full' = rows' \cap Shelves!Shelf
      BY <3>1 DEF Full
    <3>3. Full' \in SUBSET Sees(r)
      BY <1>1, <3>2 DEF Sees, Shelves!Seen
    <3>4. Sees(r) \in SUBSET Shelves!Shelf
      BY DEF Sees, Holds
    <3>5. Full' \in SUBSET Shelves!Shelf
      BY <3>3, <3>4
    <3>6. Cardinality(Full') <= Cardinality(Sees(r)) /\ Cardinality(Sees(r)) \in Nat
          /\ Cardinality(Full') \in Nat
      BY <3>3, <3>4, <3>5, ShelfCounts
    <3>7. CASE Sees(r) \subseteq rows
      <4>1. Full' \subseteq Full
        BY <3>3, <3>4, <3>7 DEF Full
      <4> QED BY <1>1, <4>1, BringsAll, CapStays
    <3>8. CASE Cardinality(Sees(r)) <= Cap
      <4>1. Cardinality(Full') <= Cap + excess
        BY <3>6, <3>8, BringsAll
      <4> QED BY <1>1, <4>1 DEF CapHolds
    <3> QED BY <2>4, <3>1, <3>7, <3>8 DEF Solo
  <2> QED BY <1>3, <2>2, <2>3, <2>4 DEF LibraryInv, ChainHolds
<1>13. ChainHolds'
  <2>1. ASSUME NEW p \in Saves, Shelves!Opened = {p} PROVE Shelves!Opened' = {}
    BY <1>3, <2>1
  <2> QED BY <1>1, <1>3, <2>1 DEF LibraryInv, ChainHolds
<1> QED BY <1>8, <1>9, <1>10, <1>11, <1>12, <1>13, CommitWatched DEF LibraryInv

LEMMA BeganKeeps ==
    ASSUME LibraryInv, NEW r \in Saves, Began(r), LibraryTyped', Fits(tx'[r])
    PROVE  LibraryInv'
<1> DEFINE n == Len(tx'[r].todo)
           New == Brings(r)'
<1>1. /\ \A q \in Saves \ {r} : tx'[q] = tx[q]
      /\ tx[r].at = "none" /\ tx'[r] \in LibraryTx /\ tx'[r].at \in {"exists", "count", "delete"}
      /\ tx'[r].ins = {} /\ tx'[r].del = {} /\ UNCHANGED <<rows, events, day, reached>>
      /\ tx'[r].kind \in {"merge", "replace"} => tx'[r].at # "exists"
      /\ burst' = n + (IF Shelves!Opened = {} THEN 0 ELSE burst)
      /\ excess' = IF Shelves!Opened = {} \/ burst' <= excess THEN excess ELSE burst' - 1
  BY DEF Began, Mine
<1>2. r \notin Shelves!Opened /\ Shelves!Opened' = Shelves!Opened \cup {r}
  BY <1>1 DEF Shelves!Opened, Shelves!Open
<1>3. \A q \in Saves \ {r} : Brings(q)' = Brings(q) /\ Holds(q)' = Holds(q)
  BY <1>1 DEF Brings, Holds
<1>4. n \in Nat /\ New \in SUBSET Shelves!Shelf /\ Cardinality(New) <= n /\ Cardinality(New) \in Nat
  <2>1. tx'[r].todo \in Seq(LibraryKeys)
    BY <1>1 DEF LibraryTx
  <2>2. New = Shelves!Range(tx'[r].todo) \cap Shelves!Shelf
    BY <1>1 DEF Brings
  <2>3. n \in Nat /\ New \in SUBSET Shelves!Shelf /\ Cardinality(New) <= n
    BY <2>1, <2>2, FileBrings
  <2> HIDE DEF New, n
  <2> QED BY <2>3, ShelfCounts
<1>5. Brought' = Brought \cup New
  BY <1>2, <1>3 DEF Brought, Shelves!Opened
<1>6. Holds(r)' = {}
  BY <1>1 DEF Holds
<1> HIDE DEF n, New
<1>7. /\ Brought \in SUBSET Shelves!Shelf /\ burst \in Nat /\ excess \in Nat /\ Cap \in Nat
      /\ excess' \in Nat /\ excess <= excess' /\ burst' \in Nat
      /\ Cardinality(Brought) \in Nat /\ (Shelves!Opened = {} => Brought = {})
  <2>1. Shelves!Opened = {} => Brought = {}
    BY DEF Brought
  <2>2. Cardinality(Brought) \in Nat
    BY BringsAll, ShelfCounts
  <2> QED BY <1>1, <1>4, <2>1, <2>2, BringsAll
<1>8. ASSUME NEW q \in Shelves!Opened, Low(q)
      PROVE  Low(q)'
  <2> DEFINE A == ((rows \ tx[q].del) \cap Shelves!Shelf) \cup Brought
  <2>1. q \in Saves \ {r}
    BY <1>2 DEF Shelves!Opened
  <2>2. A \in SUBSET Shelves!Shelf /\ Cardinality(A) <= Cap - 1 + burst /\ burst' = n + burst
    BY <1>1, <1>8, <2>1, BringsAll DEF Low
  <2>3. ((rows' \ tx'[q].del) \cap Shelves!Shelf) \cup Brought' = A \cup New
    BY <1>1, <1>5, <2>1
  <2> HIDE DEF A
  <2>4. /\ Cardinality(A \cup New) \in Nat /\ Cardinality(A) \in Nat
        /\ Cardinality(A \cup New) <= Cardinality(A) + Cardinality(New)
    BY <1>4, <2>2, ShelfUnion
  <2>5. Cardinality(A \cup New) <= Cap - 1 + burst'
    BY <1>4, <1>7, <2>2, <2>4
  <2> QED BY <2>3, <2>5 DEF Low
<1>9. \A p \in Saves : Fits(tx[p])'
  BY <1>1 DEF LibraryInv, Fits
<1>10. BurstHolds'
  <2>1. CASE Shelves!Opened = {}
    <3>1. Brought' = New /\ burst' = n
      BY <1>1, <1>4, <1>5, <1>7, <2>1
    <3> QED BY <1>4, <3>1 DEF BurstHolds
  <2>2. CASE Shelves!Opened # {}
    <3>1. Cardinality(Brought) <= burst /\ burst' = n + burst
      BY <1>1, <2>2 DEF LibraryInv, BurstHolds
    <3>2. /\ Cardinality(Brought \cup New) \in Nat
          /\ Cardinality(Brought \cup New) <= Cardinality(Brought) + Cardinality(New)
      BY <1>4, <1>7, ShelfUnion
    <3>3. Cardinality(Brought \cup New) <= burst'
      BY <1>4, <1>7, <3>1, <3>2
    <3> QED BY <1>5, <3>3 DEF BurstHolds
  <2> QED BY <2>1, <2>2
<1>11. CountsHold'
  <2> SUFFICES ASSUME NEW q \in Saves, Shelves!Bulk(q)', tx'[q].at \in {"exists", "upsert"}, tx'[q].count < Cap
               PROVE  Low(q)'
    BY DEF CountsHold
  <2>1. q # r
    BY <1>1 DEF Shelves!Bulk
  <2>2. Low(q) /\ q \in Shelves!Opened
    BY <1>1, <2>1 DEF LibraryInv, CountsHold, Shelves!Bulk, Shelves!Opened, Shelves!Open
  <2> QED BY <1>8, <2>2
<1>12. CapHolds'
  <2>1. ASSUME NEW q \in Shelves!Opened', ~Low(q)'
        PROVE  Holds(q)' \subseteq Full
    <3>1. CASE q = r
      BY <1>6, <3>1
    <3>2. CASE q # r
      <4>1. q \in Shelves!Opened /\ q \in Saves \ {r}
        BY <1>2, <2>1, <3>2 DEF Shelves!Opened
      <4>2. ~Low(q)
        BY <1>8, <2>1, <4>1
      <4> QED BY <1>3, <4>1, <4>2 DEF Full
    <3> QED BY <3>1, <3>2
  <2>2. Full' \subseteq Full
    BY <1>1, <2>1 DEF Full
  <2> QED BY <1>7, <2>2, CapStays
<1>13. ChainHolds'
  <2>1. CASE Shelves!Opened = {}
    <3>1. Shelves!Opened' = {r}
      BY <1>2, <2>1
    <3>2. Sees(r)' \subseteq rows'
      BY <1>1, <1>6 DEF Sees, Shelves!Seen
    <3>3. Solo(r)'
      BY <1>1, <3>2 DEF Solo, Shelves!Bulk
    <3> QED BY <3>1, <3>3 DEF ChainHolds
  <2>2. CASE Shelves!Opened # {}
    <3>1. burst' - 1 <= excess'
      BY <1>1, <1>7, <2>2
    <3> QED BY <3>1 DEF ChainHolds
  <2> QED BY <2>1, <2>2
<1>14. Shelves!WatchedIsKept'
  BY <1>1 DEF LibraryInv, Shelves!WatchedIsKept, Shelves!Days
<1> QED BY <1>9, <1>10, <1>11, <1>12, <1>13, <1>14 DEF LibraryInv

LEMMA LibraryInit == Shelves!Init => LibraryInv
<1> SUFFICES ASSUME Shelves!Init PROVE LibraryInv
  OBVIOUS
<1>1. /\ rows = {} /\ day = 1 /\ burst = 0 /\ excess = 0 /\ tx = [r \in Saves |-> Shelves!NoTx]
      /\ events = [ed \in Episodes \X Shelves!Days |-> 0] /\ reached = events
      /\ 1 \in Shelves!Days /\ Cap \in Nat
  BY LibraryAssumption DEF Shelves!Init, Shelves!Days
<1>2. LibraryTyped
  BY <1>1, NoTxIs DEF LibraryTyped
<1>3. /\ \A p \in Saves : tx[p] = Shelves!NoTx /\ Fits(tx[p]) /\ tx[p].kind = "none"
      /\ Shelves!Opened = {}
  BY <1>1, NoTxIs DEF Shelves!Opened, Shelves!Open, Fits
<1>4. Full = {}
  BY <1>1, <1>3 DEF Full
<1>5. CapHolds
  BY <1>1, <1>4, FS_EmptySet DEF CapHolds
<1>6. BurstHolds /\ CountsHold /\ ChainHolds
  BY <1>3 DEF BurstHolds, CountsHold, ChainHolds, Shelves!Bulk
<1>7. Shelves!WatchedIsKept
  BY <1>1 DEF Shelves!WatchedIsKept
<1> QED BY <1>2, <1>3, <1>5, <1>6, <1>7 DEF LibraryInv

\* Neither the purge nor midnight touches a transaction; the purge takes only what is past its days.
LEMMA DaysKeep ==
    ASSUME LibraryInv, Shelves!PurgeExpired \/ Shelves!Midnight
    PROVE  LibraryInv' /\ rows' = rows
<1>1. /\ rows' = rows /\ tx' = tx /\ burst' = burst /\ excess' = excess /\ reached' = reached
      /\ events \in [Episodes \X Shelves!Days -> Spots \cup {0}] /\ day \in Shelves!Days
      /\ Retention \in Nat /\ MaxDay \in Nat
  BY LibraryAssumption DEF LibraryInv, LibraryTyped, Shelves!PurgeExpired, Shelves!Midnight
<1>2. /\ \A p \in Saves : Fits(tx[p])'
      /\ BurstHolds' /\ CountsHold' /\ CapHolds' /\ ChainHolds'
  <2>1. /\ Brought' = Brought /\ Full' = Full /\ Shelves!Opened' = Shelves!Opened
        /\ \A p \in Saves : Low(p)' = Low(p) /\ Solo(p)' = Solo(p)
                            /\ Shelves!Bulk(p)' = Shelves!Bulk(p)
    BY <1>1 DEF Brought, Brings, Full, Holds, Shelves!Opened, Shelves!Open, Low, Solo, Sees,
                Shelves!Seen, Shelves!Bulk
  <2>2. BurstHolds' /\ CapHolds'
    BY <1>1, <2>1 DEF LibraryInv, BurstHolds, CapHolds
  <2>3. CountsHold' /\ ChainHolds'
    BY <1>1, <2>1 DEF LibraryInv, CountsHold, ChainHolds
  <2> QED BY <1>1, <2>2, <2>3 DEF LibraryInv, Fits
<1>3. /\ events' \in [Episodes \X Shelves!Days -> Spots \cup {0}] /\ day' \in Shelves!Days
      /\ Shelves!WatchedIsKept'
  <2>1. CASE Shelves!PurgeExpired
    <3>1. /\ day' = day
          /\ events' = [ed \in Episodes \X Shelves!Days |-> IF ed[2] < day - Retention THEN 0 ELSE events[ed]]
      BY <2>1 DEF Shelves!PurgeExpired
    <3>2. events' \in [Episodes \X Shelves!Days -> Spots \cup {0}]
      BY <1>1, <3>1
    <3>3. ASSUME NEW ed \in Episodes \X Shelves!Days, ed[2] >= day - Retention
          PROVE  events'[ed] >= reached[ed]
      <4>1. ed[2] \in Int /\ day - Retention \in Int /\ ~(ed[2] < day - Retention)
        BY <1>1, <3>3 DEF Shelves!Days
      <4>2. events'[ed] = events[ed]
        BY <3>1, <4>1
      <4> QED BY <3>3, <4>2 DEF LibraryInv, Shelves!WatchedIsKept
    <3> QED BY <1>1, <3>1, <3>2, <3>3 DEF Shelves!WatchedIsKept
  <2>2. CASE Shelves!Midnight
    <3>1. day' = day + 1 /\ day < MaxDay /\ events' = events /\ day' \in Shelves!Days
      BY <1>1, <2>2 DEF Shelves!Midnight, Shelves!Days
    <3>2. ASSUME NEW ed \in Episodes \X Shelves!Days, ed[2] >= day' - Retention
          PROVE  events[ed] >= reached[ed]
      <4>1. ed[2] >= day - Retention
        BY <1>1, <3>1, <3>2 DEF Shelves!Days
      <4> QED BY <4>1 DEF LibraryInv, Shelves!WatchedIsKept
    <3> QED BY <1>1, <3>1, <3>2 DEF Shelves!WatchedIsKept, Shelves!Days
  <2> QED BY <2>1, <2>2
<1>4. LibraryTyped'
  BY <1>1, <1>3 DEF LibraryInv, LibraryTyped
<1> QED BY <1>1, <1>2, <1>3, <1>4 DEF LibraryInv

\* A commit that leaves nothing is of a removal, or of a replacement, that wrote nothing.
LEMMA CommitEmpties ==
    ASSUME LibraryInv, NEW r \in Saves, Shelves!Commit(r)
    PROVE  Shelves!ByRemovalOnly
<1> SUFFICES ASSUME rows \cap Shelves!Shelf # {}, rows' \cap Shelves!Shelf = {}
             PROVE  /\ tx[r].at = "commit" /\ tx'[r].at = "done"
                    /\ tx[r].kind \in {"remove", "replace"} /\ tx[r].ins = {}
  BY DEF Shelves!ByRemovalOnly
<1>1. /\ tx[r].at = "commit" /\ tx' = [tx EXCEPT ![r] = [Shelves!NoTx EXCEPT !.at = "done"]]
      /\ rows' = (rows \ tx[r].del) \cup tx[r].ins /\ tx \in [Saves -> LibraryTx] /\ Fits(tx[r])
  BY DEF LibraryInv, LibraryTyped, Shelves!Commit, Shelves!Seen
<1>2. tx'[r].at = "done"
  BY <1>1, NoTxIs
<1>3. tx[r].del # {} /\ tx[r].ins \cap Shelves!Shelf = {}
  BY <1>1
<1>4. tx[r].kind \in {"remove", "replace"} /\ tx[r].ins = {}
  BY <1>1, <1>3 DEF Fits
<1> QED BY <1>1, <1>2, <1>4

LEMMA LibraryStep ==
    ASSUME LibraryInv, [Shelves!Next]_libraryVars
    PROVE  LibraryInv' /\ [Shelves!ByRemovalOnly]_libraryVars
<1>1. ASSUME NEW r \in Saves,
             \/ Shelves!DeleteBegins(r) \/ Shelves!Delete(r) \/ Shelves!CountRows(r)
             \/ Shelves!Exists(r) \/ Shelves!Upsert(r) \/ Shelves!Rollback(r)
      PROVE  LibraryInv' /\ Shelves!ByRemovalOnly
  <2>1. CASE Shelves!Rollback(r)
    <3>1. Proceeds(r)
      BY <2>1, EndProceeds DEF Shelves!Rollback, Shelves!Open
    <3> QED BY <3>1, ProceedsKeeps DEF Proceeds, Shelves!ByRemovalOnly
  <2>2. CASE ~Shelves!Rollback(r)
    <3>1. Proceeds(r)
      BY <1>1, <2>2, DeleteProceeds, CountProceeds, ExistsProceeds, UpsertProceeds
    <3> QED BY <3>1, ProceedsKeeps DEF Proceeds, Shelves!ByRemovalOnly
  <2> QED BY <2>1, <2>2
<1>2. ASSUME NEW r \in Saves,
             \/ \E k \in Shelves!Shelf : Shelves!Add(r, k)
             \/ \E e \in Episodes : Shelves!Forget(r, e) \/ \E s \in Spots : Shelves!Save(r, e, s)
             \/ \E file \in Shelves!Files : Shelves!Import(r, file) \/ Shelves!Replace(r, file)
             \/ \E i \in Items, lists \in {{l} : l \in Lists} \cup {Lists} : Shelves!Remove(r, i, lists)
      PROVE  LibraryInv' /\ Shelves!ByRemovalOnly
  <2>1. Began(r) /\ LibraryTyped' /\ Fits(tx'[r])
    BY <1>2, RequestsBegin DEF LibraryInv
  <2> QED BY <2>1, BeganKeeps DEF Began, Shelves!ByRemovalOnly
<1>3. ASSUME NEW r \in Saves, Shelves!Commit(r) PROVE LibraryInv' /\ Shelves!ByRemovalOnly
  BY <1>3, CommitKeeps, CommitEmpties
<1>4. ASSUME Shelves!PurgeExpired \/ Shelves!Midnight PROVE LibraryInv' /\ Shelves!ByRemovalOnly
  BY <1>4, DaysKeep DEF Shelves!ByRemovalOnly
<1>5. CASE UNCHANGED libraryVars
  <2>1. /\ rows' = rows /\ tx' = tx /\ burst' = burst /\ excess' = excess /\ reached' = reached
        /\ events' = events /\ day' = day
    BY <1>5 DEF libraryVars
  <2>2. /\ Brought' = Brought /\ Full' = Full /\ Shelves!Opened' = Shelves!Opened
        /\ \A p \in Saves : Low(p)' = Low(p) /\ Solo(p)' = Solo(p)
                            /\ Shelves!Bulk(p)' = Shelves!Bulk(p)
    BY <2>1 DEF Brought, Brings, Full, Holds, Shelves!Opened, Shelves!Open, Low, Solo, Sees,
                Shelves!Seen, Shelves!Bulk
  <2>3. BurstHolds' /\ CapHolds'
    BY <2>1, <2>2 DEF LibraryInv, BurstHolds, CapHolds
  <2>4. CountsHold' /\ ChainHolds'
    BY <2>1, <2>2 DEF LibraryInv, CountsHold, ChainHolds
  <2>5. LibraryTyped' /\ Shelves!WatchedIsKept' /\ \A p \in Saves : Fits(tx[p])'
    BY <2>1 DEF LibraryInv, LibraryTyped, Shelves!WatchedIsKept, Fits, Shelves!Days
  <2> QED BY <1>5, <2>3, <2>4, <2>5 DEF LibraryInv
<1>6. CASE Shelves!Next
  BY <1>1, <1>2, <1>3, <1>4, <1>6 DEF Shelves!Next
<1> QED BY <1>5, <1>6

LEMMA LibrarySafe == LibraryInv => Shelves!QuotaHolds /\ Shelves!WatchedIsKept
<1> SUFFICES ASSUME LibraryInv PROVE Shelves!QuotaHolds /\ Shelves!WatchedIsKept
  OBVIOUS
<1>1. Full \in SUBSET Shelves!Shelf /\ rows \cap Shelves!Shelf \in SUBSET Full
      /\ rows \cap Shelves!Shelf \in SUBSET Shelves!Shelf
  BY BringsAll DEF Full
<1>2. Cardinality(rows \cap Shelves!Shelf) <= Cardinality(Full)
      /\ Cardinality(rows \cap Shelves!Shelf) \in Nat
  BY <1>1, ShelfCounts
<1>3. Cardinality(rows \cap Shelves!Shelf) <= Cap + excess
  BY <1>2, BringsAll
<1> QED BY <1>3 DEF Shelves!QuotaHolds, Cardinality, Shelves!Cardinality, LibraryInv

-----------------------------------------------------------------------------
(* The composition that the run checks.                                    *)

HIDE DEF Next, Wall!Next, Credential!Next, Desk!Next, Shelves!Next

\* A component that runs takes its own steps, and the ones that rest stand still.
LEMMA PartsAlone ==
    ASSUME [AllNext]_<<part, vars, wallVars, linksVars, deskVars, libraryVars>>
    PROVE  /\ UNCHANGED part
           /\ [part = "register" /\ Next]_vars /\ [Wall!Next]_wallVars
           /\ [Credential!Next]_linksVars /\ [Desk!Next]_deskVars
           /\ [Shelves!Next]_libraryVars
<1>1. CASE AllNext
  BY <1>1 DEF AllNext
<1>2. CASE UNCHANGED <<part, vars, wallVars, linksVars, deskVars, libraryVars>>
  BY <1>2
<1> QED BY <1>1, <1>2

\* What is single use serves one request, in the composition (consume_invite_token,
\* consume_challenge, consume_email_token), and a refused sign-up burns nothing.
THEOREM OneIsServed == AllSpec => []ServesOne
<1>1. AllInit => IInv /\ LinksInv
  BY InitIInv, LinksInit DEF AllInit
<1>2. IInv /\ LinksInv /\ [AllNext]_<<part, vars, wallVars, linksVars, deskVars, libraryVars>>
      => IInv' /\ LinksInv'
  BY PartsAlone, NextIInv, LinksStep
<1>3. IInv /\ LinksInv => ServesOne
  BY InviteSafe, ChallengeSafe, FallbackSafe, LinksSafe DEF ServesOne
<1> QED BY <1>1, <1>2, <1>3, PTL DEF AllSpec

\* Whoever is out stays out, in the composition: of an account that is deleted no session and no
\* live link is left (delete_account), and a revoked session or key passes the wall for its TTL
\* at the longest (LoginWall), for any accounts, links, credentials, requests and times.
THEOREM OutStaysOut == AllSpec => []StaysOut
<1>1. AllInit => WallInv /\ LinksInv
  BY WallInit, LinksInit DEF AllInit
<1>2. WallInv /\ LinksInv /\ [AllNext]_<<part, vars, wallVars, linksVars, deskVars, libraryVars>>
      => WallInv' /\ LinksInv'
  BY PartsAlone, WallStep, LinksStep
<1>3. WallInv /\ LinksInv => StaysOut
  BY WallSafe, LinksSafe DEF StaysOut
<1> QED BY <1>1, <1>2, <1>3, PTL DEF AllSpec

\* While the process holds its broadcast flag a broadcast is under way or about to be: a click on
\* Send is refused for no other reason (admin_routes.py), for any administrators and requests.
THEOREM FlagIsLet == AllSpec => []FlagFalls
<1>1. AllInit => DeskInv
  BY DeskInit DEF AllInit
<1>2. DeskInv /\ [AllNext]_<<part, vars, wallVars, linksVars, deskVars, libraryVars>> => DeskInv'
  BY PartsAlone, DeskStep
<1>3. DeskInv => FlagFalls
  BY DEF DeskInv, FlagFalls
<1> QED BY <1>1, <1>2, <1>3, PTL DEF AllSpec

\* What a viewer's library is promised, for any requests, cap, files, positions and days: the cap is
\* passed by less than what overlapping transactions write (_enforce_cap), what a day of the
\* retention knows of an episode never shrinks (record_watch_event), and readers find the watchlists
\* emptied only by a removal or by a replacement that wrote nothing (import_favorites).
THEOREM LibraryKept == AllSpec => LibraryHolds
<1>1. AllInit => LibraryInv
  BY LibraryInit DEF AllInit
<1>2. LibraryInv /\ [AllNext]_<<part, vars, wallVars, linksVars, deskVars, libraryVars>>
      => LibraryInv' /\ [Shelves!ByRemovalOnly]_libraryVars
  BY PartsAlone, LibraryStep
<1>3. LibraryInv => (part = "library" => Shelves!QuotaHolds /\ Shelves!WatchedIsKept)
  BY LibrarySafe
<1>4. [Shelves!ByRemovalOnly]_libraryVars => [Shelves!ByRemovalOnly]_Shelves!vars
  BY DEF libraryVars, Shelves!vars
<1>5. AllSpec => [](LibraryInv /\ (part = "library" => Shelves!QuotaHolds /\ Shelves!WatchedIsKept))
                 /\ [][Shelves!ByRemovalOnly]_Shelves!vars
  BY <1>1, <1>2, <1>3, <1>4, PTL DEF AllSpec
<1> QED BY <1>5, PTL DEF LibraryHolds, Shelves!NeverEmptied

\* Every component's state has its type, in the composition, for any constants.
THEOREM AccountsTyped == AllSpec => []Typed
<1> DEFINE Held == /\ part \in Parts /\ IInv /\ WallInv /\ LinksInv /\ DeskInv /\ DeskTyped
                   /\ LibraryInv
           Turn == [AllNext]_<<part, vars, wallVars, linksVars, deskVars, libraryVars>>
<1>1. AllInit => Held
  BY InitIInv, WallInit, LinksInit, DeskInit, DeskTypedInit, LibraryInit DEF AllInit
<1>2. Held /\ Turn => Held'
  BY PartsAlone, NextIInv, WallStep, LinksStep, DeskStep, DeskTypedStep, LibraryStep DEF DeskInv
<1>3. ASSUME Held PROVE Typed
  <2>1. TypeOK /\ Wall!TypeOK /\ Credential!TypeOK
    BY <1>3, CredentialTyped DEF IInv, WallInv, LinksInv
  <2>2. Desk!TypeOK
    BY <1>3 DEF DeskInv, MailTyped, DeskTyped, Desk!TypeOK, Role, AnAct
  <2>3. Shelves!TypeOK
    <3>1. LibraryTyped
      BY <1>3 DEF LibraryInv
    <3>2. ASSUME NEW r \in Saves
          PROVE  /\ tx[r].kind \in {"none", "add", "save", "merge", "replace", "remove"}
                 /\ tx[r].at \in Shelves!Stages
                 /\ UNION {Shelves!Range(tx[r].todo), tx[r].aims, tx[r].ins, tx[r].del} \subseteq LibraryKeys
                 /\ tx[r].count \in Nat /\ tx[r].day \in Shelves!Days /\ tx[r].spot \in Spots \cup {0}
      <4>1. tx[r] \in LibraryTx
        BY <3>1 DEF LibraryTyped
      <4>2. Shelves!Range(tx[r].todo) \subseteq LibraryKeys
        BY <4>1, FileBrings DEF LibraryTx
      <4> QED BY <4>1, <4>2 DEF LibraryTx
    <3> QED BY <3>1, <3>2 DEF LibraryTyped, LibraryKeys, Shelves!TypeOK
  <2> QED BY <1>3, <2>1, <2>2, <2>3 DEF Typed
<1> HIDE DEF Held, Turn
<1> QED BY <1>1, <1>2, <1>3, PTL DEF AllSpec, Turn

=============================================================================
