----------------------------- MODULE OutsideProofs ------------------------------
(***************************************************************************)
(* Proofs about what stands in front of services and files outside the     *)
(* database, each part by itself and in the composition: work that many    *)
(* requests share is done once, what is off stops, an outage is covered by *)
(* a copy, and a budget bounds the chat.                                   *)
(***************************************************************************)
EXTENDS MCOutside, Sequences, FiniteSetTheorems, SequenceTheorems, WellFoundedInduction, TLAPS

\* A component that runs takes its own steps, and the ones that rest stand still.
LEMMA PartsAlone ==
    ASSUME [AllNext]_<<part, vars, scanVars, tvVars, chatVars, matchVars, sessionVars, healthVars,
                       titlesVars, ownVars, botVars>>
    PROVE  /\ UNCHANGED part /\ [part = "scan" /\ Scan!Next]_scanVars
           /\ [part = "local" /\ Next]_vars /\ [part = "tv" /\ Tv!Next]_tvVars
           /\ [part = "chat" /\ Chatting!Next]_chatVars
           /\ [part = "match" /\ Match!Next]_matchVars /\ [part = "own" /\ Own!Next]_ownVars
           /\ [part = "session" /\ Session!Next]_sessionVars
           /\ [part = "health" /\ Health!Next]_healthVars
           /\ [part = "titles" /\ Titles!Next]_titlesVars
           /\ [part = "bot" /\ Bot!Next]_botVars
<1>1. CASE UNCHANGED <<part, vars, scanVars, tvVars, chatVars, matchVars, sessionVars, healthVars,
                       titlesVars, ownVars, botVars>>
  BY <1>1
<1>2. CASE AllNext
  BY <1>2 DEF AllNext
<1> QED BY <1>1, <1>2

LEMMA AtMostOne == ASSUME NEW S, NEW x, S \subseteq {x} PROVE Cardinality(S) <= 1
<1>1. S = {} \/ S = {x}
  OBVIOUS
<1>2. Cardinality({}) = 0 /\ Cardinality({x}) = 1
  BY FS_EmptySet, FS_Singleton
<1>3. CASE S = {}
  BY <1>2, <1>3
<1>4. CASE S = {x}
  BY <1>2, <1>4
<1> QED BY <1>1, <1>3, <1>4

\* A part counts as the library does.
LEMMA Counts ==
    \A S : /\ Session!Cardinality(S) = Cardinality(S)
          /\ Titles!Cardinality(S) = Cardinality(S)
          /\ Tv!Cardinality(S) = Cardinality(S)
          /\ Chatting!Cardinality(S) = Cardinality(S)
  BY DEF Cardinality, Session!Cardinality, Titles!Cardinality, Tv!Cardinality,
         Chatting!Cardinality

-----------------------------------------------------------------------------
(* The session with Jellyfin.                                              *)

\* The types that the rest needs, whatever the bounds are.
SessionTyped ==
    /\ logins \in Nat /\ revokes \in Nat
    /\ call \in [Calls -> [at : Session!Stages, bearer : Nat, again : BOOLEAN]]

\* Jellyfin takes the newest token or none, and the process holds the newest.
Newest == token = logins /\ valid \subseteq {logins} \ {0}

\* The lock is held by the call that is logging in.
Locked ==
    /\ holder \subseteq Calls
    /\ \A c \in Calls : call[c].at = "logging in" => holder = {c}
    /\ \A c \in holder : holder = {c} /\ call[c].at = "logging in"

\* Who is logging in knows that no token is good, and a rejected token stays bad.
Justified ==
    /\ \A c \in Calls : call[c].bearer <= logins
    /\ \A c \in Calls : call[c].at = "logging in" => valid = {}
    /\ \A c \in Calls : call[c].at = "reauth" => call[c].bearer \notin valid

\* A login has been made for each time the tokens were dropped, and one more while one is good.
Counted == logins <= revokes + 1 /\ (valid = {} => logins <= revokes)

SessionInv == SessionTyped /\ Newest /\ Locked /\ Justified /\ Counted

LEMMA SessionNumbers ==
    ASSUME SessionTyped
    PROVE  /\ logins \in Nat /\ revokes \in Nat
           /\ \A c \in Calls : call[c].bearer \in Nat
  BY DEF SessionTyped

LEMMA SessionInit == Session!Init => SessionInv
<1> SUFFICES ASSUME Session!Init PROVE SessionInv
  OBVIOUS
<1>1. \A c \in Calls : call[c] = [at |-> "idle", bearer |-> 0, again |-> FALSE]
  BY DEF Session!Init, Session!Idle
<1>2. call \in [Calls -> [at : Session!Stages, bearer : Nat, again : BOOLEAN]]
  BY DEF Session!Init, Session!Idle, Session!Stages
<1>3. \A c \in Calls : call[c].at = "idle" /\ call[c].bearer = 0
  BY <1>1
<1>4. SessionTyped /\ Newest /\ Counted
  BY <1>2 DEF Session!Init, SessionTyped, Newest, Counted
<1>5. Locked
  BY <1>3 DEF Session!Init, Locked
<1>6. Justified
  <2>1. \A c \in Calls : call[c].bearer <= logins
    BY <1>3 DEF Session!Init
  <2> QED BY <1>3, <2>1 DEF Justified
<1> QED BY <1>4, <1>5, <1>6 DEF SessionInv

\* A step of call c leaves the others where they are, and c with a state of its own.
LEMMA CallMoves ==
    ASSUME SessionTyped, NEW c \in Calls,
           NEW r \in [at : Session!Stages, bearer : Nat, again : BOOLEAN], call' = [call EXCEPT ![c] = r]
    PROVE  /\ call' \in [Calls -> [at : Session!Stages, bearer : Nat, again : BOOLEAN]]
           /\ call'[c] = r /\ \A d \in Calls : d # c => call'[d] = call[d]
  BY DEF SessionTyped

\* A step that only moves a call that neither is nor will be logging in.
LEMMA CallHarmless ==
    ASSUME SessionInv, NEW c \in Calls, NEW r \in [at : Session!Stages, bearer : Nat, again : BOOLEAN],
           call' = [call EXCEPT ![c] = r], UNCHANGED <<valid, logins, revokes, token, holder>>,
           call[c].at # "logging in", r.at # "logging in", r.bearer <= logins,
           r.at = "reauth" => r.bearer \notin valid
    PROVE  SessionInv'
<1>1. /\ call' \in [Calls -> [at : Session!Stages, bearer : Nat, again : BOOLEAN]]
      /\ call'[c] = r /\ \A d \in Calls : d # c => call'[d] = call[d]
  BY CallMoves DEF SessionInv
<1>2. SessionTyped' /\ Newest' /\ Counted'
  BY <1>1 DEF SessionInv, SessionTyped, Newest, Counted
<1>3. Locked'
  BY <1>1 DEF SessionInv, Locked
<1>4. Justified'
  BY <1>1 DEF SessionInv, Justified
<1> QED BY <1>2, <1>3, <1>4 DEF SessionInv

LEMMA CallIdle ==
    /\ Session!Idle \in [at : Session!Stages, bearer : Nat, again : BOOLEAN]
    /\ Session!Idle.at = "idle" /\ Session!Idle.bearer = 0
  BY DEF Session!Idle, Session!Stages

LEMMA CallSends ==
    ASSUME SessionTyped, NEW c \in Calls, NEW b \in Nat
    PROVE  /\ Session!Sends(c, b) \in [at : Session!Stages, bearer : Nat, again : BOOLEAN]
           /\ Session!Sends(c, b).at = "send" /\ Session!Sends(c, b).bearer = b
<1>1. call[c] \in [at : Session!Stages, bearer : Nat, again : BOOLEAN]
  BY DEF SessionTyped
<1> QED BY <1>1 DEF Session!Sends, Session!Stages

LEMMA StartKeeps == ASSUME SessionInv, NEW c \in Calls, Session!Start(c) PROVE SessionInv'
<1>1. call[c].at = "idle" /\ UNCHANGED <<valid, logins, revokes, token, holder>>
  BY DEF Session!Start
<1>2. token \in Nat /\ token <= logins /\ 0 <= logins
  BY DEF SessionInv, SessionTyped, Newest
<1>3. CASE token # 0
  <2> DEFINE r == Session!Sends(c, token)
  <2>1. call' = [call EXCEPT ![c] = r]
    BY <1>3 DEF Session!Start
  <2>2. /\ r \in [at : Session!Stages, bearer : Nat, again : BOOLEAN]
        /\ r.at = "send" /\ r.bearer = token
    BY <1>2, CallSends DEF SessionInv
  <2> HIDE DEF r
  <2> QED BY <1>1, <1>2, <2>1, <2>2, CallHarmless
<1>4. CASE token = 0
  <2> DEFINE r == [Session!Idle EXCEPT !.at = "login"]
  <2>1. call' = [call EXCEPT ![c] = r]
    BY <1>4 DEF Session!Start
  <2>2. r \in [at : Session!Stages, bearer : Nat, again : BOOLEAN] /\ r.at = "login" /\ r.bearer = 0
    BY DEF Session!Idle, Session!Stages
  <2> HIDE DEF r
  <2> QED BY <1>1, <1>2, <2>1, <2>2, CallHarmless
<1> QED BY <1>3, <1>4

LEMMA TakeLockKeeps == ASSUME SessionInv, NEW c \in Calls, Session!TakeLock(c) PROVE SessionInv'
<1>1. /\ call[c].at \in {"login", "reauth"} /\ holder = {}
      /\ UNCHANGED <<valid, logins, revokes, token>>
  BY DEF Session!TakeLock
<1>2. token \in Nat /\ token <= logins
  BY DEF SessionInv, SessionTyped, Newest
<1>3. CASE Session!Shared(c)
  <2> DEFINE r == Session!Sends(c, token)
  <2>1. call' = [call EXCEPT ![c] = r] /\ UNCHANGED holder
    BY <1>3 DEF Session!TakeLock
  <2>2. /\ r \in [at : Session!Stages, bearer : Nat, again : BOOLEAN]
        /\ r.at = "send" /\ r.bearer = token
    BY <1>2, CallSends DEF SessionInv
  <2> HIDE DEF r
  <2> QED BY <1>1, <1>2, <2>1, <2>2, CallHarmless
<1>4. CASE ~Session!Shared(c)
  <2> DEFINE r == [call[c] EXCEPT !.at = "logging in"]
  <2>1. call' = [call EXCEPT ![c] = r] /\ holder' = {c}
    BY <1>4 DEF Session!TakeLock
  <2>2. call[c] \in [at : Session!Stages, bearer : Nat, again : BOOLEAN]
    BY DEF SessionInv, SessionTyped
  <2>3. /\ r \in [at : Session!Stages, bearer : Nat, again : BOOLEAN]
        /\ r.at = "logging in" /\ r.bearer = call[c].bearer
    BY <2>2 DEF Session!Stages
  <2> HIDE DEF r
  <2>4. /\ call' \in [Calls -> [at : Session!Stages, bearer : Nat, again : BOOLEAN]]
        /\ call'[c] = r /\ \A d \in Calls : d # c => call'[d] = call[d]
    BY <2>1, <2>3, CallMoves DEF SessionInv
  <2>5. valid = {}
    <3>1. token = 0 \/ (call[c].at = "reauth" /\ token = call[c].bearer)
      BY <1>4 DEF Session!Shared
    <3>2. token = 0 => valid = {}
      BY DEF SessionInv, Newest
    <3>3. call[c].at = "reauth" /\ token = call[c].bearer => valid = {}
      BY DEF SessionInv, Newest, Justified
    <3> QED BY <3>1, <3>2, <3>3
  <2>6. \A d \in Calls : call[d].at # "logging in"
    BY <1>1 DEF SessionInv, Locked
  <2>7. SessionTyped' /\ Newest' /\ Counted'
    BY <1>1, <2>4 DEF SessionInv, SessionTyped, Newest, Counted
  <2>8. Locked'
    BY <2>1, <2>3, <2>4, <2>6 DEF Locked
  <2>9. Justified'
    BY <1>1, <2>3, <2>4, <2>5 DEF SessionInv, Justified
  <2> QED BY <2>7, <2>8, <2>9 DEF SessionInv
<1> QED BY <1>3, <1>4

LEMMA LoggedInKeeps == ASSUME SessionInv, NEW c \in Calls, Session!LoggedIn(c) PROVE SessionInv'
<1> DEFINE n == logins + 1
           r == Session!Sends(c, n)
<1>1. /\ call[c].at = "logging in" /\ logins' = n /\ valid' = valid \cup {n} /\ token' = n
      /\ call' = [call EXCEPT ![c] = r] /\ holder' = holder \ {c} /\ UNCHANGED revokes
  BY DEF Session!LoggedIn
<1>2. n \in Nat /\ logins \in Nat /\ n # 0 /\ n = logins + 1
  BY DEF SessionInv, SessionTyped
<1>3. holder = {c} /\ valid = {}
  BY <1>1 DEF SessionInv, Locked, Justified
<1>4. /\ r \in [at : Session!Stages, bearer : Nat, again : BOOLEAN]
      /\ r.at = "send" /\ r.bearer = n
  BY <1>2, CallSends DEF SessionInv
<1> HIDE DEF r, n
<1>5. /\ call' \in [Calls -> [at : Session!Stages, bearer : Nat, again : BOOLEAN]]
      /\ call'[c] = r /\ \A d \in Calls : d # c => call'[d] = call[d]
  BY <1>1, <1>4, CallMoves DEF SessionInv
<1>6. SessionTyped' /\ Newest'
  BY <1>1, <1>2, <1>3, <1>5 DEF SessionInv, SessionTyped, Newest
<1>7. Locked'
  <2>1. holder' = {} /\ \A d \in Calls \ {c} : call[d].at # "logging in"
    BY <1>1, <1>3 DEF SessionInv, Locked
  <2>2. \A d \in Calls : call'[d].at # "logging in"
    BY <1>4, <1>5, <2>1
  <2> QED BY <2>1, <2>2 DEF Locked
<1>8. Justified'
  <2>1. ASSUME NEW d \in Calls, d # c
        PROVE call'[d].bearer \in Nat /\ call'[d].bearer <= logins /\ call'[d].at # "logging in"
    <3>1. call[d].bearer \in Nat /\ call[d].bearer <= logins
      BY SessionNumbers DEF SessionInv, Justified
    <3>2. call[d].at # "logging in"
      BY <1>3, <2>1 DEF SessionInv, Locked
    <3> QED BY <1>5, <2>1, <3>1, <3>2
  <2>2. ASSUME NEW d \in Calls, d # c PROVE call'[d].bearer <= n /\ call'[d].bearer # n
    <3> DEFINE b == call'[d].bearer
    <3>1. b \in Nat /\ b <= logins
      BY <2>1, <2>2
    <3> HIDE DEF b
    <3>2. b <= n /\ b # n
      BY <1>2, <3>1
    <3> QED BY <3>2 DEF b
  <2>3. call'[c].bearer <= logins' /\ call'[c].at = "send"
    <3>1. logins' = n /\ n <= n
      <4>1. n <= n
        BY <1>2
      <4> QED BY <1>1, <4>1
    <3>2. call'[c].bearer = n /\ call'[c].at = "send"
      BY <1>4, <1>5
    <3> QED BY <3>1, <3>2
  <2>4. \A d \in Calls : call'[d].bearer <= logins'
    BY <1>1, <2>2, <2>3
  <2>5. \A d \in Calls : call'[d].at # "logging in"
    BY <2>1, <2>3
  <2>6. \A d \in Calls : call'[d].at = "reauth" => call'[d].bearer \notin valid'
    <3>1. valid' = {n}
      BY <1>1, <1>3
    <3> QED BY <2>2, <2>3, <3>1
  <2> QED BY <2>4, <2>5, <2>6 DEF Justified
<1>9. Counted'
  <2>1. revokes \in Nat /\ logins <= revokes
    BY <1>3, SessionNumbers DEF SessionInv, Counted
  <2>2. logins' <= revokes' + 1 /\ valid' # {}
    <3>1. valid' # {}
      BY <1>1
    <3>2. logins' = n /\ revokes' = revokes
      BY <1>1
    <3> QED BY <1>2, <2>1, <3>1, <3>2
  <2> QED BY <2>2 DEF Counted
<1> QED BY <1>6, <1>7, <1>8, <1>9 DEF SessionInv

LEMMA LoginFailsKeeps == ASSUME SessionInv, NEW c \in Calls, Session!LoginFails(c) PROVE SessionInv'
<1>1. /\ call[c].at = "logging in" /\ call' = [call EXCEPT ![c] = Session!Idle]
      /\ holder' = holder \ {c} /\ UNCHANGED <<valid, logins, revokes, token>>
  BY DEF Session!LoginFails
<1>2. holder = {c} /\ 0 <= logins
  <2>1. 0 <= logins
    BY SessionNumbers DEF SessionInv
  <2>2. holder = {c}
    BY <1>1 DEF SessionInv, Locked
  <2> QED BY <2>1, <2>2
<1>3. /\ call' \in [Calls -> [at : Session!Stages, bearer : Nat, again : BOOLEAN]]
      /\ call'[c] = Session!Idle /\ \A d \in Calls : d # c => call'[d] = call[d]
  BY <1>1, CallIdle, CallMoves DEF SessionInv
<1>4. SessionTyped' /\ Newest' /\ Counted'
  BY <1>1, <1>3 DEF SessionInv, SessionTyped, Newest, Counted
<1>5. Locked'
  <2>1. holder' = {} /\ \A d \in Calls \ {c} : call[d].at # "logging in"
    BY <1>1, <1>2 DEF SessionInv, Locked
  <2>2. \A d \in Calls : call'[d].at # "logging in"
    BY <1>3, <2>1, CallIdle
  <2> QED BY <2>1, <2>2 DEF Locked
<1>6. Justified'
  BY <1>1, <1>2, <1>3, CallIdle DEF SessionInv, Justified
<1> QED BY <1>4, <1>5, <1>6 DEF SessionInv

LEMMA AnswersKeep ==
    ASSUME SessionInv, NEW c \in Calls, Session!Answered(c) \/ Session!Streamed(c) \/ Session!Rejected(c) PROVE SessionInv'
<1>1. /\ call[c].at \in {"send", "streaming"} /\ UNCHANGED <<valid, logins, revokes, token, holder>>
  BY DEF Session!Answered, Session!Streamed, Session!Rejected
<1>2. 0 <= logins /\ call[c] \in [at : Session!Stages, bearer : Nat, again : BOOLEAN]
  BY DEF SessionInv, SessionTyped
<1>3. CASE Session!Answered(c)
  <2>1. PICK next \in {"idle", "streaming"} : call' = [call EXCEPT ![c] = [Session!Idle EXCEPT !.at = next]]
    BY <1>3 DEF Session!Answered
  <2> DEFINE r == [Session!Idle EXCEPT !.at = next]
  <2>2. r \in [at : Session!Stages, bearer : Nat, again : BOOLEAN] /\ r.at = next /\ r.bearer = 0
    BY DEF Session!Idle, Session!Stages
  <2>3. call' = [call EXCEPT ![c] = r]
    BY <2>1
  <2> HIDE DEF r
  <2> QED BY <1>1, <1>2, <2>2, <2>3, CallHarmless
<1>4. CASE call' = [call EXCEPT ![c] = Session!Idle]
  BY <1>1, <1>2, <1>4, CallIdle, CallHarmless
<1>5. CASE Session!Rejected(c) /\ ~call[c].again
  <2> DEFINE r == [call[c] EXCEPT !.at = "reauth", !.again = TRUE]
  <2>1. call' = [call EXCEPT ![c] = r] /\ call[c].bearer \notin valid
    BY <1>5 DEF Session!Rejected
  <2>2. /\ r \in [at : Session!Stages, bearer : Nat, again : BOOLEAN]
        /\ r.at = "reauth" /\ r.bearer = call[c].bearer
    BY <1>2 DEF Session!Stages
  <2>3. call[c].bearer <= logins
    BY DEF SessionInv, Justified
  <2> HIDE DEF r
  <2> QED BY <1>1, <2>1, <2>2, <2>3, CallHarmless
<1> QED BY <1>3, <1>4, <1>5 DEF Session!Streamed, Session!Rejected

LEMMA SessionStep == SessionInv /\ [Session!Next]_sessionVars => SessionInv'
<1> SUFFICES ASSUME SessionInv, [Session!Next]_sessionVars PROVE SessionInv'
  OBVIOUS
<1>1. CASE Session!Revoke
  <2>1. valid # {} /\ valid' = {} /\ revokes' = revokes + 1 /\ UNCHANGED <<logins, token, holder, call>>
    BY <1>1 DEF Session!Revoke
  <2>2. logins \in Nat /\ revokes \in Nat
    BY SessionNumbers DEF SessionInv
  <2>3. SessionTyped'
    BY <2>1, <2>2 DEF SessionInv, SessionTyped
  <2>4. Newest' /\ Locked'
    BY <2>1 DEF SessionInv, Newest, Locked
  <2>5. Justified'
    BY <2>1 DEF SessionInv, Justified
  <2>6. Counted'
    BY <2>1, <2>2 DEF SessionInv, Counted
  <2> QED BY <2>3, <2>4, <2>5, <2>6 DEF SessionInv
<1>2. ASSUME NEW c \in Calls, Session!CallNext(c) PROVE SessionInv'
  BY <1>2, StartKeeps, TakeLockKeeps, LoggedInKeeps, LoginFailsKeeps, AnswersKeep DEF Session!CallNext
<1>3. CASE UNCHANGED sessionVars
  BY <1>3 DEF sessionVars, SessionInv, SessionTyped, Newest, Locked, Justified, Counted
<1> QED BY <1>1, <1>2, <1>3 DEF Session!Next

\* Calls that meet the same 401 share one login (the lock and the second look at the token in
\* _jellyfin_client.py): a process logs in at most once for each time Jellyfin dropped its
\* tokens, and once at first, however many calls there are and whichever logins fail.
LEMMA SessionHolds == SessionInv => Session!LoginsAreShared
<1> SUFFICES ASSUME SessionInv PROVE Session!LoginsAreShared
  OBVIOUS
<1>1. Cardinality(holder) <= 1
  <2>1. CASE holder = {}
    <3>1. Cardinality({}) = 0
      BY FS_EmptySet
    <3> QED BY <2>1, <3>1
  <2>2. CASE holder # {}
    <3>1. PICK c \in holder : holder = {c}
      BY <2>2 DEF SessionInv, Locked
    <3> QED BY <3>1, AtMostOne
  <2> QED BY <2>1, <2>2
<1>2. Session!Cardinality(holder) <= 1
  BY <1>1, Counts
<1> QED BY <1>2 DEF SessionInv, Locked, Counted, Session!LoginsAreShared

-----------------------------------------------------------------------------
(* The scan of a folder.                                                   *)

\* A set of numbers has a least one, and one that is bounded has a greatest.
LEMMA Least == ASSUME NEW S \in SUBSET Nat, S # {} PROVE \E x \in S : \A y \in S : x <= y
<1> DEFINE below == OpToRel(<, Nat)
<1>1. IsWellFoundedOn(below, Nat)
  BY NatLessThanWellFounded
<1>2. \A x, y \in Nat : <<y, x>> \in below <=> y < x
  BY DEF OpToRel
<1> HIDE DEF below
<1>3. PICK x \in S : \A y \in S : ~(<<y, x>> \in below)
  BY <1>1, WFMin
<1>4. ASSUME NEW y \in S PROVE x <= y
  <2>1. x \in Nat /\ y \in Nat /\ ~(y < x)
    BY <1>2, <1>3
  <2> QED BY <2>1
<1> QED BY <1>4

LEMMA Greatest ==
    ASSUME NEW S \in SUBSET Nat, S # {}, NEW n \in Nat, \A x \in S : x <= n
    PROVE  \E x \in S : \A y \in S : y <= x
<1> DEFINE gaps == {n - x : x \in S}
<1>1. gaps \in SUBSET Nat /\ gaps # {}
  <2>1. \A x \in S : n - x \in Nat
    OBVIOUS
  <2> QED BY <2>1
<1>2. PICK y \in gaps : \A z \in gaps : y <= z
  BY <1>1, Least
<1>3. PICK x \in S : y = n - x
  BY <1>2
<1>4. ASSUME NEW w \in S PROVE w <= x
  <2>1. n - w \in gaps
    OBVIOUS
  <2>2. n - x <= n - w
    BY <1>2, <1>3, <2>1
  <2> QED BY <2>2
<1> QED BY <1>4

Places == {0} \cup Scan!Nodes
Node   == [kind : Scan!Folders \cup Scan!Files, parent : 0..MaxNodes]

LEMMA TreeIs ==
    ASSUME Scan!TypeOK
    PROVE  /\ Len(tree) \in Nat /\ Scan!Nodes = 1..Len(tree) /\ Places = 0..Len(tree)
           /\ \A n \in Scan!Nodes : /\ tree[n].parent \in Places /\ tree[n].parent < n
                                    /\ Scan!IsFolder(tree[n].parent)
                                    /\ tree[n].kind \in Scan!Folders \cup Scan!Files
                                    /\ Scan!IsFolder(n) <=> tree[n].kind \in Scan!Folders
           /\ Scan!IsFolder(0)
<1>1. tree \in Seq(Node) /\ Len(tree) \in Nat /\ Scan!Nodes = 1..Len(tree)
  BY LenProperties DEF Scan!TypeOK, Node, Scan!Nodes
<1>2. \A n \in Scan!Nodes : tree[n] \in Node
  BY <1>1, ElementOfSeq
<1>3. ASSUME NEW n \in Scan!Nodes
      PROVE  tree[n].parent \in Nat /\ tree[n].parent < n /\ Scan!IsFolder(tree[n].parent)
  BY <1>1, <1>2, ScanAssumption DEF Scan!TypeOK, Node
<1>4. ASSUME NEW n \in Scan!Nodes PROVE tree[n].parent \in Places
  BY <1>1, <1>3 DEF Places
<1>5. Places = 0..Len(tree)
  BY <1>1 DEF Places
<1>6. ASSUME NEW n \in Scan!Nodes
      PROVE  /\ tree[n].kind \in Scan!Folders \cup Scan!Files
             /\ Scan!IsFolder(n) <=> tree[n].kind \in Scan!Folders
  BY <1>1, <1>2 DEF Node, Scan!IsFolder, Scan!Root
<1>7. Scan!IsFolder(0)
  BY DEF Scan!IsFolder, Scan!Root
<1> QED BY <1>1, <1>3, <1>4, <1>5, <1>6, <1>7

LEMMA ScanInit == Scan!Init => Scan!TypeOK
<1> SUFFICES ASSUME Scan!Init PROVE Scan!TypeOK
  OBVIOUS
<1>1. tree = <<>> /\ Len(tree) = 0 /\ Scan!Nodes = {}
  BY DEF Scan!Init, Scan!Nodes
<1>2. <<>> \in Seq([kind : Scan!Folders \cup Scan!Files, parent : 0..MaxNodes])
  OBVIOUS
<1>3. 0 <= MaxNodes
  BY ScanAssumption
<1> QED BY <1>1, <1>2, <1>3 DEF Scan!TypeOK, Scan!Init

\* What is copied goes below a folder that is there.
LEMMA ScanStep == ASSUME Scan!TypeOK, [Scan!Next]_scanVars PROVE Scan!TypeOK'
<1>1. CASE UNCHANGED scanVars
  BY <1>1 DEF scanVars, Scan!TypeOK, Scan!Nodes, Scan!IsFolder
<1>2. CASE Scan!SwitchEncoding
  BY <1>2 DEF Scan!SwitchEncoding, Scan!TypeOK, Scan!Nodes, Scan!IsFolder
<1>3. ASSUME NEW sort \in Scan!Folders \cup Scan!Files, NEW above \in {Scan!Root} \cup Scan!Nodes,
             Scan!Copy(sort, above)
      PROVE  Scan!TypeOK'
  <2> DEFINE x == [kind |-> sort, parent |-> above]
  <2>1. /\ tree \in Seq(Node) /\ Len(tree) \in Nat /\ Len(tree) < MaxNodes /\ Scan!IsFolder(above)
        /\ tree' = Append(tree, x) /\ encoding' = encoding
    BY <1>3, LenProperties DEF Scan!Copy, Scan!TypeOK, Node
  <2>2. above \in 0..Len(tree) /\ x \in Node
    BY <2>1, ScanAssumption DEF Scan!Root, Scan!Nodes, Node
  <2>3. /\ tree' \in Seq(Node) /\ Len(tree') = Len(tree) + 1 /\ tree'[Len(tree) + 1] = x
        /\ \A i \in 1..Len(tree) : tree'[i] = tree[i]
    BY <2>1, <2>2, AppendProperties
  <2>4. \A n : Scan!IsFolder(n) => Scan!IsFolder(n)'
    BY <2>1, <2>3 DEF Scan!IsFolder, Scan!Nodes
  <2>5. ASSUME NEW n \in Scan!Nodes' PROVE tree'[n].parent < n /\ (Scan!IsFolder(tree[n].parent))'
    <3>1. CASE n \in Scan!Nodes
      <4>1. n \in 1..Len(tree) /\ tree'[n] = tree[n]
        BY <2>3, <3>1 DEF Scan!Nodes
      <4>2. tree[n].parent < n /\ Scan!IsFolder(tree[n].parent)
        BY <3>1 DEF Scan!TypeOK
      <4> QED BY <2>4, <4>1, <4>2
    <3>2. CASE n \notin Scan!Nodes
      <4>1. n = Len(tree) + 1
        BY <2>1, <2>3, <3>2 DEF Scan!Nodes
      <4>2. tree'[n].parent = above
        BY <2>3, <4>1
      <4>3. above < n
        BY <2>1, <2>2, <4>1
      <4> QED BY <2>1, <2>4, <4>2, <4>3
    <3> QED BY <3>1, <3>2
  <2>6. Len(tree') <= MaxNodes
    BY <2>1, <2>3, ScanAssumption
  <2>7. encoding' \in BOOLEAN
    BY <2>1 DEF Scan!TypeOK
  <2> QED BY <2>3, <2>5, <2>6, <2>7 DEF Scan!TypeOK, Node
<1> QED BY <1>1, <1>2, <1>3, Zenon DEF Scan!Next

\* A set of places that leads upwards from n.
Leads(S, n) == n \in S /\ \A x \in S \ {0} : tree[x].parent \in S
UpFrom(n)   == {a \in Places : \A S \in SUBSET Places : Leads(S, n) => a \in S}

\* The folders above a node are its parent's and the parent.
LEMMA AboveIs ==
    ASSUME Scan!TypeOK
    PROVE  \A n \in Places : Scan!Above[n] = IF n = 0 THEN {}
                                             ELSE {tree[n].parent} \cup Scan!Above[tree[n].parent]
<1> DEFINE g == [n \in Places |-> UpFrom(n) \ {n}]
<1>1. ASSUME NEW n \in Places
      PROVE  g[n] = IF n = 0 THEN {} ELSE {tree[n].parent} \cup g[tree[n].parent]
  <2>1. CASE n = 0
    <3>1. {0} \in SUBSET Places /\ Leads({0}, 0)
      BY DEF Places, Leads
    <3>2. UpFrom(0) \subseteq {0}
      BY <3>1 DEF UpFrom
    <3> QED BY <2>1, <3>2
  <2>2. CASE n # 0
    <3> DEFINE p == tree[n].parent
    <3>1. n \in Scan!Nodes /\ p \in Places /\ p < n /\ n \in Nat
      BY <2>2, TreeIs DEF Places
    <3>2. ASSUME NEW a \in UpFrom(n), a # n PROVE a \in UpFrom(p)
      <4>1. ASSUME NEW S \in SUBSET Places, Leads(S, p) PROVE a \in S
        <5>1. Leads(S \cup {n}, n) /\ S \cup {n} \in SUBSET Places
          BY <4>1 DEF Leads
        <5>2. a \in S \cup {n}
          BY <5>1 DEF UpFrom
        <5> QED BY <3>2, <5>2
      <4> QED BY <4>1 DEF UpFrom
    <3>3. ASSUME NEW a \in UpFrom(p) PROVE a \in UpFrom(n) /\ a # n
      <4>1. ASSUME NEW S \in SUBSET Places, Leads(S, n) PROVE a \in S
        <5>1. Leads(S, p)
          BY <2>2, <4>1 DEF Leads
        <5> QED BY <5>1 DEF UpFrom
      <4>2. 0..p \in SUBSET Places /\ Leads(0..p, p)
        <5>1. p \in 0..Len(tree) /\ Len(tree) \in Nat
          BY <3>1, TreeIs
        <5>2. ASSUME NEW x \in (0..p) \ {0} PROVE tree[x].parent \in 0..p
          <6>1. x \in Scan!Nodes
            BY <5>1, TreeIs
          <6>2. tree[x].parent \in 0..Len(tree) /\ tree[x].parent < x
            BY <6>1, TreeIs
          <6> QED BY <5>1, <6>2
        <5>3. 0..p \in SUBSET Places
          BY <5>1, TreeIs
        <5> QED BY <5>1, <5>2, <5>3 DEF Leads
      <4>3. a \in 0..p
        BY <4>2 DEF UpFrom
      <4>4. a # n
        BY <3>1, <4>3, TreeIs
      <4> QED BY <4>1, <4>4 DEF UpFrom
    <3>4. p \in UpFrom(p)
      BY <3>1 DEF UpFrom, Leads
    <3>5. UpFrom(n) \ {n} = UpFrom(p)
      BY <3>2, <3>3
    <3>6. g[n] = UpFrom(n) \ {n} /\ g[p] = UpFrom(p) \ {p}
      BY <3>1
    <3> QED BY <2>2, <3>4, <3>5, <3>6
  <2> QED BY <2>1, <2>2
<1>2. g = [n \in Places |-> IF n = 0 THEN {} ELSE {tree[n].parent} \cup g[tree[n].parent]]
  <2>1. g = [n \in Places |-> g[n]]
    OBVIOUS
  <2> HIDE DEF g
  <2> QED BY <1>1, <2>1
<1> HIDE DEF g
<1>3. \E up : up = [n \in {Scan!Root} \cup Scan!Nodes |->
                        IF n = Scan!Root THEN {} ELSE {tree[n].parent} \cup up[tree[n].parent]]
  BY <1>2 DEF Places, Scan!Root
<1>4. Scan!Above = [n \in {Scan!Root} \cup Scan!Nodes |->
                        IF n = Scan!Root THEN {} ELSE {tree[n].parent} \cup Scan!Above[tree[n].parent]]
  BY <1>3, Zenon DEF Scan!Above
<1> QED BY <1>4 DEF Places, Scan!Root

\* What the folders above a place have in common: each is a folder before it, the root is one,
\* what is above them is above it, and each has one child on the way down.
AboveOk(n) ==
    /\ \A d \in Scan!Above[n] : d \in Places /\ d < n /\ Scan!IsFolder(d)
    /\ n # 0 => 0 \in Scan!Above[n]
    /\ \A d \in Scan!Above[n] : Scan!Above[d] \subseteq Scan!Above[n]
    /\ \A d \in Scan!Above[n] : \E c \in Scan!Children(d) : c \in {n} \cup Scan!Above[n]
    /\ \A x, y \in ({n} \cup Scan!Above[n]) \ {0} : tree[x].parent = tree[y].parent => x = y

LEMMA AboveHas == ASSUME Scan!TypeOK PROVE \A n \in Places : AboveOk(n)
<1> DEFINE bad == {n \in Places : ~AboveOk(n)}
<1>1. Places = 0..Len(tree) /\ Len(tree) \in Nat /\ Scan!Nodes = 1..Len(tree)
  BY TreeIs
<1>2. ASSUME NEW n \in Places, \A m \in Places : m < n => AboveOk(m)
      PROVE  AboveOk(n)
  <2>1. CASE n = 0
    <3>1. Scan!Above[n] = {}
      BY <2>1, AboveIs
    <3> QED BY <2>1, <3>1 DEF AboveOk
  <2>2. CASE n # 0
    <3> DEFINE p == tree[n].parent
    <3>1. /\ n \in Scan!Nodes /\ n \in Nat /\ p \in Places /\ p \in Nat /\ p < n /\ Scan!IsFolder(p)
          /\ n \in Scan!Children(p)
      BY <1>1, <2>2, TreeIs DEF Scan!Children
    <3>2. AboveOk(p)
      BY <1>2, <3>1
    <3>3. Scan!Above[n] = {p} \cup Scan!Above[p]
      BY <2>2, AboveIs
    <3> HIDE DEF p
    <3>4. \A d \in Scan!Above[n] : d \in Places /\ d <= p /\ Scan!IsFolder(d)
      BY <1>1, <3>1, <3>2, <3>3 DEF AboveOk
    <3>5. \A d \in Scan!Above[n] : d \in Places /\ d < n /\ Scan!IsFolder(d)
      BY <1>1, <3>1, <3>4
    <3>6. 0 \in Scan!Above[n]
      <4>1. CASE p = 0
        BY <3>3, <4>1
      <4>2. CASE p # 0
        BY <3>2, <3>3, <4>2 DEF AboveOk
      <4> QED BY <4>1, <4>2
    <3>7. \A d \in Scan!Above[n] : Scan!Above[d] \subseteq Scan!Above[n]
      BY <3>2, <3>3 DEF AboveOk
    <3>8. \A d \in Scan!Above[n] : \E c \in Scan!Children(d) : c \in {n} \cup Scan!Above[n]
      BY <3>1, <3>2, <3>3 DEF AboveOk
    <3>9. ASSUME NEW y \in Scan!Above[n] \ {0} PROVE tree[y].parent < p
      <4>1. y \in Scan!Nodes /\ y <= p
        BY <1>1, <3>4
      <4>2. tree[y].parent < y /\ tree[y].parent \in Places
        BY <4>1, TreeIs
      <4> QED BY <1>1, <3>1, <4>1, <4>2
    <3>10. \A y \in Scan!Above[n] \ {0} : tree[y].parent # p
      BY <3>1, <3>9
    <3>11. \A x, y \in ({n} \cup Scan!Above[n]) \ {0} : tree[x].parent = tree[y].parent => x = y
      <4>1. \A x, y \in Scan!Above[n] \ {0} : tree[x].parent = tree[y].parent => x = y
        BY <3>2, <3>3 DEF AboveOk
      <4>2. tree[n].parent = p
        BY DEF p
      <4> QED BY <3>10, <4>1, <4>2
    <3> QED BY <3>5, <3>6, <3>7, <3>8, <3>11 DEF AboveOk
  <2> QED BY <2>1, <2>2
<1>3. SUFFICES ASSUME bad # {} PROVE FALSE
  OBVIOUS
<1>4. PICK n \in bad : \A m \in bad : n <= m
  <2>1. bad \in SUBSET Nat
    BY <1>1
  <2> HIDE DEF bad
  <2> QED BY <1>3, <2>1, Least
<1>5. \A m \in Places : m < n => AboveOk(m)
  BY <1>1, <1>4
<1> QED BY <1>2, <1>4, <1>5

\* There is one folder more above a node than above its parent.
LEMMA AboveCount ==
    ASSUME Scan!TypeOK
    PROVE  /\ Cardinality(Scan!Above[0]) = 0
           /\ \A n \in Places : IsFiniteSet(Scan!Above[n]) /\ Cardinality(Scan!Above[n]) \in Nat
           /\ \A n \in Scan!Nodes :
                Cardinality(Scan!Above[n]) = Cardinality(Scan!Above[tree[n].parent]) + 1
<1>1. Places = 0..Len(tree) /\ Len(tree) \in Nat /\ Scan!Nodes = 1..Len(tree)
  BY TreeIs
<1>2. IsFiniteSet(Places)
  BY <1>1, FS_Interval
<1>3. ASSUME NEW n \in Places
      PROVE  IsFiniteSet(Scan!Above[n]) /\ Cardinality(Scan!Above[n]) \in Nat
  <2>1. Scan!Above[n] \subseteq Places
    BY AboveHas DEF AboveOk
  <2> QED BY <1>2, <2>1, FS_Subset, FS_CardinalityType
<1>4. Cardinality(Scan!Above[0]) = 0
  BY AboveIs, FS_EmptySet DEF Places
<1>5. ASSUME NEW n \in Scan!Nodes
      PROVE  Cardinality(Scan!Above[n]) = Cardinality(Scan!Above[tree[n].parent]) + 1
  <2> DEFINE p == tree[n].parent
  <2>1. p \in Places /\ p \in Nat /\ n # 0 /\ n \in Places
    BY <1>1, TreeIs
  <2>2. Scan!Above[n] = Scan!Above[p] \cup {p}
    BY <2>1, AboveIs
  <2>3. p \notin Scan!Above[p]
    BY <2>1, AboveHas DEF AboveOk
  <2> QED BY <1>3, <2>1, <2>2, <2>3, FS_AddElement
<1> QED BY <1>3, <1>4, <1>5

\* A playable file that no dot folder hides.
Open(f) == f \in Scan!Walk(0) /\ Scan!InTheOpen(f)

\* What holds a file is the file or a folder above it.
LEMMA HoldsWhatIsBelow ==
    ASSUME Scan!TypeOK, NEW f, Open(f)
    PROVE  /\ f \in Scan!Nodes /\ ~Scan!IsFolder(f) /\ Scan!Playable(f) /\ Scan!Held(f) = {f}
           /\ \A n \in Places : f \in Scan!Held(n) <=> n \in {f} \cup Scan!Above[f]
           /\ \A n \in Scan!Above[f] : f \in Scan!Walk(n) /\ Scan!Held(n) = Scan!Walk(n)
<1>1. f \in Scan!Nodes /\ ~Scan!IsFolder(f) /\ Scan!Playable(f) /\ Scan!Held(f) = {f} /\ f \in Places
  BY DEF Open, Scan!Walk, Scan!Held, Places
<1>2. \A n \in Scan!Above[f] : n \in Places /\ Scan!IsFolder(n)
  BY <1>1, AboveHas DEF AboveOk
<1>3. \A n \in Scan!Above[f] : f \in Scan!Walk(n) /\ Scan!Held(n) = Scan!Walk(n)
  BY <1>1, <1>2 DEF Scan!Walk, Scan!Held
<1>4. ASSUME NEW n \in Places PROVE f \in Scan!Held(n) <=> n \in {f} \cup Scan!Above[f]
  <2>1. CASE Scan!IsFolder(n)
    <3>1. f \in Scan!Held(n) <=> n \in Scan!Above[f]
      BY <1>1, <2>1 DEF Scan!Held, Scan!Walk
    <3> QED BY <1>1, <2>1, <3>1
  <2>2. CASE ~Scan!IsFolder(n)
    BY <1>2, <2>2 DEF Scan!Held
  <2> QED BY <2>1, <2>2
<1> QED BY <1>1, <1>3, <1>4

\* Below each folder above the file, the way down goes on: to a title that holds it, or to a
\* folder that the scan opens.
LEMMA NextDown ==
    ASSUME Scan!TypeOK, NEW f, Open(f), NEW d \in Scan!Above[f]
    PROVE  \E c \in Scan!Children(d) :
             /\ c \in {f} \cup Scan!Above[f] /\ c \in Scan!Nodes /\ d < c
             /\ Scan!Shown(c) \/ (c \in Scan!Above[f] /\ ~Scan!Shown(c) /\ Scan!Descended(c))
<1>1. f \in Scan!Nodes /\ f \in Places /\ ~Scan!IsFolder(f) /\ Scan!Playable(f)
  BY HoldsWhatIsBelow DEF Places
<1>2. AboveOk(f)
  BY <1>1, AboveHas
<1>3. ASSUME NEW x \in Scan!Above[f]
      PROVE  \E c \in Scan!Children(x) :
               /\ c \in {f} \cup Scan!Above[f] /\ c \in Scan!Nodes /\ x < c
               /\ tree[c].kind # "hidden" /\ c # 0
  <2>1. PICK c \in Scan!Children(x) : c \in {f} \cup Scan!Above[f]
    BY <1>2 DEF AboveOk
  <2>2. c \in Scan!Nodes /\ tree[c].parent = x
    BY DEF Scan!Children
  <2>3. x < c /\ c # 0
    BY <2>2, TreeIs
  <2>4. tree[c].kind # "hidden"
    BY <2>1, <2>3 DEF Open, Scan!InTheOpen, Scan!Root
  <2> QED BY <2>1, <2>2, <2>3, <2>4
<1>4. PICK c \in Scan!Children(d) :
               /\ c \in {f} \cup Scan!Above[f] /\ c \in Scan!Nodes /\ d < c
               /\ tree[c].kind # "hidden" /\ c # 0
  BY <1>3
<1>5. CASE c = f
  <2>1. Scan!Shown(c)
    BY <1>1, <1>5 DEF Scan!Shown
  <2> QED BY <1>4, <2>1
<1>6. CASE c # f
  <2>1. c \in Scan!Above[f] /\ Scan!IsFolder(c)
    BY <1>2, <1>4, <1>6 DEF AboveOk
  <2>2. CASE Scan!IsTitle(c)
    <3>1. Scan!Shown(c)
      BY <1>4, <2>1, <2>2 DEF Scan!Shown
    <3> QED BY <1>4, <3>1
  <2>3. CASE ~Scan!IsTitle(c)
    <3>1. PICK s \in Scan!Children(c) :
               s \in {f} \cup Scan!Above[f] /\ s \in Scan!Nodes /\ tree[s].kind # "hidden"
      BY <1>3, <2>1
    <3>2. s # f
      BY <1>1, <2>3 DEF Scan!IsTitle, Scan!DirectMedia
    <3>3. s \in Scan!Above[f] /\ Scan!IsFolder(s) /\ f \in Scan!Walk(s)
      BY <1>2, <3>1, <3>2, HoldsWhatIsBelow DEF AboveOk
    <3>4. s \in Scan!ChildDirs(c)
      BY <3>1, <3>3 DEF Scan!ChildDirs
    <3>5. s \notin Scan!SeasonDirs(c)
      BY <2>3, <3>3 DEF Scan!IsTitle
    <3>6. Scan!Descended(c)
      BY <1>4, <2>1, <2>3, <3>3, <3>4, <3>5 DEF Scan!Descended, Scan!IsContainer
    <3>7. ~Scan!Shown(c)
      BY <2>1, <2>3 DEF Scan!Shown
    <3> QED BY <1>4, <2>1, <3>6, <3>7
  <2> QED BY <2>2, <2>3
<1> QED BY <1>5, <1>6

\* The folders that a visitor comes to from d.
Opens(S, d) == d \in S /\ \A x \in S : \A c \in Scan!Children(x) : Scan!Descended(c) => c \in S
Reach(d)    == {a \in Places : \A S \in SUBSET Places : Opens(S, d) => a \in S}

\* What can be browsed below a folder is what it shows and what its opened folders have.
LEMMA BrowsableIs ==
    ASSUME Scan!TypeOK
    PROVE  \E under :
             /\ Scan!Browsable = under[0]
             /\ \A d \in Places : under[d] = {n \in Scan!Children(d) : Scan!Shown(n)} \cup
                    UNION {under[n] : n \in {c \in Scan!Children(d) : Scan!Descended(c)}}
<1> DEFINE g == [d \in Places |-> {n \in Scan!Nodes : Scan!Shown(n) /\ tree[n].parent \in Reach(d)}]
           Below(d) == {c \in Scan!Children(d) : Scan!Descended(c)}
<1>1. ASSUME NEW d \in Places
      PROVE  Reach(d) = {d} \cup UNION {Reach(n) : n \in Below(d)}
  <2> DEFINE T == {d} \cup UNION {Reach(n) : n \in Below(d)}
  <2>1. \A n \in Below(d) : n \in Places
    BY DEF Scan!Children, Places
  <2>2. ASSUME NEW n \in Below(d), NEW a \in Reach(n) PROVE a \in Reach(d)
    <3>1. ASSUME NEW S \in SUBSET Places, Opens(S, d) PROVE a \in S
      <4>1. Opens(S, n)
        BY <3>1 DEF Opens
      <4> QED BY <4>1 DEF Reach
    <3> QED BY <3>1 DEF Reach
  <2>3. d \in Reach(d)
    BY DEF Reach, Opens
  <2>4. T \in SUBSET Places
    BY DEF Reach
  <2>5. \A n \in Below(d) : n \in Reach(n)
    BY <2>1 DEF Reach, Opens
  <2>6. ASSUME NEW n \in Below(d), NEW x \in Reach(n), NEW c \in Scan!Children(x), Scan!Descended(c)
        PROVE  c \in Reach(n)
    <3>1. c \in Places
      BY DEF Scan!Children, Places
    <3>2. ASSUME NEW S \in SUBSET Places, Opens(S, n) PROVE c \in S
      <4>1. x \in S
        BY <3>2 DEF Reach
      <4> QED BY <2>6, <3>2, <4>1 DEF Opens
    <3> QED BY <3>1, <3>2 DEF Reach
  <2>7. Opens(T, d)
    <3>1. ASSUME NEW x \in T, NEW c \in Scan!Children(x), Scan!Descended(c) PROVE c \in T
      <4>1. CASE x = d
        BY <2>5, <3>1, <4>1
      <4>2. CASE x # d
        BY <2>6, <3>1, <4>2
      <4> QED BY <4>1, <4>2
    <3> QED BY <3>1 DEF Opens
  <2>8. \A a \in Reach(d) : a \in T
    BY <2>4, <2>7 DEF Reach
  <2>9. \A a \in T : a \in Reach(d)
    BY <2>2, <2>3
  <2> HIDE DEF T
  <2>10. Reach(d) = T
    BY <2>8, <2>9
  <2> QED BY <2>10 DEF T
<1>2. ASSUME NEW d \in Places
      PROVE  g[d] = {n \in Scan!Children(d) : Scan!Shown(n)} \cup UNION {g[n] : n \in Below(d)}
  <2>1. \A n \in Below(d) : n \in Places
    BY DEF Scan!Children, Places
  <2>2. \A n \in Below(d) :
            g[n] = {x \in Scan!Nodes : Scan!Shown(x) /\ tree[x].parent \in Reach(n)}
    BY <2>1
  <2>3. g[d] = {x \in Scan!Nodes : Scan!Shown(x) /\ tree[x].parent \in Reach(d)}
    OBVIOUS
  <2> HIDE DEF g, Below
  <2>4. ASSUME NEW x
        PROVE  x \in g[d] <=> x \in {n \in Scan!Children(d) : Scan!Shown(n)}
                                      \cup UNION {g[n] : n \in Below(d)}
    BY <1>1, <2>2, <2>3 DEF Scan!Children
  <2> QED BY <2>4
<1>3. g = [d \in Places |->
              {n \in Scan!Children(d) : Scan!Shown(n)} \cup UNION {g[n] : n \in Below(d)}]
  <2>1. g = [d \in Places |-> g[d]]
    OBVIOUS
  <2> HIDE DEF g, Below
  <2> QED BY <1>2, <2>1
<1> HIDE DEF g
<1>4. \E u : u = [d \in {Scan!Root} \cup Scan!Nodes |->
              {n \in Scan!Children(d) : Scan!Shown(n)}
              \cup UNION {u[n] : n \in {c \in Scan!Children(d) : Scan!Descended(c)}}]
  BY <1>3 DEF Places, Scan!Root
<1>5. PICK u : /\ u = [d \in {Scan!Root} \cup Scan!Nodes |->
                        {n \in Scan!Children(d) : Scan!Shown(n)}
                        \cup UNION {u[n] : n \in {c \in Scan!Children(d) : Scan!Descended(c)}}]
               /\ Scan!Browsable = u[Scan!Root]
  BY <1>4, Zenon DEF Scan!Browsable
<1>6. \A d \in Places : u[d] = {n \in Scan!Children(d) : Scan!Shown(n)} \cup
                    UNION {u[n] : n \in {c \in Scan!Children(d) : Scan!Descended(c)}}
  BY <1>5 DEF Places, Scan!Root
<1> QED BY <1>5, <1>6 DEF Scan!Root

LEMMA BrowseReaches == Scan!TypeOK => Scan!BrowseReachesAll
<1> SUFFICES ASSUME Scan!TypeOK, NEW f, Open(f)
             PROVE  \E t \in Scan!Browsable :
                      f \in Scan!Held(t) /\ (f \in Scan!Played(t)
                            \/ (Scan!MediaKind(t) = "movie" /\ Scan!Cardinality(Scan!Held(t)) > 1))
  BY DEF Scan!BrowseReachesAll, Open, Scan!Root
<1>1. PICK under :
             /\ Scan!Browsable = under[0]
             /\ \A d \in Places : under[d] = {n \in Scan!Children(d) : Scan!Shown(n)} \cup
                    UNION {under[n] : n \in {c \in Scan!Children(d) : Scan!Descended(c)}}
  BY BrowsableIs
<1>2. f \in Places /\ f \in Nat /\ f # 0 /\ AboveOk(f) /\ Places \subseteq Nat
  BY HoldsWhatIsBelow, TreeIs, AboveHas DEF Places
<1> DEFINE S == {d \in Scan!Above[f] : under[d] \subseteq under[0]}
<1>3. PICK d \in S : \A x \in S : x <= d
  <2>1. S \in SUBSET Nat /\ 0 \in S /\ \A x \in S : x <= f
    <3>1. 0 \in S
      BY <1>2 DEF AboveOk
    <3>2. \A x \in Scan!Above[f] : x \in Nat /\ x < f
      BY <1>2 DEF AboveOk
    <3>3. \A x \in S : x \in Nat /\ x <= f
      BY <1>2, <3>2
    <3> QED BY <3>1, <3>3
  <2> HIDE DEF S
  <2> QED BY <1>2, <2>1, Greatest
<1>4. PICK c \in Scan!Children(d) :
             /\ c \in {f} \cup Scan!Above[f] /\ c \in Scan!Nodes /\ d < c
             /\ Scan!Shown(c) \/ (c \in Scan!Above[f] /\ ~Scan!Shown(c) /\ Scan!Descended(c))
  BY <1>3, NextDown
<1>5. d \in Places /\ d \in Nat /\ c \in Places /\ c \in Nat
  BY <1>2, <1>3, <1>4 DEF AboveOk, Places
<1>6. Scan!Shown(c)
  <2>1. ASSUME ~Scan!Shown(c) PROVE FALSE
    <3>1. c \in Scan!Above[f] /\ Scan!Descended(c)
      BY <1>4, <2>1
    <3>2. under[c] \subseteq under[d]
      BY <1>1, <1>4, <1>5, <3>1
    <3>3. c \in S
      BY <1>3, <3>1, <3>2
    <3> QED BY <1>3, <1>4, <1>5, <3>3
  <2> QED BY <2>1
<1>7. c \in Scan!Browsable /\ f \in Scan!Held(c)
  <2>1. c \in under[d]
    BY <1>1, <1>4, <1>5, <1>6
  <2>2. c \in Scan!Browsable
    BY <1>1, <1>3, <2>1
  <2> QED BY <1>4, <1>5, <2>2, HoldsWhatIsBelow
<1>8. f \in Scan!Played(c)
        \/ (Scan!MediaKind(c) = "movie" /\ Scan!Cardinality(Scan!Held(c)) > 1)
  <2>1. CASE Scan!MediaKind(c) # "movie"
    BY <1>7, <2>1 DEF Scan!Played
  <2>2. CASE Scan!MediaKind(c) = "movie" /\ f \notin Scan!Played(c)
    <3> DEFINE h == CHOOSE x \in Scan!Held(c) : TRUE
    <3>1. h \in Scan!Held(c) /\ h # f
      BY <1>7, <2>2 DEF Scan!Played
    <3> HIDE DEF h
    <3>2. IsFiniteSet(Scan!Held(c))
      <4>1. Scan!Held(c) \subseteq Places
        BY <1>5 DEF Scan!Held, Scan!Walk, Places
      <4>2. IsFiniteSet(Places)
        BY TreeIs, FS_Interval
      <4> QED BY <4>1, <4>2, FS_Subset
    <3>3. Cardinality({f, h}) = 2 /\ {f, h} \subseteq Scan!Held(c)
      <4>1. IsFiniteSet({f}) /\ Cardinality({f}) = 1
        BY FS_Singleton
      <4>2. Cardinality({f} \cup {h}) = Cardinality({f}) + 1
        BY <3>1, <4>1, FS_AddElement
      <4>3. {f} \cup {h} = {f, h}
        OBVIOUS
      <4> QED BY <1>7, <3>1, <4>1, <4>2, <4>3
    <3>4. Cardinality({f, h}) <= Cardinality(Scan!Held(c)) /\ Cardinality(Scan!Held(c)) \in Nat
      BY <3>2, <3>3, FS_Subset, FS_CardinalityType
    <3>5. Cardinality(Scan!Held(c)) > 1
      BY <3>3, <3>4
    <3> QED BY <2>2, <3>5 DEF Cardinality, Scan!Cardinality
  <2> QED BY <2>1, <2>2
<1> QED BY <1>7, <1>8

-----------------------------------------------------------------------------
(* The list of a scan: names in order, lists in lists.                     *)

Earlier(S, n) == {m \in S : m < n}

\* Each number of a set has its place in it, and each place has its number.
LEMMA NthIs ==
    ASSUME NEW S \in SUBSET Nat, IsFiniteSet(S)
    PROVE  /\ \A i \in 1..Cardinality(S) : Scan!Nth(S, i) \in S
           /\ \A n \in S : \E k \in 1..Cardinality(S) :
                Scan!Nth(S, k) = n /\ \A i \in 1..Cardinality(S) : Scan!Nth(S, i) = n => i = k
<1> DEFINE size == Cardinality(S)
           f == [n \in S |-> Cardinality(Earlier(S, n))]
<1>1. size \in Nat
  BY FS_CardinalityType
<1>2. IsFiniteSet(0..(size - 1)) /\ Cardinality(0..(size - 1)) = size
  <2>1. 0 \in Int /\ size - 1 \in Int
    BY <1>1
  <2>2. /\ IsFiniteSet(0..(size - 1))
        /\ Cardinality(0..(size - 1)) = IF 0 > size - 1 THEN 0 ELSE size - 1 - 0 + 1
    BY <2>1, FS_Interval
  <2> QED BY <2>2, <1>1
<1>3. ASSUME NEW n \in S
      PROVE  /\ IsFiniteSet(Earlier(S, n)) /\ Cardinality(Earlier(S, n)) \in Nat
             /\ Cardinality(Earlier(S, n)) < size
  <2>1. Earlier(S, n) \subseteq S \ {n}
    BY DEF Earlier
  <2>2. IsFiniteSet(S \ {n}) /\ Cardinality(S \ {n}) = size - 1
    BY FS_RemoveElement
  <2>3. /\ IsFiniteSet(Earlier(S, n)) /\ Cardinality(Earlier(S, n)) <= Cardinality(S \ {n})
        /\ Cardinality(Earlier(S, n)) \in Nat
    BY <2>1, <2>2, FS_Subset, FS_CardinalityType
  <2> QED BY <1>1, <2>2, <2>3
<1>4. ASSUME NEW m \in S, NEW n \in S, m < n
      PROVE  Cardinality(Earlier(S, m)) < Cardinality(Earlier(S, n))
  <2>1. Earlier(S, m) \cup {m} \subseteq Earlier(S, n) /\ m \notin Earlier(S, m)
    <3>1. m \in Nat /\ n \in Nat
      OBVIOUS
    <3>2. \A x \in Earlier(S, m) : x \in Nat /\ x < n
      BY <1>4, <3>1 DEF Earlier
    <3>3. \A x \in Earlier(S, m) : x \in Earlier(S, n)
      BY <3>2 DEF Earlier
    <3>4. m \in Earlier(S, n)
      BY <1>4 DEF Earlier
    <3>5. m \notin Earlier(S, m)
      BY <3>1 DEF Earlier
    <3> QED BY <3>3, <3>4, <3>5
  <2>2. Cardinality(Earlier(S, m) \cup {m}) = Cardinality(Earlier(S, m)) + 1
    BY <1>3, <2>1, FS_AddElement
  <2>3. Cardinality(Earlier(S, m) \cup {m}) <= Cardinality(Earlier(S, n))
    BY <1>3, <2>1, FS_Subset
  <2> QED BY <1>3, <2>2, <2>3
<1>5. f \in [S -> 0..(size - 1)]
  <2>1. \A n \in S : Cardinality(Earlier(S, n)) \in 0..(size - 1)
    BY <1>1, <1>3
  <2> QED BY <2>1
<1>6. \A m, n \in S : m # n => f[m] # f[n]
  <2>1. SUFFICES ASSUME NEW m \in S, NEW n \in S, m # n PROVE f[m] # f[n]
    OBVIOUS
  <2>2. m < n \/ n < m
    BY <2>1
  <2>3. f[m] \in Nat /\ f[n] \in Nat
    BY <1>3
  <2> QED BY <1>4, <2>2, <2>3
<1>7. \A n \in S : f[n] = Cardinality(Earlier(S, n))
  OBVIOUS
<1> HIDE DEF f, size
<1>8. f \in Surjection(S, 0..(size - 1))
  <2>1. f \in Injection(S, 0..(size - 1))
    BY <1>5, <1>6 DEF Injection, IsInjective
  <2> QED BY <1>2, <2>1, FS_Injection DEF size
<1>9. ASSUME NEW i \in 1..size PROVE Scan!Nth(S, i) \in S /\ f[Scan!Nth(S, i)] = i - 1
  <2>1. i - 1 \in 0..(size - 1)
    BY <1>1
  <2>2. \E n \in S : f[n] = i - 1
    BY <1>8, <2>1 DEF Surjection
  <2>3. \E n \in S : Cardinality(Earlier(S, n)) = i - 1
    BY <1>7, <2>2
  <2>4. Scan!Nth(S, i) = CHOOSE n \in S : Cardinality(Earlier(S, n)) = i - 1
    BY DEF Scan!Nth, Earlier, Cardinality, Scan!Cardinality
  <2>5. Scan!Nth(S, i) \in S /\ Cardinality(Earlier(S, Scan!Nth(S, i))) = i - 1
    BY <2>3, <2>4, Zenon
  <2> QED BY <1>7, <2>5
<1>10. ASSUME NEW n \in S
       PROVE  \E k \in 1..size :
                Scan!Nth(S, k) = n /\ \A i \in 1..size : Scan!Nth(S, i) = n => i = k
  <2>1. f[n] \in 0..(size - 1)
    BY <1>5
  <2> DEFINE k == f[n] + 1
  <2>2. k \in 1..size /\ k - 1 = f[n]
    BY <1>1, <2>1
  <2>3. Scan!Nth(S, k) = n
    BY <1>6, <1>9, <2>2
  <2>4. \A i \in 1..size : Scan!Nth(S, i) = n => i = k
    BY <1>9, <2>2
  <2> QED BY <2>2, <2>3, <2>4
<1> QED BY <1>9, <1>10 DEF size

\* How many entries of a list are in a set: none, or exactly one.
Misses(L, P)  == \A i \in 1..Len(L) : L[i] \notin P
HitsOnce(L, P) == \E i \in 1..Len(L) : L[i] \in P /\ \A j \in 1..Len(L) : L[j] \in P => j = i

LEMMA HitsJoin ==
    ASSUME NEW T, NEW A \in Seq(T), NEW B \in Seq(T), NEW P
    PROVE  /\ Misses(A, P) /\ Misses(B, P) => Misses(A \o B, P)
           /\ HitsOnce(A, P) /\ Misses(B, P) => HitsOnce(A \o B, P)
           /\ Misses(A, P) /\ HitsOnce(B, P) => HitsOnce(A \o B, P)
<1>1. /\ Len(A) \in Nat /\ Len(B) \in Nat /\ Len(A \o B) = Len(A) + Len(B)
      /\ \A i \in 1..Len(A) + Len(B) : (A \o B)[i] = IF i <= Len(A) THEN A[i] ELSE B[i - Len(A)]
  BY ConcatProperties, LenProperties
<1>2. \A i \in 1..Len(A) : i \in 1..Len(A \o B) /\ (A \o B)[i] = A[i]
  BY <1>1
<1>3. \A i \in 1..Len(B) : i + Len(A) \in 1..Len(A \o B) /\ (A \o B)[i + Len(A)] = B[i]
  BY <1>1
<1>4. ASSUME NEW i \in 1..Len(A \o B)
      PROVE  \/ i \in 1..Len(A) /\ (A \o B)[i] = A[i]
             \/ i - Len(A) \in 1..Len(B) /\ (A \o B)[i] = B[i - Len(A)]
  BY <1>1
<1> DEFINE C == A \o B
<1> HIDE DEF C
<1>5. ASSUME Misses(A, P), Misses(B, P) PROVE Misses(C, P)
  BY <1>4, <1>5 DEF Misses, C
<1>6. ASSUME HitsOnce(A, P), Misses(B, P) PROVE HitsOnce(C, P)
  <2>1. PICK i \in 1..Len(A) : A[i] \in P /\ \A j \in 1..Len(A) : A[j] \in P => j = i
    BY <1>6 DEF HitsOnce
  <2>2. i \in 1..Len(C) /\ C[i] \in P
    BY <1>2, <2>1 DEF C
  <2>3. \A j \in 1..Len(C) : C[j] \in P => j = i
    BY <1>4, <1>6, <2>1 DEF Misses, C
  <2> QED BY <2>2, <2>3 DEF HitsOnce
<1>7. ASSUME Misses(A, P), HitsOnce(B, P) PROVE HitsOnce(C, P)
  <2>1. PICK i \in 1..Len(B) : B[i] \in P /\ \A j \in 1..Len(B) : B[j] \in P => j = i
    BY <1>7 DEF HitsOnce
  <2>2. i + Len(A) \in 1..Len(C) /\ C[i + Len(A)] \in P
    BY <1>3, <2>1 DEF C
  <2>3. ASSUME NEW j \in 1..Len(C), C[j] \in P PROVE j = i + Len(A)
    <3>1. j - Len(A) \in 1..Len(B) /\ C[j] = B[j - Len(A)]
      BY <1>4, <1>7, <2>3 DEF Misses, C
    <3>2. j - Len(A) = i
      BY <2>1, <2>3, <3>1
    <3> QED BY <1>1, <3>2
  <2> QED BY <2>2, <2>3 DEF HitsOnce
<1> QED BY <1>5, <1>6, <1>7 DEF C

\* A list of lists, one after the other: what it is built from, step by step.
Joined(F, S) ==
    \A i \in 1..Len(S) : F[i] = IF i = 1 THEN S[i] ELSE F[i - 1] \o S[i]

LEMMA FlatIs ==
    ASSUME NEW T, NEW S \in Seq(Seq(T)), Len(S) # 0
    PROVE  \E F : /\ F \in [1..Len(S) -> Seq(T)] /\ Joined(F, S)
                  /\ Scan!FlattenSeq(S) = F[Len(S)]
<1> DEFINE last == Len(S)
           Up(F, k) == /\ F \in [1..k -> Seq(T)]
                       /\ \A i \in 1..k : F[i] = IF i = 1 THEN S[i] ELSE F[i - 1] \o S[i]
           bad == {k \in 1..last : ~\E F : Up(F, k)}
<1>1. last \in Nat \ {0} /\ \A k \in 1..last : S[k] \in Seq(T)
  BY LenProperties, ElementOfSeq
<1>2. ASSUME NEW k \in 1..last, k # 1 => \E G : Up(G, k - 1) PROVE \E F : Up(F, k)
  <2>1. CASE k = 1
    <3> DEFINE F == [i \in 1..1 |-> S[1]]
    <3>1. F \in [1..k -> Seq(T)]
      BY <1>1, <2>1
    <3>2. \A i \in 1..k : F[i] = IF i = 1 THEN S[i] ELSE F[i - 1] \o S[i]
      BY <2>1
    <3> QED BY <3>1, <3>2
  <2>2. CASE k # 1
    <3>1. /\ k \in Nat /\ k \in 1..k /\ k - 1 \in 1..last
          /\ k - 1 \in 1..(k - 1) /\ k - 1 \in 1..k /\ k - 1 # k
      BY <1>1, <2>2
    <3>2. PICK G : Up(G, k - 1)
      BY <1>2, <2>2
    <3> DEFINE F == [i \in 1..k |-> IF i = k THEN G[k - 1] \o S[k] ELSE G[i]]
    <3>3. G[k - 1] \o S[k] \in Seq(T)
      <4>1. G[k - 1] \in Seq(T) /\ S[k] \in Seq(T)
        BY <1>1, <3>1, <3>2
      <4> QED BY <4>1, ConcatProperties
    <3>4. \A i \in 1..k : i # k => i \in 1..(k - 1) /\ G[i] \in Seq(T) /\ F[i] = G[i]
      BY <3>1, <3>2
    <3>5. F[k] = G[k - 1] \o S[k]
      BY <3>1
    <3>6. F \in [1..k -> Seq(T)]
      BY <3>3, <3>4
    <3> HIDE DEF F
    <3>7. ASSUME NEW i \in 1..k PROVE F[i] = IF i = 1 THEN S[i] ELSE F[i - 1] \o S[i]
      <4>1. CASE i = k
        <5>1. F[k - 1] = G[k - 1]
          BY <3>1, <3>4
        <5> QED BY <2>2, <3>5, <4>1, <5>1
      <4>2. CASE i # k
        <5>1. G[i] = IF i = 1 THEN S[i] ELSE G[i - 1] \o S[i]
          BY <3>2, <3>4, <4>2
        <5>2. i # 1 => i - 1 \in 1..k /\ i - 1 # k
          BY <3>1, <4>2
        <5> QED BY <3>4, <4>2, <5>1, <5>2
      <4> QED BY <4>1, <4>2
    <3> QED BY <3>6, <3>7
  <2> QED BY <2>1, <2>2
<1> HIDE DEF Up
<1>3. bad = {}
  <2>1. SUFFICES ASSUME bad # {} PROVE FALSE
    OBVIOUS
  <2>2. bad \in SUBSET Nat
    BY <1>1
  <2>3. PICK k \in bad : \A j \in bad : k <= j
    <3> HIDE DEF bad
    <3> QED BY <2>1, <2>2, Least
  <2>4. k # 1 => k - 1 \in 1..last /\ k - 1 \notin bad
    <3>1. k \in 1..last
      OBVIOUS
    <3> HIDE DEF bad
    <3> QED BY <1>1, <2>3, <3>1
  <2> QED BY <1>2, <2>3, <2>4
<1>4. PICK F : Up(F, last)
  BY <1>1, <1>3
<1>5. F \in [1..last -> Seq(T)] /\ Joined(F, S)
  BY <1>4 DEF Up, Joined
<1>6. F = [i \in 1..last |-> IF i = 1 THEN S[i] ELSE F[i - 1] \o S[i]]
  BY <1>5 DEF Joined
<1>7. \E G : G = [i \in 1..Len(S) |-> IF i = 1 THEN S[i] ELSE G[i - 1] \o S[i]]
  BY <1>6
<1>8. PICK G : /\ G = [i \in 1..Len(S) |-> IF i = 1 THEN S[i] ELSE G[i - 1] \o S[i]]
               /\ Scan!FlattenSeq(S) = G[Len(S)]
  BY <1>7, Zenon DEF Scan!FlattenSeq
<1> HIDE DEF bad
<1>9. Joined(G, S)
  BY <1>8 DEF Joined
<1>10. \A i \in 1..last : G[i] = F[i]
  <2> DEFINE off == {i \in 1..last : G[i] # F[i]}
  <2>1. SUFFICES ASSUME off # {} PROVE FALSE
    OBVIOUS
  <2>2. off \in SUBSET Nat
    BY <1>1
  <2>3. PICK i \in off : \A j \in off : i <= j
    <3> HIDE DEF off
    <3> QED BY <2>1, <2>2, Least
  <2>4. i # 1 => i - 1 \in 1..last /\ i - 1 \notin off
    BY <1>1, <2>3
  <2>5. i # 1 => G[i - 1] = F[i - 1]
    BY <2>4
  <2>6. G[i] = F[i]
    BY <1>5, <1>9, <2>3, <2>5 DEF Joined
  <2> QED BY <2>3, <2>6
<1>11. Scan!FlattenSeq(S) = F[Len(S)]
  <2>1. Len(S) \in 1..last
    BY <1>1
  <2> QED BY <1>8, <1>10, <2>1
<1> QED BY <1>5, <1>11

\* What is in no list is not in the joined one, and what is in one of them once is there once.
LEMMA HitsFlat ==
    ASSUME NEW T, NEW S \in Seq(Seq(T)), NEW P
    PROVE  /\ Scan!FlattenSeq(S) \in Seq(T)
           /\ (\A i \in 1..Len(S) : Misses(S[i], P)) => Misses(Scan!FlattenSeq(S), P)
           /\ \A k \in 1..Len(S) :
                HitsOnce(S[k], P) /\ (\A i \in 1..Len(S) : i # k => Misses(S[i], P))
                  => HitsOnce(Scan!FlattenSeq(S), P)
<1>1. CASE Len(S) = 0
  <2>1. S = <<>> /\ Scan!FlattenSeq(S) = S
    BY <1>1, EmptySeq DEF Scan!FlattenSeq
  <2>2. <<>> \in Seq(T) /\ Misses(<<>>, P)
    BY EmptySeq DEF Misses
  <2>3. Scan!FlattenSeq(S) = <<>>
    BY <2>1
  <2>4. Scan!FlattenSeq(S) \in Seq(T) /\ Misses(Scan!FlattenSeq(S), P)
    BY <2>2, <2>3
  <2>5. \A k \in 1..Len(S) : FALSE
    BY <1>1
  <2> QED BY <2>4, <2>5
<1>2. CASE Len(S) # 0
  <2> DEFINE last == Len(S)
  <2>1. last \in Nat \ {0} /\ last \in 1..last /\ \A k \in 1..last : S[k] \in Seq(T)
    BY <1>2, LenProperties, ElementOfSeq
  <2>2. PICK F : F \in [1..last -> Seq(T)] /\ Joined(F, S) /\ Scan!FlattenSeq(S) = F[last]
    BY <1>2, FlatIs
  <2>3. Scan!FlattenSeq(S) \in Seq(T)
    BY <2>1, <2>2
  <2> DEFINE After(i, k) == IF i < k THEN Misses(F[i], P) ELSE HitsOnce(F[i], P)
  <2>4. ASSUME NEW k \in 1..(last + 1), k <= last => HitsOnce(S[k], P),
               \A i \in 1..last : i # k => Misses(S[i], P)
        PROVE  After(last, k)
    <3> DEFINE bad == {i \in 1..last : ~After(i, k)}
    <3>1. SUFFICES ASSUME bad # {} PROVE FALSE
      BY <2>1
    <3>2. bad \in SUBSET Nat
      BY <2>1
    <3>3. PICK i \in bad : \A j \in bad : i <= j
      <4> HIDE DEF bad
      <4> QED BY <3>1, <3>2, Least
    <3>4. i \in 1..last /\ ~After(i, k)
      OBVIOUS
    <3>5. i # 1 => i - 1 \in 1..last /\ i - 1 < i /\ i - 1 \notin bad
      <4> HIDE DEF bad
      <4> QED BY <2>1, <3>3, <3>4
    <3>6. i # 1 => After(i - 1, k) /\ F[i - 1] \in Seq(T)
      BY <2>2, <3>5
    <3>7. F[i] = IF i = 1 THEN S[i] ELSE F[i - 1] \o S[i]
      BY <2>2, <3>4 DEF Joined
    <3>8. S[i] \in Seq(T) /\ k \in Nat /\ i \in Nat
      BY <2>1, <3>4
    <3>9. CASE i < k
      <4>1. Misses(S[i], P)
        BY <2>4, <3>4, <3>8, <3>9
      <4>2. i # 1 => Misses(F[i - 1], P)
        BY <3>5, <3>6, <3>8, <3>9
      <4>3. Misses(F[i], P)
        BY <3>6, <3>7, <3>8, <4>1, <4>2, HitsJoin
      <4> QED BY <3>4, <3>9, <4>3
    <3>10. CASE i = k
      <4>1. HitsOnce(S[i], P)
        BY <2>1, <2>4, <3>4, <3>10
      <4>2. i # 1 => Misses(F[i - 1], P)
        BY <3>5, <3>6, <3>8, <3>10
      <4>3. HitsOnce(F[i], P)
        BY <3>6, <3>7, <3>8, <4>1, <4>2, HitsJoin
      <4> QED BY <3>4, <3>8, <3>10, <4>3
    <3>11. CASE i > k
      <4>1. Misses(S[i], P)
        BY <2>4, <3>4, <3>8, <3>11
      <4>2. i # 1 /\ ~(i - 1 < k)
        BY <3>8, <3>11
      <4>3. HitsOnce(F[i - 1], P)
        BY <3>6, <4>2
      <4>4. HitsOnce(F[i], P)
        BY <3>6, <3>7, <3>8, <4>1, <4>2, <4>3, HitsJoin
      <4> QED BY <3>4, <3>8, <3>11, <4>4
    <3> QED BY <3>8, <3>9, <3>10, <3>11
  <2> HIDE DEF After
  <2>5. ASSUME \A i \in 1..last : Misses(S[i], P) PROVE Misses(Scan!FlattenSeq(S), P)
    <3>1. last + 1 \in 1..(last + 1) /\ ~(last + 1 <= last) /\ last < last + 1
      BY <2>1
    <3>2. After(last, last + 1)
      BY <2>4, <2>5, <3>1
    <3> QED BY <2>2, <3>1, <3>2 DEF After
  <2>6. ASSUME NEW k \in 1..last, HitsOnce(S[k], P),
               \A i \in 1..last : i # k => Misses(S[i], P)
        PROVE  HitsOnce(Scan!FlattenSeq(S), P)
    <3>1. k \in 1..(last + 1) /\ ~(last < k)
      BY <2>1
    <3>2. After(last, k)
      BY <2>4, <2>6, <3>1
    <3> QED BY <2>2, <3>1, <3>2 DEF After
  <2> QED BY <2>3, <2>5, <2>6
<1> QED BY <1>1, <1>2, LenProperties

-----------------------------------------------------------------------------
(* Each file once in the list.                                             *)

Depths == 0..(MaxDepth + 1)

\* What a folder adds to the list for one of its names, and for all of them.
Entry(below, n) ==
    IF Scan!Shown(n) THEN <<n>> ELSE IF Scan!Descended(n) THEN below[n] ELSE <<>>
Listing(below, d) ==
    Scan!FlattenSeq([i \in 1..Scan!Cardinality(Scan!Children(d)) |->
                        Entry(below, Scan!Nth(Scan!Children(d), i))])

\* The lists of the folders at each depth from lo on.
ListsFrom(u, lo) ==
    \A i \in lo..(MaxDepth + 1) : \A d \in Places :
        u[i][d] = IF i > MaxDepth THEN <<>> ELSE Listing(u[i + 1], d)

LEMMA ChildrenAre ==
    ASSUME Scan!TypeOK, NEW d
    PROVE  /\ Scan!Children(d) \in SUBSET Nat /\ IsFiniteSet(Scan!Children(d))
           /\ Scan!Cardinality(Scan!Children(d)) = Cardinality(Scan!Children(d))
           /\ Cardinality(Scan!Children(d)) \in Nat
           /\ \A i \in 1..Cardinality(Scan!Children(d)) :
                Scan!Nth(Scan!Children(d), i) \in Scan!Children(d)
           /\ \A n \in Scan!Children(d) : n \in Scan!Nodes /\ n \in Places /\ tree[n].parent = d
<1>1. Scan!Children(d) \subseteq Scan!Nodes /\ Scan!Nodes = 1..Len(tree) /\ Len(tree) \in Nat
  BY TreeIs DEF Scan!Children
<1>2. IsFiniteSet(Scan!Nodes)
  BY <1>1, FS_Interval
<1>3. /\ Scan!Children(d) \in SUBSET Nat /\ IsFiniteSet(Scan!Children(d))
      /\ Cardinality(Scan!Children(d)) \in Nat
  BY <1>1, <1>2, FS_Subset, FS_CardinalityType
<1>4. \A n \in Scan!Children(d) : n \in Scan!Nodes /\ n \in Places /\ tree[n].parent = d
  BY DEF Scan!Children, Places
<1>5. Scan!Cardinality(Scan!Children(d)) = Cardinality(Scan!Children(d))
  BY DEF Cardinality, Scan!Cardinality
<1> QED BY <1>3, <1>4, <1>5, NthIs

\* What a folder adds is a list of lists of places: one for each of its names.
LEMMA EntriesAre ==
    ASSUME Scan!TypeOK, NEW d, NEW below, \A n \in Places : below[n] \in Seq(Scan!Nodes)
    PROVE  \E S : /\ S \in Seq(Seq(Scan!Nodes)) /\ Len(S) = Cardinality(Scan!Children(d))
                  /\ \A i \in 1..Len(S) : S[i] = Entry(below, Scan!Nth(Scan!Children(d), i))
                  /\ Listing(below, d) = Scan!FlattenSeq(S)
<1> DEFINE S == [i \in 1..Scan!Cardinality(Scan!Children(d)) |->
                        Entry(below, Scan!Nth(Scan!Children(d), i))]
           c == Cardinality(Scan!Children(d))
           T == Scan!Nodes
<1>1. ASSUME NEW n \in Scan!Nodes PROVE Entry(below, n) \in Seq(T)
  <2>1. n \in T
    OBVIOUS
  <2> HIDE DEF T
  <2>2. <<>> \in Seq(T) /\ <<n>> \in Seq(T)
    <3>1. <<>> \in Seq(T)
      BY EmptySeq
    <3>2. <<n>> = Append(<<>>, n)
      OBVIOUS
    <3> QED BY <2>1, <3>1, <3>2, AppendProperties
  <2>3. below[n] \in Seq(T)
    BY <2>1 DEF T, Places
  <2> QED BY <2>2, <2>3 DEF Entry
<1>2. c \in Nat /\ Scan!Cardinality(Scan!Children(d)) = c
  BY ChildrenAre
<1>3. \A i \in 1..c : Entry(below, Scan!Nth(Scan!Children(d), i)) \in Seq(T)
  BY <1>1, ChildrenAre
<1>4. S \in [1..c -> Seq(T)]
  BY <1>2, <1>3
<1>5. \A i \in 1..c : S[i] = Entry(below, Scan!Nth(Scan!Children(d), i))
  BY <1>2
<1>6. Listing(below, d) = Scan!FlattenSeq(S)
  BY DEF Listing
<1> HIDE DEF S, c, T
<1>7. S \in Seq(Seq(T)) /\ Len(S) = c
  BY <1>2, <1>4
<1> QED BY <1>5, <1>6, <1>7 DEF c, T

LEMMA ListingIs ==
    ASSUME Scan!TypeOK, NEW d, NEW below, \A n \in Places : below[n] \in Seq(Scan!Nodes)
    PROVE  Listing(below, d) \in Seq(Scan!Nodes)
<1>1. PICK S : S \in Seq(Seq(Scan!Nodes)) /\ Listing(below, d) = Scan!FlattenSeq(S)
  BY EntriesAre
<1> QED BY <1>1, HitsFlat

\* The lists of one depth are made from those of the next, so all of them are there.
LEMMA RowsAre ==
    ASSUME Scan!TypeOK
    PROVE  \E u : u \in [Depths -> [Places -> Seq(Scan!Nodes)]] /\ ListsFrom(u, 0)
<1> DEFINE T == Seq(Scan!Nodes)
           Has(lo) == \E u : u \in [lo..(MaxDepth + 1) -> [Places -> T]] /\ ListsFrom(u, lo)
           bad == {lo \in Depths : ~Has(lo)}
<1>1. MaxDepth \in Nat /\ MaxDepth + 1 \in Depths /\ Depths \subseteq Nat /\ 0 \in Depths
  BY ScanAssumption DEF Depths
<1>2. ASSUME NEW lo \in Depths, lo # MaxDepth + 1 => Has(lo + 1) PROVE Has(lo)
  <2>1. CASE lo = MaxDepth + 1
    <3> DEFINE u == [i \in lo..(MaxDepth + 1) |-> [d \in Places |-> <<>>]]
    <3>1. <<>> \in T
      BY EmptySeq
    <3> HIDE DEF T
    <3>2. u \in [lo..(MaxDepth + 1) -> [Places -> T]]
      BY <3>1
    <3>3. ListsFrom(u, lo)
      <4>1. \A i \in lo..(MaxDepth + 1) : i > MaxDepth
        BY <1>1, <2>1 DEF Depths
      <4>2. \A i \in lo..(MaxDepth + 1) : \A d \in Places : u[i][d] = <<>>
        OBVIOUS
      <4> QED BY <4>1, <4>2 DEF ListsFrom
    <3> HIDE DEF u
    <3> QED BY <3>2, <3>3
  <2>2. CASE lo # MaxDepth + 1
    <3>1. PICK v : v \in [(lo + 1)..(MaxDepth + 1) -> [Places -> T]] /\ ListsFrom(v, lo + 1)
      BY <1>2, <2>2
    <3>2. /\ lo \in Nat /\ ~(lo > MaxDepth) /\ lo + 1 \in (lo + 1)..(MaxDepth + 1)
          /\ lo \in lo..(MaxDepth + 1)
          /\ \A i \in lo..(MaxDepth + 1) : i # lo => i \in (lo + 1)..(MaxDepth + 1)
      BY <1>1, <2>2 DEF Depths
    <3>3. v[lo + 1] \in [Places -> T]
      BY <3>1, <3>2
    <3> DEFINE top == [d \in Places |-> Listing(v[lo + 1], d)]
               u == [i \in lo..(MaxDepth + 1) |-> IF i = lo THEN top ELSE v[i]]
    <3>4. top \in [Places -> T]
      <4>1. \A d \in Places : Listing(v[lo + 1], d) \in T
        BY <3>3, ListingIs
      <4> HIDE DEF T
      <4> QED BY <4>1
    <3>5. \A d \in Places : top[d] = Listing(v[lo + 1], d)
      OBVIOUS
    <3> HIDE DEF top, T
    <3>6. \A i \in lo..(MaxDepth + 1) : i # lo => v[i] \in [Places -> T]
      BY <3>1, <3>2
    <3>7. u \in [lo..(MaxDepth + 1) -> [Places -> T]]
      BY <3>4, <3>6
    <3>8. u[lo] = top /\ \A i \in (lo + 1)..(MaxDepth + 1) : u[i] = v[i]
      BY <3>2
    <3> HIDE DEF u
    <3>9. ASSUME NEW i \in lo..(MaxDepth + 1), NEW d \in Places
          PROVE  u[i][d] = IF i > MaxDepth THEN <<>> ELSE Listing(u[i + 1], d)
      <4>1. CASE i = lo
        <5>1. u[i][d] = Listing(v[lo + 1], d) /\ u[i + 1] = v[lo + 1]
          BY <3>2, <3>5, <3>8, <4>1
        <5> QED BY <3>2, <4>1, <5>1
      <4>2. CASE i # lo
        <5>1. i \in (lo + 1)..(MaxDepth + 1) /\ u[i] = v[i]
          BY <3>2, <3>8, <4>2
        <5>2. v[i][d] = IF i > MaxDepth THEN <<>> ELSE Listing(v[i + 1], d)
          BY <3>1, <5>1 DEF ListsFrom
        <5>3. CASE i > MaxDepth
          BY <5>1, <5>2, <5>3
        <5>4. CASE ~(i > MaxDepth)
          <6>1. i + 1 \in (lo + 1)..(MaxDepth + 1)
            BY <1>1, <3>2, <5>1, <5>4
          <6>2. u[i + 1] = v[i + 1]
            BY <3>8, <6>1
          <6> QED BY <5>1, <5>2, <5>4, <6>2
        <5> QED BY <5>3, <5>4
      <4> QED BY <4>1, <4>2
    <3>10. ListsFrom(u, lo)
      BY <3>9 DEF ListsFrom
    <3> QED BY <3>7, <3>10
  <2> QED BY <2>1, <2>2
<1> HIDE DEF Has
<1>3. bad = {}
  <2>1. SUFFICES ASSUME bad # {} PROVE FALSE
    OBVIOUS
  <2>2. bad \in SUBSET Nat /\ \A x \in bad : x <= MaxDepth + 1
    BY <1>1 DEF Depths
  <2>3. PICK lo \in bad : \A x \in bad : x <= lo
    <3>1. MaxDepth + 1 \in Nat
      BY <1>1
    <3> HIDE DEF bad
    <3> QED BY <2>1, <2>2, <3>1, Greatest
  <2>4. lo \in Depths
    OBVIOUS
  <2>5. lo # MaxDepth + 1 => lo + 1 \in Depths /\ lo + 1 \notin bad
    <3> HIDE DEF bad
    <3> QED BY <1>1, <2>3, <2>4 DEF Depths
  <2>6. lo # MaxDepth + 1 => Has(lo + 1)
    BY <2>5
  <2>7. Has(lo)
    BY <1>2, <2>4, <2>6
  <2> QED BY <2>7
<1>4. Has(0)
  BY <1>1, <1>3
<1> QED BY <1>4 DEF Has, Depths

\* The scan is the root's list.
LEMMA ScanDirIs ==
    ASSUME Scan!TypeOK
    PROVE  \E u : ListsFrom(u, 0) /\ Scan!ScanDir = u[0][0]
<1>1. PICK v : v \in [Depths -> [Places -> Seq(Scan!Nodes)]] /\ ListsFrom(v, 0)
  BY RowsAre
<1> DEFINE Turn(u, i, d) ==
             IF i > MaxDepth THEN <<>>
             ELSE Scan!FlattenSeq([k \in 1..Scan!Cardinality(Scan!Children(d)) |->
                    LET n == Scan!Nth(Scan!Children(d), k) IN
                    IF Scan!Shown(n) THEN <<n>>
                    ELSE IF Scan!Descended(n) THEN u[i + 1][n] ELSE <<>>])
<1>2. \A i \in Depths : \A d \in Places : v[i][d] = Turn(v, i, d)
  BY <1>1 DEF ListsFrom, Depths, Listing, Entry
<1>3. v = [i \in Depths |-> [d \in Places |-> Turn(v, i, d)]]
  <2> DEFINE w == [i \in Depths |-> [d \in Places |-> Turn(v, i, d)]]
  <2> HIDE DEF Turn
  <2>1. ASSUME NEW i \in Depths PROVE v[i] = w[i]
    <3>1. v[i] = [d \in Places |-> v[i][d]] /\ w[i] = [d \in Places |-> Turn(v, i, d)]
      BY <1>1
    <3> QED BY <1>2, <3>1
  <2>2. v = [i \in Depths |-> v[i]] /\ w = [i \in Depths |-> w[i]]
    BY <1>1
  <2> HIDE DEF w
  <2>3. v = w
    BY <2>1, <2>2
  <2> QED BY <2>3 DEF w
<1>4. \E u : u = [depth \in 0..(MaxDepth + 1) |-> [d \in {Scan!Root} \cup Scan!Nodes |->
                   Turn(u, depth, d)]]
  BY <1>3, Zenon DEF Depths, Places, Scan!Root
<1>5. PICK u : /\ u = [depth \in 0..(MaxDepth + 1) |-> [d \in {Scan!Root} \cup Scan!Nodes |->
                         Turn(u, depth, d)]]
               /\ Scan!ScanDir = u[0][Scan!Root]
  BY <1>4, Zenon DEF Scan!ScanDir
<1> HIDE DEF Turn
<1>6. ASSUME NEW i \in Depths, NEW d \in Places PROVE u[i][d] = Turn(u, i, d)
  <2>1. u = [m \in Depths |-> [n \in Places |-> Turn(u, m, n)]]
    BY <1>5, Zenon DEF Depths, Places, Scan!Root
  <2>2. u[i] = [n \in Places |-> Turn(u, i, n)]
    BY <2>1, Zenon
  <2> QED BY <2>2, Zenon
<1>7. ListsFrom(u, 0)
  <2>1. \A i \in Depths : \A d \in Places :
            Turn(u, i, d) = IF i > MaxDepth THEN <<>> ELSE Listing(u[i + 1], d)
    BY Zenon DEF Turn, Listing, Entry
  <2> QED BY <1>6, <2>1 DEF ListsFrom, Depths
<1> QED BY <1>5, <1>7 DEF Scan!Root

\* The lists of the folders, whatever the recursion starts with, are lists of nodes.
LEMMA RowsTyped ==
    ASSUME Scan!TypeOK, NEW u, ListsFrom(u, 0)
    PROVE  \A i \in Depths : \A d \in Places : u[i][d] \in Seq(Scan!Nodes)
<1> DEFINE bad == {i \in Depths : \E d \in Places : ~(u[i][d] \in Seq(Scan!Nodes))}
<1>1. MaxDepth \in Nat /\ MaxDepth + 1 \in Nat /\ Depths \subseteq Nat
  BY ScanAssumption DEF Depths
<1>2. SUFFICES ASSUME bad # {} PROVE FALSE
  OBVIOUS
<1>3. bad \in SUBSET Nat /\ \A x \in bad : x <= MaxDepth + 1
  BY <1>1 DEF Depths
<1>4. PICK i \in bad : \A x \in bad : x <= i
  <2> HIDE DEF bad
  <2> QED BY <1>1, <1>2, <1>3, Greatest
<1>5. i \in Depths
  OBVIOUS
<1>6. PICK d \in Places : ~(u[i][d] \in Seq(Scan!Nodes))
  BY <1>4
<1>7. u[i][d] = IF i > MaxDepth THEN <<>> ELSE Listing(u[i + 1], d)
  BY <1>5 DEF ListsFrom, Depths
<1>8. ~(i > MaxDepth)
  BY <1>6, <1>7, EmptySeq
<1>9. i + 1 \in Depths /\ i + 1 \notin bad
  <2> HIDE DEF bad
  <2> QED BY <1>1, <1>4, <1>5, <1>8 DEF Depths
<1>10. \A n \in Places : u[i + 1][n] \in Seq(Scan!Nodes)
  BY <1>9
<1> QED BY <1>6, <1>7, <1>8, <1>10, ListingIs

\* A list of a folder misses a set when what it shows and the lists it takes over do.
LEMMA ListingMisses ==
    ASSUME Scan!TypeOK, NEW d, NEW below, \A n \in Places : below[n] \in Seq(Scan!Nodes), NEW P,
           \A n \in Scan!Children(d) : Scan!Shown(n) => n \notin P,
           \A n \in Scan!Children(d) : Scan!Descended(n) => Misses(below[n], P)
    PROVE  Misses(Listing(below, d), P)
<1>1. PICK S : /\ S \in Seq(Seq(Scan!Nodes)) /\ Len(S) = Cardinality(Scan!Children(d))
               /\ \A i \in 1..Len(S) : S[i] = Entry(below, Scan!Nth(Scan!Children(d), i))
               /\ Listing(below, d) = Scan!FlattenSeq(S)
  BY EntriesAre
<1>2. ASSUME NEW n \in Scan!Children(d) PROVE Misses(Entry(below, n), P)
  <2>1. Misses(<<>>, P) /\ (Scan!Shown(n) => Misses(<<n>>, P))
    BY DEF Misses
  <2> QED BY <2>1 DEF Entry
<1>3. \A i \in 1..Len(S) : Misses(S[i], P)
  BY <1>1, <1>2, ChildrenAre
<1> QED BY <1>1, <1>3, HitsFlat

\* A folder's list has only what is below it.
LEMMA ListsBelow ==
    ASSUME Scan!TypeOK, NEW u, ListsFrom(u, 0)
    PROVE  \A i \in Depths : \A d \in Places :
             Misses(u[i][d], {n \in Scan!Nodes : d \notin Scan!Above[n]})
<1> DEFINE Beside(d) == {n \in Scan!Nodes : d \notin Scan!Above[n]}
           bad == {i \in Depths : \E d \in Places : ~Misses(u[i][d], Beside(d))}
<1>1. MaxDepth \in Nat /\ MaxDepth + 1 \in Nat /\ Depths \subseteq Nat
  BY ScanAssumption DEF Depths
<1>2. SUFFICES ASSUME bad # {} PROVE FALSE
  OBVIOUS
<1>3. bad \in SUBSET Nat /\ \A x \in bad : x <= MaxDepth + 1
  BY <1>1 DEF Depths
<1>4. PICK i \in bad : \A x \in bad : x <= i
  <2> HIDE DEF bad
  <2> QED BY <1>1, <1>2, <1>3, Greatest
<1>5. i \in Depths
  OBVIOUS
<1>6. PICK d \in Places : ~Misses(u[i][d], Beside(d))
  BY <1>4
<1>7. u[i][d] = IF i > MaxDepth THEN <<>> ELSE Listing(u[i + 1], d)
  BY <1>5 DEF ListsFrom, Depths
<1>8. ~(i > MaxDepth)
  <2>1. Misses(<<>>, Beside(d))
    BY DEF Misses
  <2> QED BY <1>6, <1>7, <2>1
<1>9. i + 1 \in Depths /\ i + 1 \notin bad
  <2> HIDE DEF bad
  <2> QED BY <1>1, <1>4, <1>5, <1>8 DEF Depths
<1>10. \A n \in Places : Misses(u[i + 1][n], Beside(n)) /\ u[i + 1][n] \in Seq(Scan!Nodes)
  BY <1>9, RowsTyped
<1>11. \A n \in Scan!Children(d) :
           n \in Places /\ n \in Scan!Nodes /\ tree[n].parent = d /\ n # 0
  BY ChildrenAre, TreeIs
<1>12. \A n \in Scan!Children(d) : d \in Scan!Above[n]
  BY <1>11, AboveIs
<1>13. \A n \in Scan!Children(d) : n \notin Beside(d)
  BY <1>12
<1>14. ASSUME NEW n \in Scan!Children(d) PROVE Misses(u[i + 1][n], Beside(d))
  <2>1. ASSUME NEW m \in Scan!Nodes, n \in Scan!Above[m] PROVE d \in Scan!Above[m]
    <3>1. AboveOk(m)
      BY AboveHas DEF Places
    <3> QED BY <1>12, <2>1, <3>1 DEF AboveOk
  <2>2. Beside(d) \subseteq Beside(n)
    BY <2>1
  <2>3. Misses(u[i + 1][n], Beside(n))
    BY <1>10, <1>11
  <2> HIDE DEF Beside
  <2> QED BY <2>2, <2>3 DEF Misses
<1> HIDE DEF Beside
<1>15. Misses(Listing(u[i + 1], d), Beside(d))
  BY <1>10, <1>13, <1>14, ListingMisses
<1> QED BY <1>6, <1>7, <1>8, <1>15

\* The way from the root down to a file, the file with it.
Way(f) == {f} \cup Scan!Above[f]

\* A folder on the way lists the file once, or has it too deep to list.
Good(u, f, d) ==
    LET i == Cardinality(Scan!Above[d]) IN
    i \in Depths => \/ HitsOnce(u[i][d], Way(f))
                    \/ Misses(u[i][d], Way(f)) /\ Cardinality(Scan!Above[f]) > MaxDepth + 1

\* A folder that is not on the way lists nothing that is.
LEMMA OffTheWay ==
    ASSUME Scan!TypeOK, NEW u, ListsFrom(u, 0), NEW f, Open(f),
           NEW i \in Depths, NEW d \in Places, d \notin Scan!Above[f]
    PROVE  Misses(u[i][d], Way(f))
<1>1. AboveOk(f)
  BY HoldsWhatIsBelow, AboveHas DEF Places
<1>2. \A n \in Way(f) : d \notin Scan!Above[n]
  BY <1>1 DEF Way, AboveOk
<1>3. Misses(u[i][d], {n \in Scan!Nodes : d \notin Scan!Above[n]})
  BY ListsBelow
<1>4. \A k \in 1..Len(u[i][d]) : u[i][d][k] \in Scan!Nodes
  <2>1. u[i][d] \in Seq(Scan!Nodes)
    BY RowsTyped
  <2> QED BY <2>1, ElementOfSeq
<1> QED BY <1>2, <1>3, <1>4 DEF Misses

\* One step up: what the next folder on the way lists, its parent lists as often.
LEMMA OneFolderUp ==
    ASSUME Scan!TypeOK, NEW u, ListsFrom(u, 0), NEW f, Open(f), NEW d \in Scan!Above[f],
           NEW i \in Depths, ~(i > MaxDepth),
           NEW c \in Scan!Children(d), c \in Way(f)
    PROVE  /\ HitsOnce(Entry(u[i + 1], c), Way(f)) => HitsOnce(u[i][d], Way(f))
           /\ Misses(Entry(u[i + 1], c), Way(f)) => Misses(u[i][d], Way(f))
<1>1. i + 1 \in Depths
  BY ScanAssumption DEF Depths
<1>2. d \in Places /\ AboveOk(f)
  <2>1. AboveOk(f)
    BY HoldsWhatIsBelow, AboveHas DEF Places
  <2> QED BY <2>1 DEF AboveOk
<1>3. u[i][d] = Listing(u[i + 1], d)
  BY <1>2 DEF ListsFrom, Depths
<1>4. \A n \in Places : u[i + 1][n] \in Seq(Scan!Nodes)
  BY <1>1, RowsTyped
<1>5. PICK S : /\ S \in Seq(Seq(Scan!Nodes)) /\ Len(S) = Cardinality(Scan!Children(d))
               /\ \A k \in 1..Len(S) : S[k] = Entry(u[i + 1], Scan!Nth(Scan!Children(d), k))
               /\ Listing(u[i + 1], d) = Scan!FlattenSeq(S)
  BY <1>4, EntriesAre
<1>6. PICK k \in 1..Len(S) :
         /\ Scan!Nth(Scan!Children(d), k) = c
         /\ \A j \in 1..Len(S) : Scan!Nth(Scan!Children(d), j) = c => j = k
  BY <1>5, ChildrenAre, NthIs
<1>7. ASSUME NEW n \in Scan!Children(d), n # c PROVE Misses(Entry(u[i + 1], n), Way(f))
  <2>1. /\ n \in Places /\ tree[n].parent = d /\ n # 0
        /\ tree[c].parent = d /\ c # 0
    BY ChildrenAre, TreeIs
  <2>2. n \notin Way(f)
    BY <1>2, <1>7, <2>1 DEF AboveOk, Way
  <2>3. Misses(<<n>>, Way(f)) /\ Misses(<<>>, Way(f))
    BY <2>2 DEF Misses
  <2>4. Misses(u[i + 1][n], Way(f))
    BY <1>1, <2>1, <2>2, OffTheWay DEF Way
  <2> QED BY <2>3, <2>4 DEF Entry
<1>8. \A j \in 1..Len(S) : j # k => Misses(S[j], Way(f))
  BY <1>5, <1>6, <1>7, ChildrenAre
<1>9. S[k] = Entry(u[i + 1], c)
  BY <1>5, <1>6
<1>10. HitsOnce(S[k], Way(f)) => HitsOnce(u[i][d], Way(f))
  BY <1>3, <1>5, <1>8, HitsFlat
<1>11. Misses(S[k], Way(f)) => Misses(u[i][d], Way(f))
  <2>1. ASSUME Misses(S[k], Way(f)) PROVE \A j \in 1..Len(S) : Misses(S[j], Way(f))
    BY <1>8, <2>1
  <2> QED BY <1>3, <1>5, <2>1, HitsFlat
<1> QED BY <1>9, <1>10, <1>11

\* Every folder on the way is good, from the last one up to the root.
LEMMA AllGood ==
    ASSUME Scan!TypeOK, NEW u, ListsFrom(u, 0), NEW f, Open(f)
    PROVE  \A d \in Scan!Above[f] : Good(u, f, d)
<1> DEFINE bad == {d \in Scan!Above[f] : ~Good(u, f, d)}
<1>1. /\ f \in Nat /\ f # 0 /\ f \in Places /\ f \in Scan!Nodes /\ AboveOk(f)
      /\ Places \subseteq Nat /\ MaxDepth \in Nat
  BY HoldsWhatIsBelow, TreeIs, AboveHas, ScanAssumption DEF Places
<1>2. SUFFICES ASSUME bad # {} PROVE FALSE
  OBVIOUS
<1>3. bad \in SUBSET Nat /\ \A x \in bad : x <= f
  <2>1. \A x \in Scan!Above[f] : x \in Nat /\ x < f
    BY <1>1 DEF AboveOk
  <2>2. \A x \in Scan!Above[f] : x \in Nat /\ x <= f
    BY <1>1, <2>1
  <2> QED BY <2>2
<1>4. PICK d \in bad : \A x \in bad : x <= d
  <2> HIDE DEF bad
  <2> QED BY <1>1, <1>2, <1>3, Greatest
<1>5. d \in Scan!Above[f] /\ ~Good(u, f, d)
  OBVIOUS
<1> DEFINE i == Cardinality(Scan!Above[d])
<1>6. i \in Depths /\ ~HitsOnce(u[i][d], Way(f))
       /\ ~(Misses(u[i][d], Way(f)) /\ Cardinality(Scan!Above[f]) > MaxDepth + 1)
  BY <1>5 DEF Good
<1>7. d \in Places /\ d \in Nat
  BY <1>1, <1>5 DEF AboveOk
\* A folder on the way has fewer folders above it than the file.
<1>8. \A x \in Scan!Above[f] :
         /\ Cardinality(Scan!Above[x]) + 1 <= Cardinality(Scan!Above[f])
         /\ Cardinality(Scan!Above[x]) \in Nat /\ Cardinality(Scan!Above[f]) \in Nat
  <2>1. ASSUME NEW x \in Scan!Above[f]
        PROVE  /\ Cardinality(Scan!Above[x]) + 1 <= Cardinality(Scan!Above[f])
               /\ Cardinality(Scan!Above[x]) \in Nat /\ Cardinality(Scan!Above[f]) \in Nat
    <3>1. x \in Places /\ x \in Nat
      BY <1>1 DEF AboveOk
    <3>2. Scan!Above[x] \cup {x} \subseteq Scan!Above[f] /\ x \notin Scan!Above[x]
      <4>1. AboveOk(x)
        BY <3>1, AboveHas
      <4>2. x \notin Scan!Above[x]
        BY <3>1, <4>1 DEF AboveOk
      <4> QED BY <1>1, <4>2 DEF AboveOk
    <3>3. IsFiniteSet(Scan!Above[x]) /\ IsFiniteSet(Scan!Above[f])
      BY <1>1, <3>1, AboveCount
    <3>4. Cardinality(Scan!Above[x] \cup {x}) = Cardinality(Scan!Above[x]) + 1
      BY <3>2, <3>3, FS_AddElement
    <3>5. Cardinality(Scan!Above[x] \cup {x}) <= Cardinality(Scan!Above[f])
      BY <3>2, <3>3, FS_Subset
    <3> QED BY <1>1, <3>1, <3>4, <3>5, AboveCount
  <2> QED BY <2>1
<1>9. ~(i > MaxDepth)
  <2>1. ASSUME i > MaxDepth PROVE FALSE
    <3>1. u[i][d] = <<>>
      BY <1>6, <1>7, <2>1 DEF ListsFrom, Depths
    <3>2. Misses(u[i][d], Way(f))
      BY <3>1 DEF Misses
    <3>3. i = MaxDepth + 1
      BY <1>1, <1>6, <2>1 DEF Depths
    <3>4. Cardinality(Scan!Above[f]) > MaxDepth + 1
      BY <1>1, <1>5, <1>8, <3>3
    <3> QED BY <1>6, <3>2, <3>4
  <2> QED BY <2>1
<1>10. PICK c \in Scan!Children(d) :
             /\ c \in {f} \cup Scan!Above[f] /\ c \in Scan!Nodes /\ d < c
             /\ Scan!Shown(c) \/ (c \in Scan!Above[f] /\ ~Scan!Shown(c) /\ Scan!Descended(c))
  BY <1>5, NextDown
<1>11. c \in Way(f)
  BY <1>10 DEF Way
<1> HIDE DEF i
<1>12. /\ ~HitsOnce(Entry(u[i + 1], c), Way(f))
       /\ Misses(Entry(u[i + 1], c), Way(f)) => ~(Cardinality(Scan!Above[f]) > MaxDepth + 1)
  BY <1>5, <1>6, <1>9, <1>11, OneFolderUp
<1>13. CASE Scan!Shown(c)
  <2>1. HitsOnce(<<c>>, Way(f))
    BY <1>11 DEF HitsOnce
  <2> QED BY <1>12, <1>13, <2>1 DEF Entry
<1>14. CASE ~Scan!Shown(c)
  <2>1. c \in Scan!Above[f] /\ Entry(u[i + 1], c) = u[i + 1][c]
    BY <1>10, <1>14 DEF Entry
  <2>2. Cardinality(Scan!Above[c]) = i + 1
    BY <1>10, AboveCount, ChildrenAre DEF i
  <2>3. i + 1 \in Depths
    BY <1>1, <1>6, <1>9 DEF Depths
  <2>4. c \notin bad
    <3>1. c \in Nat
      BY <1>1, <1>10 DEF Places
    <3> HIDE DEF bad
    <3> QED BY <1>4, <1>7, <1>10, <3>1
  <2>5. Good(u, f, c)
    BY <2>1, <2>4
  <2> QED BY <1>12, <2>1, <2>2, <2>3, <2>5 DEF Good
<1> QED BY <1>13, <1>14

LEMMA ListsOnce == Scan!TypeOK => Scan!ListedOnce
<1> SUFFICES ASSUME Scan!TypeOK, NEW f, Open(f)
             PROVE  LET list   == Scan!ScanLibrary
                        titles == {k \in 1..Len(list) : f \in Scan!Held(list[k])}
                    IN  \/ Scan!Cardinality(titles) = 1
                        \/ titles = {} /\ (Scan!Cardinality(Scan!Above[f]) > MaxDepth + 1
                                             \/ Len(list) = MaxTitles)
  BY DEF Scan!ListedOnce, Open, Scan!Root
<1> DEFINE whole == Scan!ScanDir
           list == Scan!ScanLibrary
           titles == {k \in 1..Len(list) : f \in Scan!Held(list[k])}
<1>1. PICK u : ListsFrom(u, 0) /\ whole = u[0][0]
  BY ScanDirIs
<1>2. 0 \in Depths /\ 0 \in Places /\ MaxTitles \in Nat
  BY ScanAssumption DEF Depths, Places
<1>3. whole \in Seq(Scan!Nodes) /\ Len(whole) \in Nat
  BY <1>1, <1>2, RowsTyped, LenProperties
<1>4. \/ HitsOnce(whole, Way(f))
      \/ Misses(whole, Way(f)) /\ Cardinality(Scan!Above[f]) > MaxDepth + 1
  <2>1. 0 \in Scan!Above[f]
    BY DEF Open, Scan!Walk
  <2>2. Good(u, f, 0)
    BY <1>1, <2>1, AllGood
  <2> QED BY <1>1, <1>2, <2>2, AboveCount DEF Good
<1> HIDE DEF whole
<1>5. /\ \A k \in 1..Len(list) : k \in 1..Len(whole) /\ list[k] = whole[k]
      /\ Len(list) = Len(whole) \/ (Len(list) = MaxTitles /\ MaxTitles < Len(whole))
      /\ Len(list) \in Nat
  <2>1. CASE Len(whole) <= MaxTitles
    <3>1. list = whole
      BY <2>1 DEF Scan!ScanLibrary, whole
    <3> QED BY <1>3, <3>1
  <2>2. CASE ~(Len(whole) <= MaxTitles)
    <3>1. list = SubSeq(whole, 1, MaxTitles)
      BY <2>2 DEF Scan!ScanLibrary, whole
    <3>2. \A k \in 1..MaxTitles : whole[k] \in Scan!Nodes
      BY <1>2, <1>3, <2>2, ElementOfSeq
    <3>3. /\ Len(list) = IF 1 <= MaxTitles THEN MaxTitles - 1 + 1 ELSE 0
          /\ \A k \in 1..(MaxTitles - 1 + 1) : list[k] = whole[1 + k - 1]
      BY <1>2, <3>1, <3>2, SubSeqProperties
    <3>4. Len(list) = MaxTitles
      BY <1>2, <3>3
    <3>5. \A k \in 1..MaxTitles : k \in 1..(MaxTitles - 1 + 1) /\ 1 + k - 1 = k
      BY <1>2
    <3>6. \A k \in 1..MaxTitles : list[k] = whole[k]
      BY <3>3, <3>5
    <3>7. \A k \in 1..MaxTitles : k \in 1..Len(whole)
      BY <1>2, <1>3, <2>2
    <3> QED BY <1>2, <1>3, <2>2, <3>4, <3>6, <3>7
  <2> QED BY <2>1, <2>2
<1> HIDE DEF list
<1>6. \A k \in 1..Len(list) : f \in Scan!Held(list[k]) <=> whole[k] \in Way(f)
  <2>1. \A k \in 1..Len(whole) : whole[k] \in Places
    BY <1>3, ElementOfSeq DEF Places
  <2> QED BY <1>5, <2>1, HoldsWhatIsBelow DEF Way
<1>7. CASE Misses(whole, Way(f)) /\ Cardinality(Scan!Above[f]) > MaxDepth + 1
  <2>1. titles = {}
    BY <1>5, <1>6, <1>7 DEF Misses
  <2> QED BY <1>7, <2>1 DEF list, Cardinality, Scan!Cardinality
<1>8. CASE HitsOnce(whole, Way(f))
  <2>1. PICK k \in 1..Len(whole) :
           whole[k] \in Way(f) /\ \A j \in 1..Len(whole) : whole[j] \in Way(f) => j = k
    BY <1>8 DEF HitsOnce
  <2>2. CASE k \in 1..Len(list)
    <3>1. titles = {k}
      BY <1>5, <1>6, <2>1, <2>2
    <3>2. Scan!Cardinality(titles) = 1
      <4>1. Cardinality({k}) = 1
        BY FS_Singleton
      <4> QED BY <3>1, <4>1 DEF Cardinality, Scan!Cardinality
    <3> QED BY <3>2 DEF list
  <2>3. CASE k \notin 1..Len(list)
    <3>1. Len(list) = MaxTitles
      BY <1>5, <2>3
    <3>2. titles = {}
      BY <1>5, <1>6, <2>1, <2>3
    <3> QED BY <3>1, <3>2 DEF list
  <2> QED BY <2>2, <2>3
<1> QED BY <1>4, <1>7, <1>8

-----------------------------------------------------------------------------
(* The operator's Jellyfin library.                                        *)

SeriesOf == [named : Nat, seasons : SUBSET Seasons, single : BOOLEAN, tmdb : BOOLEAN]

\* Every candidate is collected before the episodes are fetched, all of them before the match;
\* what no call has lost is there.
Collecting ==
    stage \in {"episodes", "identity", "match"} \/ (stage = "done" /\ ~matchFailed)
        => DOMAIN candidates = Match!Positions
Fetching ==
    /\ Len(fetched) <= Len(library)
    /\ stage \in {"identity", "match"} \/ (stage = "done" /\ ~matchFailed)
           => Len(fetched) = Len(library)
    /\ stage = "by id" => ~matchFailed
    /\ ~matchFailed => \A i \in DOMAIN fetched : fetched[i] = Match!Held(i)
Matching == stage = "done" /\ ~matchFailed => found = Match!Else(Match!Identified, Match!ByIndex)
MatchInv == Match!TypeOK /\ Collecting /\ Fetching /\ Matching

LEMMA LibraryIs ==
    ASSUME library \in Libraries
    PROVE  /\ library \in Seq(SeriesOf) /\ Len(library) \in Nat
           /\ Match!Positions = 1..Len(library)
           /\ \A i \in Match!Positions : library[i] \in SeriesOf
<1>1. library \in Seq(SeriesOf)
  BY SeriesAssumption DEF SeriesOf
<1>2. Len(library) \in Nat /\ Match!Positions = 1..Len(library)
  BY <1>1, LenProperties DEF Match!Positions
<1> QED BY <1>1, <1>2, ElementOfSeq

LEMMA MatchInit == Match!Init => MatchInv
<1> SUFFICES ASSUME Match!Init PROVE MatchInv
  OBVIOUS
<1>1. /\ fetched = <<>> /\ candidates = <<>> /\ stage = "by id" /\ library \in Libraries
      /\ matchFailed = FALSE /\ identity = {} /\ found = Match!None
  BY DEF Match!Init
<1>2. /\ fetched \in Seq(SUBSET Match!Episodes) /\ Len(fetched) = 0
      /\ DOMAIN fetched = {} /\ DOMAIN candidates = {}
  <2>1. <<>> \in Seq(SUBSET Match!Episodes) /\ Len(<<>>) = 0
    BY EmptySeq
  <2>2. DOMAIN <<>> = 1..Len(<<>>)
    BY <2>1, LenProperties
  <2>3. DOMAIN <<>> = {}
    BY <2>1, <2>2
  <2> QED BY <1>1, <2>1, <2>3
<1>4. Match!TypeOK
  BY <1>1, <1>2 DEF Match!TypeOK, Match!Init
<1>5. Fetching
  <2>1. Len(library) \in Nat
    BY <1>1, LibraryIs
  <2>2. \A i \in DOMAIN fetched : FALSE
    BY <1>2
  <2>3. 0 <= Len(library)
    BY <2>1
  <2> QED BY <1>1, <1>2, <2>2, <2>3 DEF Fetching
<1> QED BY <1>1, <1>4, <1>5 DEF MatchInv, Collecting, Matching

\* Of some numbers and pairs of them, one comes first.
LEMMA FirstItem ==
    ASSUME Match!TypeOK, DOMAIN candidates = Match!Positions,
           NEW S \in SUBSET (Match!Positions \X Match!Episodes), S # {}
    PROVE  Match!First(S) \in S
<1>0. Match!Positions \subseteq Nat /\ Match!Episodes \subseteq Nat \X Nat
  <2>1. Match!Positions \subseteq Nat
    <3>1. Match!Positions = 1..Len(library) /\ Len(library) \in Nat
      BY LibraryIs DEF Match!TypeOK
    <3> QED BY <3>1
  <2> QED BY <2>1, SeriesAssumption DEF Match!Episodes
<1>1. \A x \in S : /\ x[1] \in Match!Positions /\ x[1] \in Nat /\ candidates[x[1]] \in Nat
                   /\ x[2][1] \in Nat /\ x[2][2] \in Nat /\ x = <<x[1], <<x[2][1], x[2][2]>>>>
  <2>1. \A i \in Match!Positions : candidates[i] \in Nat
    <3>1. \A i \in DOMAIN candidates : candidates[i] \in 1..2
      BY DEF Match!TypeOK, Match!Searches
    <3> QED BY <3>1
  <2>2. ASSUME NEW x \in S PROVE x[1] \in Match!Positions /\ x[2] \in Nat \X Nat /\ x = <<x[1], x[2]>>
    BY <1>0
  <2>3. ASSUME NEW y \in Nat \X Nat PROVE y[1] \in Nat /\ y[2] \in Nat /\ y = <<y[1], y[2]>>
    OBVIOUS
  <2>4. ASSUME NEW x \in S PROVE x[2][1] \in Nat /\ x[2][2] \in Nat /\ x = <<x[1], <<x[2][1], x[2][2]>>>>
    BY <2>2, <2>3
  <2> QED BY <1>0, <2>1, <2>2, <2>4
<1> DEFINE searches == {candidates[x[1]] : x \in S}
<1>2. PICK c \in searches : \A z \in searches : c <= z
  <2>1. searches \in SUBSET Nat /\ searches # {}
    BY <1>1
  <2> HIDE DEF searches
  <2> QED BY <2>1, Least
<1> DEFINE first == {x[1] : x \in {y \in S : candidates[y[1]] = c}}
<1>3. PICK i \in first : \A z \in first : i <= z
  <2>1. first \in SUBSET Nat /\ first # {}
    BY <1>1, <1>2
  <2> HIDE DEF first
  <2> QED BY <2>1, Least
<1> DEFINE seasons == {x[2][1] : x \in {y \in S : y[1] = i}}
<1>4. candidates[i] = c /\ i \in Nat
  BY <1>1, <1>3
<1>5. PICK s \in seasons : \A z \in seasons : s <= z
  <2>1. seasons \in SUBSET Nat /\ seasons # {}
    BY <1>1, <1>3
  <2> HIDE DEF seasons
  <2> QED BY <2>1, Least
<1> DEFINE numbers == {x[2][2] : x \in {y \in S : y[1] = i /\ y[2][1] = s}}
<1>6. PICK n \in numbers : \A z \in numbers : n <= z
  <2>1. numbers \in SUBSET Nat /\ numbers # {}
    BY <1>1, <1>5
  <2> HIDE DEF numbers
  <2> QED BY <2>1, Least
<1>7. PICK x \in S : x[1] = i /\ x[2][1] = s /\ x[2][2] = n
  BY <1>6
<1>8. ASSUME NEW y \in S, y # x PROVE Match!Ahead(x, y)
  <2>1. /\ candidates[y[1]] \in searches /\ (candidates[y[1]] = c => y[1] \in first)
        /\ (y[1] = i => y[2][1] \in seasons)
        /\ (y[1] = i /\ y[2][1] = s => y[2][2] \in numbers)
    OBVIOUS
  <2>2. /\ c <= candidates[y[1]] /\ (candidates[y[1]] = c => i <= y[1])
        /\ (y[1] = i => s <= y[2][1])
        /\ (y[1] = i /\ y[2][1] = s => n <= y[2][2])
    BY <1>2, <1>3, <1>5, <1>6, <2>1
  <2>3. ~(y[1] = i /\ y[2][1] = s /\ y[2][2] = n)
    BY <1>1, <1>7, <1>8
  <2> HIDE DEF searches, first, seasons, numbers
  <2>4. /\ candidates[y[1]] \in Nat /\ y[1] \in Nat /\ y[2][1] \in Nat /\ y[2][2] \in Nat
        /\ c \in Nat /\ i \in Nat /\ s \in Nat /\ n \in Nat
    BY <1>1, <1>4, <1>7
  <2>5. \/ c < candidates[y[1]] \/ (c = candidates[y[1]] /\ i < y[1])
        \/ i = y[1] /\ s < y[2][1]
        \/ i = y[1] /\ s = y[2][1] /\ n < y[2][2]
    BY <2>2, <2>3, <2>4
  <2> QED BY <1>4, <1>7, <2>5 DEF Match!Ahead, Match!Collected
<1>9. \E z \in S : \A y \in S \ {z} : Match!Ahead(z, y)
  BY <1>8
<1>10. Match!First(S) = CHOOSE z \in S : \A y \in S \ {z} : Match!Ahead(z, y)
  BY DEF Match!First
<1> QED BY <1>9, <1>10, Zenon

\* The best Series is one of the best.
LEMMA BestIs ==
    ASSUME Match!TypeOK, DOMAIN candidates = Match!Positions, Match!BestForSeason # {}
    PROVE  Match!Best \in Match!BestForSeason
<1> DEFINE B == Match!BestForSeason
           searches == {candidates[i] : i \in B}
<1>1. \A i \in B : i \in Nat /\ candidates[i] \in Nat
  <2>1. Match!Positions = 1..Len(library) /\ Len(library) \in Nat
    BY LibraryIs DEF Match!TypeOK
  <2>2. \A i \in DOMAIN candidates : candidates[i] \in 1..2
    BY DEF Match!TypeOK, Match!Searches
  <2>3. B \subseteq Match!Positions
    BY DEF Match!BestForSeason
  <2> HIDE DEF B
  <2> QED BY <2>1, <2>2, <2>3
<1> HIDE DEF B
<1>2. PICK c \in searches : \A z \in searches : c <= z
  <2>1. searches \in SUBSET Nat /\ searches # {}
    BY <1>1 DEF B
  <2> HIDE DEF searches
  <2> QED BY <2>1, Least
<1> DEFINE first == {i \in B : candidates[i] = c}
<1>3. PICK i \in first : \A z \in first : i <= z
  <2>1. first \in SUBSET Nat /\ first # {}
    BY <1>1, <1>2
  <2> HIDE DEF first
  <2> QED BY <2>1, Least
<1>4. ASSUME NEW j \in B, j # i PROVE Match!Collected(i, j)
  <2>1. c <= candidates[j] /\ candidates[i] = c /\ i \in B
    BY <1>2, <1>3
  <2>2. candidates[j] = c => i <= j
    BY <1>3
  <2> HIDE DEF searches, first
  <2> QED BY <1>1, <1>4, <2>1, <2>2 DEF Match!Collected
<1>5. \E z \in B : \A j \in B \ {z} : Match!Collected(z, j)
  BY <1>3, <1>4
<1>6. Match!Best = CHOOSE z \in B : \A j \in B \ {z} : Match!Collected(z, j)
  BY DEF Match!Best, B
<1>7. Match!Best \in B
  BY <1>5, <1>6, Zenon
<1> QED BY <1>7 DEF B

\* The episodes that were fetched are the ones that the library holds.
LEMMA AllHeld ==
    ASSUME MatchInv, stage \in {"identity", "match"} \/ (stage = "done" /\ ~matchFailed), ~matchFailed
    PROVE  /\ DOMAIN candidates = Match!Positions
           /\ \A x : x \in Match!AllEpisodes <=>
                x \in Match!Positions \X Match!Episodes /\ x[2] \in Match!Held(x[1])
<1>1. DOMAIN candidates = Match!Positions
  BY DEF MatchInv, Collecting
<1>2. Len(fetched) = Len(library) /\ \A i \in DOMAIN fetched : fetched[i] = Match!Held(i)
  BY DEF MatchInv, Fetching
<1>3. DOMAIN fetched = 1..Len(fetched)
  BY LenProperties DEF MatchInv, Match!TypeOK
<1>4. Match!Positions = 1..Len(library)
  BY LibraryIs DEF MatchInv, Match!TypeOK
<1>5. \A i \in Match!Positions : fetched[i] = Match!Held(i)
  BY <1>2, <1>3, <1>4
<1>6. ASSUME NEW x
      PROVE  x \in Match!AllEpisodes <=>
                x \in Match!Positions \X Match!Episodes /\ x[2] \in Match!Held(x[1])
  <2>1. x \in Match!Positions \X Match!Episodes => x[1] \in Match!Positions
    OBVIOUS
  <2> QED BY <1>5, <2>1 DEF Match!AllEpisodes
<1> QED BY <1>1, <1>6

\* A first episode is found where there is one.
LEMMA FirstFound ==
    ASSUME Match!TypeOK, DOMAIN candidates = Match!Positions, NEW S \in SUBSET Match!AllEpisodes
    PROVE  /\ S = {} => Match!First(S) = Match!None
           /\ S # {} => Match!First(S) \in S /\ Match!First(S) # Match!None
<1>1. S \in SUBSET (Match!Positions \X Match!Episodes)
  BY DEF Match!AllEpisodes
<1>2. ASSUME NEW x \in S PROVE x # Match!None
  <2>1. x[1] \in Match!Positions
    BY <1>1
  <2>2. Match!Positions = 1..Len(library) /\ Len(library) \in Nat
    BY LibraryIs DEF Match!TypeOK
  <2>3. x[1] # 0
    BY <2>1, <2>2
  <2>4. Match!None[1] = 0
    BY DEF Match!None
  <2> QED BY <2>3, <2>4
<1>3. S # {} => Match!First(S) \in S
  BY <1>1, FirstItem
<1> QED BY <1>2, <1>3 DEF Match!First

\* What the scores say of the best Series, when the names tell and the season is there.
LEMMA BestHolds ==
    ASSUME Match!TypeOK, Match!NamesTell, DOMAIN candidates = Match!Positions,
           NEW i \in Match!Positions, target[1] \in library[i].seasons,
           target[1] = 1 \/ library[i].single
    PROVE  /\ Match!BestForSeason # {} /\ Match!Best \in Match!Positions
           /\ target[1] \in library[Match!Best].seasons
           /\ library[Match!Best].single => library[Match!Best].seasons = {target[1]}
           /\ library[Match!Best].single \/ target[1] = 1
<1>1. \A j \in Match!Positions :
        /\ library[j].named \in Nat /\ library[j].tmdb \in BOOLEAN /\ library[j].single \in BOOLEAN
  BY LibraryIs DEF Match!TypeOK, SeriesOf
<1>2. target[1] \in Nat /\ target[1] # 0
  BY SeriesAssumption DEF Match!TypeOK, Match!Episodes
<1> DEFINE s == target[1]
           base(j) == IF library[j].named = s THEN 100
                      ELSE IF library[j].named = 0 THEN (IF s = 1 THEN 60 ELSE 10) ELSE 0
           bonus(j) == IF library[j].tmdb THEN 2 ELSE 0
<1>3. ASSUME NEW j \in Match!Positions PROVE Match!Score(j) = base(j) + bonus(j)
  <2> DEFINE cases == CASE library[j].named = target[1] -> 100
                        [] library[j].named = 0 /\ target[1] = 1 -> 60
                        [] library[j].named = 0 /\ target[1] # 1 -> 10
                        [] OTHER -> 0
  <2>1. cases = base(j)
    <3>1. CASE library[j].named = s
      BY <1>2, <3>1
    <3>2. CASE library[j].named # s /\ library[j].named = 0 /\ s = 1
      BY <3>2
    <3>3. CASE library[j].named # s /\ library[j].named = 0 /\ s # 1
      BY <3>3
    <3>4. CASE library[j].named # s /\ library[j].named # 0
      BY <3>4
    <3> QED BY <3>1, <3>2, <3>3, <3>4
  <2>2. Match!Score(j) = cases + bonus(j)
    BY DEF Match!Score
  <2> HIDE DEF cases, base, bonus
  <2> QED BY <2>1, <2>2
<1>4. \A j \in Match!Positions : base(j) \in {0, 10, 60, 100} /\ bonus(j) \in {0, 2}
  OBVIOUS
<1>5. base(i) >= 60 /\ (s # 1 => base(i) = 100)
  <2>1. CASE library[i].single
    <3>1. s = IF library[i].named = 0 THEN 1 ELSE library[i].named
      BY <2>1 DEF Match!NamesTell
    <3>2. CASE library[i].named = 0
      BY <1>2, <3>1, <3>2
    <3>3. CASE library[i].named # 0
      BY <3>1, <3>3
    <3> QED BY <3>2, <3>3
  <2>2. CASE ~library[i].single
    <3>1. library[i].named = 0 /\ s = 1
      BY <2>2 DEF Match!NamesTell
    <3> QED BY <3>1
  <2> QED BY <2>1, <2>2
<1> DEFINE scores == {Match!Score(j) : j \in Match!Positions}
<1> HIDE DEF base, bonus, s
<1>6. \A j \in Match!Positions : Match!Score(j) \in Nat /\ Match!Score(j) <= 102
  BY <1>3, <1>4
<1>7. PICK top \in scores : \A x \in scores : x <= top
  <2>1. scores \in SUBSET Nat /\ scores # {} /\ \A x \in scores : x <= 102
    BY <1>6
  <2> HIDE DEF scores
  <2> QED BY <2>1, Greatest
<1>8. Match!Score(i) >= 60
  BY <1>3, <1>4, <1>5
<1>9. PICK j \in Match!Positions : Match!Score(j) = top
  BY <1>7
<1>10. j \in Match!BestForSeason
  <2>1. \A k \in Match!Positions : Match!Score(k) <= Match!Score(j)
    BY <1>7, <1>9
  <2>2. Match!Score(j) > 0
    BY <1>6, <1>8, <2>1
  <2> QED BY <2>1, <2>2 DEF Match!BestForSeason
<1> DEFINE b == Match!Best
<1>11. b \in Match!Positions /\ Match!Score(b) >= Match!Score(i)
  BY <1>10, BestIs DEF Match!BestForSeason
<1> HIDE DEF b
<1>12. base(b) >= 60 /\ (s # 1 => base(b) = 100)
  <2>1. base(b) \in {0, 10, 60, 100} /\ base(i) \in {0, 10, 60, 100} /\ bonus(b) \in {0, 2} /\ bonus(i) \in {0, 2}
    BY <1>4, <1>11
  <2>2. base(b) + bonus(b) >= base(i) + bonus(i)
    BY <1>3, <1>11
  <2> QED BY <1>5, <2>1, <2>2
<1>13. library[b].named = s \/ (library[b].named = 0 /\ s = 1)
  <2>1. CASE library[b].named = s
    BY <2>1
  <2>2. CASE library[b].named # s /\ library[b].named = 0
    <3>1. base(b) = IF s = 1 THEN 60 ELSE 10
      BY <2>2 DEF base
    <3> QED BY <1>12, <2>2, <3>1
  <2>3. CASE library[b].named # s /\ library[b].named # 0
    <3>1. base(b) = 0
      BY <2>3 DEF base
    <3> QED BY <1>12, <3>1
  <2> QED BY <2>1, <2>2, <2>3
<1>14. CASE library[b].single
  <2>1. library[b].seasons = {IF library[b].named = 0 THEN 1 ELSE library[b].named}
    BY <1>11, <1>14 DEF Match!NamesTell
  <2>2. (IF library[b].named = 0 THEN 1 ELSE library[b].named) = s
    BY <1>2, <1>13 DEF s
  <2>3. library[b].seasons = {s}
    BY <2>1, <2>2
  <2> QED BY <1>10, <1>11, <1>14, <2>3 DEF b, s
<1>15. CASE ~library[b].single
  <2>1. library[b].named = 0 /\ 1 \in library[b].seasons
    BY <1>11, <1>15 DEF Match!NamesTell
  <2>2. s = 1
    BY <1>2, <1>13, <2>1 DEF s
  <2> QED BY <1>10, <1>11, <1>15, <2>1, <2>2 DEF b, s
<1> QED BY <1>14, <1>15

LEMMA MatchHolds == MatchInv => Match!HeldIsPlayed
<1> SUFFICES ASSUME MatchInv, stage = "done", ~matchFailed, target # lacks,
                    identity \cap carries # {} \/ Match!NamesTell,
                    NEW i \in Match!Positions, target[1] \in library[i].seasons
             PROVE  found[2] = target
  BY DEF Match!HeldIsPlayed
<1>1. /\ DOMAIN candidates = Match!Positions /\ Match!TypeOK
      /\ \A x : x \in Match!AllEpisodes <=>
                x \in Match!Positions \X Match!Episodes /\ x[2] \in Match!Held(x[1])
  BY AllHeld DEF MatchInv
<1>2. found = Match!Else(Match!Identified, Match!ByIndex)
  BY DEF MatchInv, Matching
<1>3. target \in Match!Episodes /\ target = <<target[1], target[2]>>
  <2>1. target \in Seasons \X Numbers
    BY <1>1 DEF Match!TypeOK, Match!Episodes
  <2> QED BY <2>1 DEF Match!Episodes
<1>4. ASSUME NEW j \in Match!Positions, target[1] \in library[j].seasons
      PROVE  <<j, target>> \in Match!AllEpisodes
  BY <1>1, <1>3, <1>4 DEF Match!Held
<1>5. ASSUME NEW x \in Match!AllEpisodes
      PROVE  /\ x[1] \in Match!Positions /\ x[2][1] \in library[x[1]].seasons
             /\ x[2][1] = target[1] /\ x[2][2] = target[2] => x[2] = target
  <2>1. x \in Match!Positions \X Match!Episodes /\ x[2] \in Match!Held(x[1])
    BY <1>1
  <2>2. x[1] \in Match!Positions /\ x[2] \in Seasons \X Numbers /\ x[2][1] \in library[x[1]].seasons
    BY <2>1 DEF Match!Held, Match!Episodes
  <2>3. x[2] = <<x[2][1], x[2][2]>>
    BY <2>2
  <2> QED BY <1>3, <2>2, <2>3
<1> DEFINE s == target[1]
<1>6. CASE identity \cap carries # {}
  <2> DEFINE S == {x \in Match!AllEpisodes : x[2] = target}
  <2>1. <<i, target>> \in S
    BY <1>4
  <2> HIDE DEF S
  <2>2. Match!First(S) \in S /\ Match!First(S) # Match!None
    <3>1. S \in SUBSET Match!AllEpisodes
      BY DEF S
    <3> QED BY <1>1, <2>1, <3>1, FirstFound
  <2>3. Match!Identified = Match!First(S)
    BY <1>6 DEF Match!Identified, S
  <2>4. found = Match!First(S)
    BY <1>2, <2>2, <2>3 DEF Match!Else
  <2> QED BY <2>2, <2>4 DEF S
<1>7. CASE identity \cap carries = {}
  <2>1. found = Match!ByIndex /\ Match!NamesTell
    BY <1>2, <1>7 DEF Match!Identified, Match!Else
  <2> DEFINE T == Match!Numbered({s})
  <2>2. T \in SUBSET Match!AllEpisodes
    BY DEF Match!Numbered
  <2>3. CASE s # 1 /\ T # {}
    <3>1. Match!First(T) \in T /\ Match!First(T) # Match!None
      BY <1>1, <2>2, <2>3, FirstFound
    <3> DEFINE x == Match!First(T)
    <3>2. x \in Match!AllEpisodes /\ x[2][2] = target[2] /\ Match!ParentIndex(x) = s
      BY <3>1 DEF Match!Numbered, Match!Index
    <3>3. x[2][1] = s
      BY <2>3, <3>2 DEF Match!ParentIndex
    <3>4. found = x
      BY <2>1, <2>3, <3>1 DEF Match!ByIndex, Match!InMultiSeason, Match!Else
    <3> QED BY <1>5, <3>2, <3>3, <3>4
  <2>4. CASE ~(s # 1 /\ T # {})
    <3>1. s = 1 \/ library[i].single
      <4>1. ASSUME s # 1, ~library[i].single PROVE <<i, target>> \in T
        BY <1>4, <4>1 DEF Match!Numbered, Match!Index, Match!ParentIndex
      <4> QED BY <2>4, <4>1
    <3>2. Match!InMultiSeason = Match!None
      <4>1. CASE s = 1
        BY <4>1 DEF Match!InMultiSeason
      <4>2. CASE s # 1
        <5>1. T = {}
          BY <2>4, <4>2
        <5>2. Match!First(T) = Match!None
          BY <1>1, <2>2, <5>1, FirstFound
        <5> QED BY <4>2, <5>2 DEF Match!InMultiSeason
      <4> QED BY <4>1, <4>2
    <3> DEFINE b == Match!Best
               S == {x \in Match!Numbered({s, 1}) : x[1] = b}
    <3>3. /\ Match!BestForSeason # {} /\ b \in Match!Positions /\ s \in library[b].seasons
          /\ library[b].single => library[b].seasons = {s}
          /\ library[b].single \/ s = 1
      BY <1>1, <2>1, <3>1, BestHolds
    <3> HIDE DEF b
    <3>4. <<b, target>> \in S
      BY <1>4, <3>3 DEF Match!Numbered, Match!Index, Match!ParentIndex
    <3>5. S \in SUBSET Match!AllEpisodes
      BY DEF Match!Numbered
    <3>6. ASSUME NEW x \in S PROVE x[2] = target
      <4>1. /\ x \in Match!AllEpisodes /\ x[1] = b /\ x[2][2] = target[2]
            /\ Match!ParentIndex(x) \in {s, 1}
        BY DEF Match!Numbered, Match!Index
      <4>2. x[2][1] = s
        <5>1. CASE library[b].single
          BY <1>5, <3>3, <4>1, <5>1
        <5>2. CASE ~library[b].single
          BY <3>3, <4>1, <5>2 DEF Match!ParentIndex
        <5> QED BY <5>1, <5>2
      <4> QED BY <1>5, <4>1, <4>2
    <3> HIDE DEF S
    <3>7. Match!First(S) \in S /\ Match!First(S) # Match!None
      BY <1>1, <3>4, <3>5, FirstFound
    <3>8. Match!InBest = Match!First(S)
      BY <3>3, <3>7 DEF Match!InBest, Match!Else, S, b
    <3>9. Match!ByIndex = Match!First(S)
      BY <3>2, <3>7, <3>8 DEF Match!ByIndex, Match!Else
    <3> QED BY <2>1, <3>6, <3>7, <3>9
  <2> QED BY <2>3, <2>4
<1> QED BY <1>6, <1>7

LEMMA Prefixes == \A m, n \in Nat : m <= n => 1..m \subseteq 1..n
  OBVIOUS

\* What a search leaves alone, besides the request.
LEMMA MatchGoes ==
    ASSUME MatchInv, UNCHANGED <<library, lacks, carries, target>>,
           \A i \in DOMAIN candidates' : i \in Match!Positions /\ candidates'[i] \in Match!Searches,
           fetched' \in Seq(SUBSET Match!Episodes), Len(fetched') <= Len(library),
           identity' \subseteq {"id", "name", "date"}, matchFailed' \in BOOLEAN,
           stage' \in {"by title", "episodes", "identity", "match", "done"},
           found' = Match!None \/ (found'[1] \in Match!Positions /\ found'[2] \in Match!Episodes)
    PROVE  Match!TypeOK' /\ Match!Positions' = Match!Positions /\ \A i : Match!Held(i)' = Match!Held(i)
<1>1. Match!Positions = 1..Len(library) /\ Len(library) \in Nat
  BY LibraryIs DEF MatchInv, Match!TypeOK
<1>2. DOMAIN fetched' = 1..Len(fetched') /\ Len(fetched') \in Nat
  BY LenProperties
<1>3. DOMAIN fetched' \subseteq Match!Positions
  <2>1. Len(fetched') <= Len(library)
    OBVIOUS
  <2>2. 1..Len(fetched') \subseteq 1..Len(library)
    BY <1>1, <1>2, <2>1, Prefixes
  <2> QED BY <1>1, <1>2, <2>2
<1>4. Match!Positions' = Match!Positions /\ \A i : Match!Held(i)' = Match!Held(i)
  BY DEF Match!Positions, Match!Held
<1>5. Match!TypeOK'
  BY <1>3, <1>4 DEF MatchInv, Match!TypeOK
<1> QED BY <1>4, <1>5

\* The match gives an episode of a Series, or none.
LEMMA FoundIs ==
    ASSUME Match!TypeOK, DOMAIN candidates = Match!Positions
    PROVE  LET x == Match!Else(Match!Identified, Match!ByIndex)
           IN  x = Match!None \/ (x[1] \in Match!Positions /\ x[2] \in Match!Episodes)
<1> DEFINE Fits(x) == x = Match!None \/ (x[1] \in Match!Positions /\ x[2] \in Match!Episodes)
<1>1. ASSUME NEW S \in SUBSET Match!AllEpisodes PROVE Fits(Match!First(S))
  <2>1. Match!First(S) = Match!None \/ Match!First(S) \in S
    BY FirstFound
  <2> QED BY <2>1 DEF Match!AllEpisodes
<1>2. \A x, y : Fits(x) /\ Fits(y) => Fits(Match!Else(x, y))
  BY DEF Match!Else
<1>3. Fits(Match!None)
  OBVIOUS
<1> HIDE DEF Fits
<1>4. Fits(Match!Identified)
  <2>1. {x \in Match!AllEpisodes : x[2] = target} \in SUBSET Match!AllEpisodes
    OBVIOUS
  <2> QED BY <1>1, <1>3, <2>1 DEF Match!Identified
<1>5. \A seasons : Match!Numbered(seasons) \in SUBSET Match!AllEpisodes
  BY DEF Match!Numbered
<1>6. Fits(Match!InMultiSeason)
  BY <1>1, <1>3, <1>5 DEF Match!InMultiSeason
<1>7. Fits(Match!InBest)
  <2> DEFINE inFolder == {x \in Match!Numbered({target[1], 1}) : x[1] = Match!Best}
             inAny == {x \in Match!AllEpisodes : x[1] = Match!Best /\ Match!Index(x) = target[2]}
  <2>1. inFolder \in SUBSET Match!AllEpisodes /\ inAny \in SUBSET Match!AllEpisodes
    BY <1>5
  <2>2. Match!InBest = IF Match!BestForSeason = {} THEN Match!None
                       ELSE Match!Else(Match!First(inFolder), Match!First(inAny))
    BY DEF Match!InBest
  <2> HIDE DEF inFolder, inAny
  <2>3. Fits(Match!First(inFolder)) /\ Fits(Match!First(inAny))
    BY <1>1, <2>1
  <2>4. Fits(Match!Else(Match!First(inFolder), Match!First(inAny)))
    BY <1>2, <2>3, Zenon
  <2>5. CASE Match!BestForSeason = {}
    BY <1>3, <2>2, <2>5
  <2>6. CASE Match!BestForSeason # {}
    BY <2>2, <2>4, <2>6
  <2> QED BY <2>5, <2>6
<1>8. Fits(Match!First(Match!Numbered({target[1]})))
  BY <1>1, <1>5
<1>9. Fits(Match!ByIndex)
  BY <1>2, <1>6, <1>7, <1>8, Zenon DEF Match!ByIndex
<1>10. Fits(Match!Else(Match!Identified, Match!ByIndex))
  BY <1>2, <1>4, <1>9, Zenon
<1> QED BY <1>10 DEF Fits

\* What the match gives depends on nothing else.
LEMMA MatchSame ==
    ASSUME UNCHANGED <<library, carries, target, candidates, fetched, identity>>
    PROVE  Match!Else(Match!Identified, Match!ByIndex)' = Match!Else(Match!Identified, Match!ByIndex)
<1>1. \A S : Match!First(S)' = Match!First(S)
  <2>1. candidates' = candidates
    OBVIOUS
  <2> QED BY <2>1 DEF Match!First, Match!Ahead, Match!Collected, Match!None, Match!NoEpisode
<1>2. Match!AllEpisodes' = Match!AllEpisodes /\ Match!Positions' = Match!Positions
  BY DEF Match!AllEpisodes, Match!Positions, Match!Episodes
<1>3. \A seasons : Match!Numbered(seasons)' = Match!Numbered(seasons)
  BY <1>2 DEF Match!Numbered, Match!Index, Match!ParentIndex
<1>4. Match!BestForSeason' = Match!BestForSeason
  <2>1. \A i : Match!Score(i)' = Match!Score(i)
    BY DEF Match!Score
  <2> QED BY <1>2, <2>1 DEF Match!BestForSeason
<1>5. Match!Best' = Match!Best
  BY <1>4 DEF Match!Best, Match!Collected
<1>6. Match!Identified' = Match!Identified
  BY <1>1, <1>2 DEF Match!Identified, Match!None, Match!NoEpisode
<1>7. Match!InMultiSeason' = Match!InMultiSeason
  BY <1>1, <1>3 DEF Match!InMultiSeason, Match!None, Match!NoEpisode
<1>8. Match!InBest' = Match!InBest
  BY <1>1, <1>2, <1>3, <1>4, <1>5 DEF Match!InBest, Match!Index, Match!Else, Match!None, Match!NoEpisode
<1>9. Match!ByIndex' = Match!ByIndex
  BY <1>1, <1>3, <1>7, <1>8 DEF Match!ByIndex, Match!Else, Match!None, Match!NoEpisode
<1> QED BY <1>6, <1>9 DEF Match!Else, Match!None, Match!NoEpisode

LEMMA MatchStep == ASSUME MatchInv, [Match!Next]_matchVars PROVE MatchInv'
<1>1. /\ fetched \in Seq(SUBSET Match!Episodes) /\ Len(fetched) \in Nat /\ Len(fetched) <= Len(library)
      /\ identity \subseteq {"id", "name", "date"}
      /\ matchFailed \in BOOLEAN
      /\ \A i \in DOMAIN candidates : i \in Match!Positions /\ candidates[i] \in Match!Searches
      /\ found = Match!None \/ (found[1] \in Match!Positions /\ found[2] \in Match!Episodes)
  <2>1. fetched \in Seq(SUBSET Match!Episodes)
    BY DEF MatchInv, Match!TypeOK
  <2> QED BY <2>1, LenProperties DEF MatchInv, Match!TypeOK, Fetching
<1>2. CASE UNCHANGED matchVars
  <2>1. UNCHANGED <<library, lacks, carries, target, candidates, fetched, identity, stage, found,
                    matchFailed>>
    BY <1>2 DEF matchVars
  <2>2. Match!Else(Match!Identified, Match!ByIndex)' = Match!Else(Match!Identified, Match!ByIndex)
    BY <2>1, MatchSame
  <2>3. Match!TypeOK' /\ Collecting' /\ Fetching'
    BY <2>1 DEF MatchInv, Match!TypeOK, Collecting, Fetching, Match!Positions, Match!Held
  <2>4. Matching'
    BY <2>1, <2>2 DEF MatchInv, Matching
  <2> QED BY <2>3, <2>4 DEF MatchInv
<1>3. CASE Match!SearchById
  <2>1. /\ stage = "by id" /\ stage' = "by title" /\ matchFailed' \in BOOLEAN
        /\ UNCHANGED <<library, lacks, carries, target, fetched, identity, found>>
    BY <1>3 DEF Match!SearchById, Match!request
  <2>5. \A i \in DOMAIN candidates' : i \in Match!Positions /\ candidates'[i] \in Match!Searches
    <3>1. PICK answered \in BOOLEAN :
             candidates' = [i \in {j \in Match!Positions : answered /\ library[j].tmdb} |-> 1]
      BY <1>3 DEF Match!SearchById
    <3> DEFINE tagged == {j \in Match!Positions : answered /\ library[j].tmdb}
    <3>2. tagged \subseteq Match!Positions
      OBVIOUS
    <3> HIDE DEF tagged
    <3>3. candidates' = [i \in tagged |-> 1]
      BY <3>1 DEF tagged
    <3>4. DOMAIN candidates' = tagged /\ \A i \in tagged : candidates'[i] = 1
      BY <3>3
    <3> QED BY <3>2, <3>4 DEF Match!Searches
  <2>2. Match!TypeOK' /\ Match!Positions' = Match!Positions /\ \A i : Match!Held(i)' = Match!Held(i)
    BY <1>1, <2>1, <2>5, MatchGoes
  <2>3. Collecting' /\ Matching'
    BY <2>1 DEF Collecting, Matching
  <2>4. Fetching'
    BY <2>1, <2>2 DEF MatchInv, Fetching
  <2> QED BY <2>2, <2>3, <2>4 DEF MatchInv
<1>4. CASE Match!SearchByTitle
  <2>1. /\ stage = "by title" /\ stage' = "episodes"
        /\ UNCHANGED <<library, lacks, carries, target, fetched, identity, found, matchFailed>>
        /\ candidates' = [i \in Match!Positions |-> IF i \in DOMAIN candidates THEN candidates[i] ELSE 2]
    BY <1>4 DEF Match!SearchByTitle, Match!request
  <2>5. DOMAIN candidates' = Match!Positions
    BY <2>1
  <2>6. \A i \in DOMAIN candidates' : i \in Match!Positions /\ candidates'[i] \in Match!Searches
    <3>1. \A i \in Match!Positions : candidates'[i] = IF i \in DOMAIN candidates THEN candidates[i] ELSE 2
      BY <2>1
    <3>2. 2 \in Match!Searches
      BY DEF Match!Searches
    <3> QED BY <1>1, <2>5, <3>1, <3>2
  <2>2. Match!TypeOK' /\ Match!Positions' = Match!Positions /\ \A i : Match!Held(i)' = Match!Held(i)
    BY <1>1, <2>1, <2>6, MatchGoes
  <2>3. Collecting' /\ Matching'
    BY <2>1, <2>2, <2>5 DEF Collecting, Matching
  <2>4. Fetching'
    BY <2>1, <2>2 DEF MatchInv, Fetching
  <2> QED BY <2>2, <2>3, <2>4 DEF MatchInv
<1>5. CASE Match!SearchFails
  <2>1. /\ stage' = "done" /\ matchFailed' = TRUE
        /\ UNCHANGED <<library, lacks, carries, target, candidates, fetched, identity, found>>
    BY <1>5 DEF Match!SearchFails, Match!request
  <2>2. Match!TypeOK' /\ Match!Positions' = Match!Positions /\ \A i : Match!Held(i)' = Match!Held(i)
    BY <1>1, <2>1, MatchGoes
  <2>3. Collecting' /\ Matching'
    BY <2>1 DEF Collecting, Matching
  <2>4. Fetching'
    BY <2>1, <2>2 DEF MatchInv, Fetching
  <2> QED BY <2>2, <2>3, <2>4 DEF MatchInv
<1>6. CASE Match!FetchEpisodes
  <2> DEFINE n == Len(fetched) + 1
  <2>1. PICK answered \in BOOLEAN :
           /\ fetched' = Append(fetched, IF answered THEN Match!Held(n) ELSE {})
           /\ matchFailed' = (matchFailed \/ ~answered)
    BY <1>6 DEF Match!FetchEpisodes
  <2> DEFINE got == IF answered THEN Match!Held(n) ELSE {}
  <2>2. /\ stage = "episodes" /\ Len(fetched) < Len(library)
        /\ stage' = IF Len(fetched') = Len(library) THEN "identity" ELSE "episodes"
        /\ UNCHANGED <<library, lacks, carries, target, candidates, identity, found>>
    BY <1>6 DEF Match!FetchEpisodes, Match!request
  <2>3. got \in SUBSET Match!Episodes
    BY DEF Match!Held
  <2>4. fetched' = Append(fetched, got) /\ (answered => got = Match!Held(n))
    BY <2>1
  <2> HIDE DEF got
  <2>5. /\ fetched' \in Seq(SUBSET Match!Episodes) /\ Len(fetched') = n
        /\ DOMAIN fetched' = 1..n /\ DOMAIN fetched = 1..Len(fetched)
        /\ \A i \in 1..Len(fetched) : fetched'[i] = fetched[i]
        /\ fetched'[n] = got
    BY <1>1, <2>3, <2>4, AppendProperties, LenProperties
  <2>6. Len(library) \in Nat
    BY LibraryIs DEF MatchInv, Match!TypeOK
  <2>7. Len(fetched') <= Len(library) /\ n \in Nat
    BY <1>1, <2>2, <2>5, <2>6
  <2>8. matchFailed' \in BOOLEAN
    BY <1>1, <2>1
  <2>9. Match!TypeOK' /\ Match!Positions' = Match!Positions /\ \A i : Match!Held(i)' = Match!Held(i)
    BY <1>1, <2>2, <2>5, <2>7, <2>8, MatchGoes
  <2>10. Collecting' /\ Matching'
    BY <2>2, <2>9 DEF MatchInv, Collecting, Matching
  <2>11. ASSUME ~matchFailed', NEW i \in DOMAIN fetched' PROVE fetched'[i] = Match!Held(i)
    <3>1. answered /\ ~matchFailed
      BY <2>1, <2>11
    <3>2. CASE i = n
      BY <2>4, <2>5, <3>1, <3>2
    <3>3. CASE i # n
      <4>1. i \in 1..Len(fetched)
        BY <1>1, <2>5, <2>11, <3>3
      <4>2. fetched[i] = Match!Held(i)
        BY <2>5, <3>1, <4>1 DEF MatchInv, Fetching
      <4> QED BY <2>5, <4>1, <4>2
    <3> QED BY <3>2, <3>3
  <2> HIDE DEF n
  <2>12. Fetching'
    BY <2>2, <2>7, <2>9, <2>11 DEF Fetching
  <2> QED BY <2>9, <2>10, <2>12 DEF MatchInv
<1>7. CASE Match!Identify
  <2>1. /\ stage = "identity" /\ stage' = "match" /\ identity' \subseteq {"id", "name", "date"}
        /\ UNCHANGED <<library, lacks, carries, target, candidates, fetched, found, matchFailed>>
    BY <1>7 DEF Match!Identify, Match!request
  <2>2. Match!TypeOK' /\ Match!Positions' = Match!Positions /\ \A i : Match!Held(i)' = Match!Held(i)
    BY <1>1, <2>1, MatchGoes
  <2>3. Collecting' /\ Matching'
    BY <2>1, <2>2 DEF MatchInv, Collecting, Matching
  <2>4. Fetching'
    BY <2>1, <2>2 DEF MatchInv, Fetching
  <2> QED BY <2>2, <2>3, <2>4 DEF MatchInv
<1>8. CASE Match!Match
  <2>1. /\ stage = "match" /\ stage' = "done" /\ found' = Match!Else(Match!Identified, Match!ByIndex)
        /\ UNCHANGED <<library, lacks, carries, target, candidates, fetched, identity, matchFailed>>
    BY <1>8 DEF Match!Match, Match!request
  <2>2. found' = Match!None \/ (found'[1] \in Match!Positions /\ found'[2] \in Match!Episodes)
    BY <1>1, <2>1, FoundIs DEF MatchInv, Collecting
  <2>3. Match!TypeOK' /\ Match!Positions' = Match!Positions /\ \A i : Match!Held(i)' = Match!Held(i)
    BY <1>1, <2>1, <2>2, MatchGoes
  <2>4. Collecting'
    BY <2>1, <2>3 DEF MatchInv, Collecting
  <2>5. Fetching'
    BY <2>1, <2>3 DEF MatchInv, Fetching
  <2>6. Match!Else(Match!Identified, Match!ByIndex)' = Match!Else(Match!Identified, Match!ByIndex)
    BY <2>1, MatchSame
  <2>7. Matching'
    BY <2>1, <2>6 DEF Matching
  <2> QED BY <2>3, <2>4, <2>5, <2>7 DEF MatchInv
<1> QED BY <1>2, <1>3, <1>4, <1>5, <1>6, <1>7, <1>8 DEF Match!Next

-----------------------------------------------------------------------------
(* The operator's own files.                                               *)

File == [dir : Dirs, kind : FileKinds]

LEMMA OwnInit == Own!Init => Own!TypeOK
<1> SUFFICES ASSUME Own!Init PROVE Own!TypeOK
  OBVIOUS
<1>1. files \in Seq(File) /\ Len(files) = 0
  BY EmptySeq DEF Own!Init
<1> QED BY <1>1, FoldersAssumption DEF Own!Init, Own!TypeOK, File

LEMMA OwnStep == ASSUME Own!TypeOK, [Own!Next]_ownVars PROVE Own!TypeOK'
<1>1. CASE UNCHANGED ownVars
  BY <1>1 DEF ownVars, Own!TypeOK
<1>2. ASSUME NEW dir \in Dirs, NEW sort \in FileKinds, Own!Copy(dir, sort) PROVE Own!TypeOK'
  <2> DEFINE x == [dir |-> dir, kind |-> sort]
  <2>1. /\ files \in Seq(File) /\ x \in File /\ Len(files) < MaxFiles /\ files' = Append(files, x)
        /\ UNCHANGED <<score, mkv, down>>
    BY <1>2 DEF Own!Copy, Own!TypeOK, File
  <2> HIDE DEF x
  <2>2. files' \in Seq(File) /\ Len(files') = Len(files) + 1 /\ Len(files) \in Nat
    BY <2>1, AppendProperties, LenProperties
  <2>3. Len(files') <= MaxFiles
    BY <2>1, <2>2, FoldersAssumption
  <2> QED BY <2>1, <2>2, <2>3 DEF Own!TypeOK, File
<1> QED BY <1>1, <1>2, Zenon DEF Own!Next

LEMMA FilesAre ==
    ASSUME Own!TypeOK, NEW k \in DOMAIN files
    PROVE  k \in Nat /\ files[k].dir \in Dirs /\ files[k].dir \in Nat /\ score[files[k].dir] \in Nat
<1>1. files \in Seq(File) /\ score \in [Dirs -> Scores]
  BY DEF Own!TypeOK, File
<1>2. k \in 1..Len(files) /\ Len(files) \in Nat
  BY <1>1, LenProperties
<1>3. files[k] \in File
  BY <1>1, <1>2, ElementOfSeq
<1>4. files[k].dir \in Dirs
  BY <1>3 DEF File
<1>5. score[files[k].dir] \in Scores
  BY <1>1, <1>4
<1>6. Scores \subseteq Nat /\ Dirs \subseteq Nat
  BY FoldersAssumption
<1>7. files[k].dir \in Nat
  BY <1>4, <1>6, Zenon
<1>8. score[files[k].dir] \in Nat
  BY <1>5, <1>6, Zenon
<1>9. k \in Nat
  BY <1>2
<1> QED BY <1>4, <1>7, <1>8, <1>9

\* Of some files, one comes first.
LEMMA FirstFile ==
    ASSUME Own!TypeOK, NEW S \in SUBSET DOMAIN files, S # {}
    PROVE  \E k \in S : k \in Own!First(S)
<1> DEFINE dir(k) == files[k].dir
           rank(k) == score[dir(k)]
           ranks == {rank(k) : k \in S}
<1>1. \A k \in S : k \in Nat /\ dir(k) \in Nat /\ rank(k) \in Nat
  BY FilesAre
<1>2. PICK top \in Nat : \A k \in S : rank(k) <= top
  <2>1. PICK top \in Nat : \A s \in Scores : s <= top
    BY FoldersAssumption
  <2>2. \A k \in S : dir(k) \in Dirs
    BY FilesAre
  <2>3. \A d \in Dirs : score[d] \in Scores
    BY DEF Own!TypeOK
  <2>4. \A k \in S : rank(k) <= top
    BY <2>1, <2>2, <2>3
  <2> QED BY <2>4
<1> HIDE DEF dir, rank
<1>3. PICK r \in ranks : \A x \in ranks : x <= r
  <2>1. ranks \in SUBSET Nat /\ ranks # {} /\ \A x \in ranks : x <= top
    BY <1>1, <1>2
  <2> HIDE DEF ranks
  <2> QED BY <2>1, Greatest
<1> DEFINE dirs == {dir(k) : k \in {j \in S : rank(j) = r}}
<1>4. PICK d \in dirs : \A x \in dirs : d <= x
  <2>1. dirs \in SUBSET Nat /\ dirs # {}
    BY <1>1, <1>3
  <2> HIDE DEF dirs
  <2> QED BY <2>1, Least
<1> DEFINE places == {k \in S : rank(k) = r /\ dir(k) = d}
<1>5. PICK k \in places : \A x \in places : k <= x
  <2>1. places \in SUBSET Nat /\ places # {}
    BY <1>1, <1>4
  <2> HIDE DEF places
  <2> QED BY <2>1, Least
<1>6. k \in S /\ rank(k) = r /\ dir(k) = d
  BY <1>5
<1>7. ASSUME NEW j \in S, j # k
      PROVE  rank(k) > rank(j) \/ (rank(k) = rank(j) /\ (dir(k) < dir(j) \/ (dir(k) = dir(j) /\ k < j)))
  <2>1. /\ rank(j) \in ranks /\ (rank(j) = r => dir(j) \in dirs)
        /\ rank(j) = r /\ dir(j) = d => j \in places
    BY <1>7
  <2>2. rank(j) <= r
    BY <1>3, <2>1
  <2>3. rank(j) = r => d <= dir(j)
    BY <1>4, <2>1
  <2>4. rank(j) = r /\ dir(j) = d => k <= j
    BY <1>5, <2>1
  <2> HIDE DEF ranks, dirs, places
  <2> QED BY <1>1, <1>6, <1>7, <2>2, <2>3, <2>4
<1>8. \A j \in S \ {k} : Own!Ahead(k, j)
  BY <1>7 DEF Own!Ahead, rank, dir
<1>9. k \in Own!First(S)
  BY <1>6, <1>8 DEF Own!First
<1> QED BY <1>6, <1>9

LEMMA OwnHolds == Own!TypeOK => Own!HeldIsPlayed
<1> SUFFICES ASSUME Own!TypeOK, NEW k \in DOMAIN files,
                    files[k].kind.episode # 0,
                    Own!Holds(files[k], Own!Season(files[k]), files[k].kind.episode),
                    down => \A j \in DOMAIN files : files[j].dir = files[k].dir => files[j].kind.web
             PROVE  \E g \in Own!Located(Own!Season(files[k]), files[k].kind.episode) :
                       /\ Own!Holds(files[g], Own!Season(files[k]), files[k].kind.episode)
                       /\ score[files[g].dir] >= score[files[k].dir]
  BY DEF Own!HeldIsPlayed
<1> DEFINE s == Own!Season(files[k])
           e == files[k].kind.episode
           S == {j \in Own!Entries(e) : Own!Season(files[j]) = s}
<1>1. DOMAIN files = 1..Len(files) /\ Len(files) \in Nat
  BY LenProperties DEF Own!TypeOK
<1>2. k \in S
  <2>1. files[k].dir \in Own!Candidates /\ (files[k].kind.web \/ mkv)
    BY FilesAre DEF Own!Candidates, Own!Holds
  <2>2. \A j \in 1..k : j \in DOMAIN files
    BY <1>1
  <2>3. Own!Walked(k)
    BY <2>1, <2>2 DEF Own!Walked
  <2> QED BY <2>1, <2>3 DEF Own!Entries, Own!AllVideos
<1>3. S \in SUBSET DOMAIN files
  BY DEF Own!Entries, Own!AllVideos
<1>4. \A j \in S : Own!Holds(files[j], s, e)
  BY DEF Own!Entries, Own!AllVideos, Own!Walked, Own!Candidates, Own!Holds
<1>5. Own!Located(s, e) = Own!First(S) \/ Own!First(S) = {}
  BY DEF Own!Located, Own!Else
<1> HIDE DEF S
<1>6. PICK g \in S : g \in Own!First(S)
  BY <1>2, <1>3, FirstFile
<1>7. g = k \/ Own!Ahead(g, k)
  BY <1>2, <1>6 DEF Own!First
<1>8. score[files[g].dir] >= score[files[k].dir]
  <2>1. score[files[g].dir] \in Nat /\ score[files[k].dir] \in Nat
    BY <1>3, <1>6, FilesAre
  <2> QED BY <1>7, <2>1 DEF Own!Ahead
<1> QED BY <1>4, <1>5, <1>6, <1>8

-----------------------------------------------------------------------------
(* Fetches of metadata.                                                    *)

USE FetchAssumption

FetchType == [at : Titles!Stages, on : Requests \cup {Nobody}, val : Int, flag : {"", "degraded", "404"}]
LoadType  == [at : Titles!Steps, val : Int, failed : BOOLEAN]

\* The types that the rest needs, whatever the bounds are.
TitlesTyped ==
    /\ kind \in Titles!Kinds /\ time \in Int /\ titleRow \in Int /\ inflight \in Requests \cup {Nobody}
    /\ local.val \in Int /\ fresh.val \in Int /\ shadow.val \in Int
    /\ titleFetch \in [Requests -> FetchType] /\ titleLoad \in [Requests -> LoadType]

\* The one titleFetch of a coalesced kind is the one that is in flight; any other is its request's own.
OneInFlight ==
    kind \in Titles!Coalesced => \A q \in Requests : titleLoad[q].at # "none" <=> inflight = q

\* Whoever waits, waits for a titleFetch that goes on.
WaitsForSome ==
    \A q \in Requests : titleFetch[q].at = "wait" =>
        /\ titleFetch[q].on \in Requests /\ titleLoad[titleFetch[q].on].at # "none"
        /\ kind \notin Titles!Coalesced => titleFetch[q].on = q

\* A request that runs a titleFetch that is not coalesced waits for it.
OwnLoad ==
    kind \notin Titles!Coalesced => \A q \in Requests : titleLoad[q].at # "none" => titleFetch[q].at = "wait"

TitlesInv == TitlesTyped /\ OneInFlight /\ WaitsForSome /\ OwnLoad

LEMMA TitlesInit == ASSUME Titles!Init PROVE TitlesInv
<1>1. TitlesTyped
  <2>1. Titles!Idle \in FetchType /\ Titles!NoLoad \in LoadType
    BY DEF Titles!Idle, Titles!NoLoad, FetchType, LoadType, Titles!Stages, Titles!Steps
  <2>2. Titles!NoEntry.val = 0
    BY DEF Titles!NoEntry
  <2> QED BY <2>1, <2>2 DEF Titles!Init, TitlesTyped
<1>2. \A q \in Requests : titleFetch[q].at = "idle" /\ titleLoad[q].at = "none" /\ inflight # q
  BY DEF Titles!Init, Titles!Idle, Titles!NoLoad
<1> QED BY <1>1, <1>2 DEF TitlesInv, OneInFlight, WaitsForSome, OwnLoad

LEMMA FetchNone ==
    /\ Titles!Idle \in FetchType /\ Titles!Idle.at = "idle" /\ Titles!NoLoad \in LoadType /\ Titles!NoLoad.at = "none"
  BY DEF Titles!Idle, Titles!NoLoad, FetchType, LoadType, Titles!Stages, Titles!Steps

\* A step that changes one request, which waits neither before nor after it.
LEMMA RequestMoves ==
    ASSUME TitlesInv, NEW q \in Requests, NEW r \in FetchType, titleFetch' = [titleFetch EXCEPT ![q] = r],
           titleLoad[q].at = "none" \/ kind \in Titles!Coalesced, r.at # "wait",
           UNCHANGED <<time, kind, titleRow, inflight, titleLoad>>,
           local'.val \in Int, UNCHANGED <<fresh, shadow>>
    PROVE  TitlesInv'
<1>1. TitlesTyped'
  BY DEF TitlesInv, TitlesTyped
<1>2. /\ titleFetch'[q] = r /\ \A p \in Requests : p # q => titleFetch'[p] = titleFetch[p]
  BY DEF TitlesInv, TitlesTyped
<1>3. OneInFlight' /\ WaitsForSome' /\ OwnLoad'
  BY <1>2 DEF TitlesInv, OneInFlight, WaitsForSome, OwnLoad
<1> QED BY <1>1, <1>3 DEF TitlesInv

\* A step that moves a titleFetch on.
LEMMA LoadMoves ==
    ASSUME TitlesInv, NEW q \in Requests, NEW r \in LoadType, titleLoad' = [titleLoad EXCEPT ![q] = r],
           titleLoad[q].at # "none", r.at # "none",
           UNCHANGED <<time, kind, inflight, titleFetch>>,
           titleRow' \in Int, local'.val \in Int, fresh'.val \in Int, shadow'.val \in Int
    PROVE  TitlesInv'
<1>1. TitlesTyped'
  BY DEF TitlesInv, TitlesTyped
<1>2. titleLoad'[q] = r /\ \A p \in Requests : p # q => titleLoad'[p] = titleLoad[p]
  BY DEF TitlesInv, TitlesTyped
<1>3. OneInFlight' /\ WaitsForSome' /\ OwnLoad'
  BY <1>2 DEF TitlesInv, OneInFlight, WaitsForSome, OwnLoad
<1> QED BY <1>1, <1>3 DEF TitlesInv

LEMMA KeptVal == \A v, life : Titles!Kept(v, life).val = v
  BY DEF Titles!Kept

LEMMA RequestsKeep ==
    ASSUME TitlesInv, NEW q \in Requests,
           Titles!Ask(q) \/ Titles!ReadLocal(q) \/ (\E ok \in BOOLEAN : Titles!ReadFresh(q, ok)) \/ Titles!ReadRow(q)
    PROVE  TitlesInv'
<1>1. titleFetch[q] \in FetchType /\ titleLoad[q] \in LoadType /\ local.val \in Int /\ fresh.val \in Int /\ titleRow \in Int
  BY DEF TitlesInv, TitlesTyped
<1>2. titleLoad[q].at = "none" \/ kind \in Titles!Coalesced
  BY DEF TitlesInv, OwnLoad, Titles!Ask, Titles!ReadLocal, Titles!ReadFresh, Titles!ReadRow
<1>3. UNCHANGED <<time, kind, titleRow, inflight, titleLoad, fresh, shadow>>
  BY DEF Titles!Ask, Titles!ReadLocal, Titles!ReadFresh, Titles!ReadRow, Titles!cacheVars
<1>4. local'.val \in Int
  BY <1>1, KeptVal DEF Titles!Ask, Titles!ReadLocal, Titles!ReadFresh, Titles!ReadRow, Titles!cacheVars
<1>5. \E r \in FetchType : titleFetch' = [titleFetch EXCEPT ![q] = r] /\ r.at # "wait"
  <2>1. ASSUME NEW v \in Int, titleFetch' = Titles!Answer(q, v)
        PROVE  \E r \in FetchType : titleFetch' = [titleFetch EXCEPT ![q] = r] /\ r.at # "wait"
    <3> DEFINE r == [titleFetch[q] EXCEPT !.at = "done", !.val = v]
    <3>1. r \in FetchType /\ r.at = "done"
      BY <1>1 DEF FetchType, Titles!Stages
    <3>2. titleFetch' = [titleFetch EXCEPT ![q] = r]
      BY <2>1 DEF Titles!Answer, TitlesInv, TitlesTyped
    <3> QED BY <3>1, <3>2
  <2>2. ASSUME NEW s \in {"fresh", "join"}, titleFetch' = [titleFetch EXCEPT ![q].at = s]
        PROVE  \E r \in FetchType : titleFetch' = [titleFetch EXCEPT ![q] = r] /\ r.at # "wait"
    <3> DEFINE r == [titleFetch[q] EXCEPT !.at = s]
    <3>1. r \in FetchType /\ r.at = s
      BY <1>1 DEF FetchType, Titles!Stages
    <3>2. titleFetch' = [titleFetch EXCEPT ![q] = r]
      BY <2>2 DEF TitlesInv, TitlesTyped
    <3> QED BY <3>1, <3>2
  <2>3. CASE Titles!Ask(q)
    <3> DEFINE r == [Titles!Idle EXCEPT !.at = IF kind \in Titles!Local THEN "local" ELSE "fresh"]
    <3>1. r \in FetchType /\ r.at # "wait"
      <4> DEFINE s == IF kind \in Titles!Local THEN "local" ELSE "fresh"
      <4>1. s \in {"local", "fresh"}
        OBVIOUS
      <4> HIDE DEF s
      <4>2. [Titles!Idle EXCEPT !.at = s] \in FetchType /\ [Titles!Idle EXCEPT !.at = s].at = s
        BY <4>1, FetchNone DEF FetchType, Titles!Stages
      <4> QED BY <4>1, <4>2 DEF s
    <3>2. titleFetch' = [titleFetch EXCEPT ![q] = r]
      BY <2>3 DEF Titles!Ask
    <3> QED BY <3>1, <3>2
  <2>4. CASE Titles!ReadLocal(q)
    BY <1>1, <2>1, <2>2, <2>4 DEF Titles!ReadLocal
  <2>5. ASSUME NEW ok \in BOOLEAN, Titles!ReadFresh(q, ok)
        PROVE  \E r \in FetchType : titleFetch' = [titleFetch EXCEPT ![q] = r] /\ r.at # "wait"
    BY <1>1, <2>1, <2>2, <2>5 DEF Titles!ReadFresh
  <2>6. CASE Titles!ReadRow(q)
    <3> DEFINE r == [titleFetch[q] EXCEPT !.at = "done", !.val = titleRow,
                                     !.flag = IF titleRow = 0 THEN "404" ELSE "degraded"]
    <3>1. r \in FetchType /\ r.at = "done"
      BY <1>1 DEF FetchType, Titles!Stages
    <3>2. titleFetch' = [titleFetch EXCEPT ![q] = r]
      BY <2>6 DEF Titles!ReadRow, TitlesInv, TitlesTyped
    <3> QED BY <3>1, <3>2
  <2> QED BY <2>3, <2>4, <2>5, <2>6
<1> QED BY <1>2, <1>3, <1>4, <1>5, RequestMoves

LEMMA FetchesKeep ==
    ASSUME TitlesInv, NEW q \in Requests,
           \/ Titles!CallAnswers(q) \/ Titles!CallFails(q) \/ Titles!WriteLocal(q) \/ Titles!ReadStale(q)
           \/ \E ok \in BOOLEAN : Titles!WriteRow(q, ok) \/ Titles!WriteFresh(q, ok) \/ Titles!WriteShadow(q, ok)
    PROVE  TitlesInv'
<1>1. /\ titleLoad[q] \in LoadType /\ titleRow \in Int /\ time \in Int
      /\ local.val \in Int /\ fresh.val \in Int /\ shadow.val \in Int /\ titleLoad[q].val \in Int
  BY DEF TitlesInv, TitlesTyped, LoadType
<1>2. titleLoad[q].at # "none" /\ UNCHANGED <<time, kind, inflight, titleFetch>>
  BY DEF Titles!CallAnswers, Titles!CallFails, Titles!WriteLocal, Titles!ReadStale, Titles!WriteRow, Titles!WriteFresh, Titles!WriteShadow
<1>3. titleRow' \in Int /\ local'.val \in Int /\ fresh'.val \in Int /\ shadow'.val \in Int
  BY <1>1, KeptVal DEF Titles!CallAnswers, Titles!CallFails, Titles!WriteLocal, Titles!ReadStale, Titles!WriteRow, Titles!WriteFresh, Titles!WriteShadow, Titles!cacheVars
<1>4. \E r \in LoadType : titleLoad' = [titleLoad EXCEPT ![q] = r] /\ r.at # "none"
  <2>1. ASSUME NEW s \in Titles!Steps \ {"none"}, Titles!Goes(q, s)
        PROVE  \E r \in LoadType : titleLoad' = [titleLoad EXCEPT ![q] = r] /\ r.at # "none"
    <3> DEFINE r == [titleLoad[q] EXCEPT !.at = s]
    <3>1. r \in LoadType /\ r.at = s
      BY <1>1 DEF LoadType
    <3>2. titleLoad' = [titleLoad EXCEPT ![q] = r]
      BY <2>1 DEF Titles!Goes, TitlesInv, TitlesTyped
    <3> QED BY <3>1, <3>2
  <2>2. ASSUME NEW s \in Titles!Steps \ {"none"}, NEW v \in Int, NEW f \in BOOLEAN,
               titleLoad' = [titleLoad EXCEPT ![q] = [titleLoad[q] EXCEPT !.at = s, !.val = v, !.failed = f]]
        PROVE  \E r \in LoadType : titleLoad' = [titleLoad EXCEPT ![q] = r] /\ r.at # "none"
    <3> DEFINE r == [titleLoad[q] EXCEPT !.at = s, !.val = v, !.failed = f]
    <3>1. r \in LoadType /\ r.at = s
      BY <1>1 DEF LoadType
    <3> QED BY <2>2, <3>1
  <2>3. CASE Titles!CallAnswers(q)
    <3>1. titleLoad' = [titleLoad EXCEPT ![q] = [titleLoad[q] EXCEPT !.at = IF kind = "show" THEN "row" ELSE "fresh",
                                                      !.val = time, !.failed = titleLoad[q].failed]]
      BY <2>3 DEF Titles!CallAnswers, TitlesInv, TitlesTyped, LoadType
    <3>2. titleLoad[q].failed \in BOOLEAN /\ (IF kind = "show" THEN "row" ELSE "fresh") \in Titles!Steps \ {"none"}
      BY <1>1 DEF LoadType, Titles!Steps
    <3> QED BY <1>1, <2>2, <3>1, <3>2
  <2>4. CASE Titles!CallFails(q)
    <3> DEFINE s == CASE kind = "season"   -> "fresh"
                      [] kind \in Titles!Shadowed -> "stale"
                      [] OTHER             -> "ended"
               v == IF kind = "season" THEN Titles!Blank ELSE 0
    <3>1. titleLoad' = [titleLoad EXCEPT ![q] = [titleLoad[q] EXCEPT !.at = s, !.val = v, !.failed = TRUE]]
      BY <2>4 DEF Titles!CallFails, TitlesInv, TitlesTyped, LoadType
    <3>2. v \in Int /\ s \in Titles!Steps \ {"none"}
      BY DEF Titles!Blank, Titles!Steps
    <3> HIDE DEF s, v
    <3> QED BY <2>2, <3>1, <3>2
  <2>5. CASE Titles!ReadStale(q)
    <3>1. Titles!Held(shadow) \in Int
      BY <1>1 DEF Titles!Held
    <3>2. titleLoad' = [titleLoad EXCEPT ![q] = [titleLoad[q] EXCEPT !.at = "ended", !.val = Titles!Held(shadow),
                                                      !.failed = titleLoad[q].failed]]
      BY <2>5 DEF Titles!ReadStale, TitlesInv, TitlesTyped, LoadType
    <3>3. titleLoad[q].failed \in BOOLEAN /\ "ended" \in Titles!Steps \ {"none"}
      BY <1>1 DEF LoadType, Titles!Steps
    <3> QED BY <2>2, <3>1, <3>2, <3>3
  <2>6. CASE Titles!WriteLocal(q) \/ \E ok \in BOOLEAN : Titles!WriteRow(q, ok) \/ Titles!WriteFresh(q, ok) \/ Titles!WriteShadow(q, ok)
    <3>1. \E s \in Titles!Steps \ {"none"} : Titles!Goes(q, s)
      BY <2>6 DEF Titles!WriteLocal, Titles!WriteRow, Titles!WriteFresh, Titles!WriteShadow, Titles!Steps
    <3> QED BY <2>1, <3>1
  <2> QED BY <2>3, <2>4, <2>5, <2>6
<1> QED BY <1>2, <1>3, <1>4, LoadMoves

LEMMA JoinKeeps == ASSUME TitlesInv, NEW q \in Requests, Titles!Join(q) PROVE TitlesInv'
<1> DEFINE leader == IF kind \in Titles!Coalesced /\ inflight # Nobody THEN inflight ELSE q
           waits   == [titleFetch[q] EXCEPT !.at = "wait", !.on = leader]
           started == [Titles!NoLoad EXCEPT !.at = "call"]
<1>1. /\ titleFetch[q].at = "join" /\ UNCHANGED <<time, kind, local, fresh, shadow, titleRow>>
      /\ titleFetch' = [titleFetch EXCEPT ![q] = waits]
      /\ titleLoad' = IF leader = q THEN [titleLoad EXCEPT ![q] = started] ELSE titleLoad
      /\ inflight' = IF kind \in Titles!Coalesced THEN leader ELSE inflight
  BY DEF Titles!Join, TitlesInv, TitlesTyped, Titles!cacheVars
<1>2. leader \in Requests /\ titleFetch[q] \in FetchType
  BY DEF TitlesInv, TitlesTyped
<1>3. waits \in FetchType /\ waits.at = "wait" /\ waits.on = leader
  BY <1>2 DEF FetchType, Titles!Stages
<1>4. started \in LoadType /\ started.at = "call"
  BY FetchNone DEF LoadType, Titles!Steps
<1>5. leader # q => titleLoad[leader].at # "none"
  BY <1>2 DEF TitlesInv, OneInFlight
<1>6. kind \notin Titles!Coalesced => leader = q
  OBVIOUS
<1>7. kind \in Titles!Coalesced => inflight \in {Nobody, leader}
  OBVIOUS
<1>8. kind \in Titles!Coalesced /\ leader # q => inflight = leader
  OBVIOUS
<1> HIDE DEF leader, waits, started
<1>9. TitlesTyped'
  BY <1>1, <1>2, <1>3, <1>4 DEF TitlesInv, TitlesTyped
<1>10. /\ titleFetch'[q] = waits /\ \A p \in Requests : p # q => titleFetch'[p] = titleFetch[p]
       /\ titleLoad'[leader].at # "none" /\ \A p \in Requests : p # leader => titleLoad'[p] = titleLoad[p]
       /\ \A p \in Requests : titleLoad[p].at # "none" => titleLoad'[p].at # "none"
  BY <1>1, <1>2, <1>4, <1>5 DEF TitlesInv, TitlesTyped
<1>11. OneInFlight'
  <2> SUFFICES ASSUME kind \in Titles!Coalesced, NEW p \in Requests
               PROVE  titleLoad'[p].at # "none" <=> inflight' = p
    BY <1>1 DEF OneInFlight
  <2>1. inflight' = leader
    BY <1>1
  <2>2. CASE p = leader
    BY <1>10, <2>1, <2>2
  <2>3. CASE p # leader
    <3>1. titleLoad[p].at = "none"
      BY <1>7, <2>3 DEF TitlesInv, OneInFlight
    <3> QED BY <1>10, <2>1, <2>3, <3>1
  <2> QED BY <2>2, <2>3
<1>12. WaitsForSome'
  BY <1>1, <1>2, <1>3, <1>6, <1>10 DEF TitlesInv, WaitsForSome
<1>13. OwnLoad'
  BY <1>1, <1>3, <1>6, <1>10 DEF TitlesInv, OwnLoad
<1> QED BY <1>9, <1>11, <1>12, <1>13 DEF TitlesInv

LEMMA LeaveKeeps == ASSUME TitlesInv, NEW q \in Requests, Titles!Leave(q) PROVE TitlesInv'
<1>1. /\ titleFetch' = [titleFetch EXCEPT ![q] = Titles!Idle] /\ UNCHANGED <<time, kind, local, fresh, shadow, titleRow, inflight>>
      /\ titleLoad' = IF kind \in Titles!Coalesced THEN titleLoad ELSE [titleLoad EXCEPT ![q] = Titles!NoLoad]
  BY DEF Titles!Leave, Titles!cacheVars
<1>2. TitlesTyped'
  BY <1>1, FetchNone DEF TitlesInv, TitlesTyped
<1>3. /\ titleFetch'[q] = Titles!Idle /\ \A p \in Requests : p # q => titleFetch'[p] = titleFetch[p] /\ titleLoad'[p] = titleLoad[p]
      /\ kind \in Titles!Coalesced => titleLoad' = titleLoad
      /\ kind \notin Titles!Coalesced => titleLoad'[q] = Titles!NoLoad
  BY <1>1 DEF TitlesInv, TitlesTyped
<1>4. OneInFlight'
  BY <1>1 DEF TitlesInv, OneInFlight
<1>5. WaitsForSome' /\ OwnLoad'
  BY <1>1, <1>3, FetchNone DEF TitlesInv, WaitsForSome, OwnLoad
<1> QED BY <1>2, <1>4, <1>5 DEF TitlesInv

LEMMA EndKeeps == ASSUME TitlesInv, NEW q \in Requests, Titles!End(q) PROVE TitlesInv'
<1> DEFINE woken(p) == [titleFetch[p] EXCEPT !.val = titleLoad[q].val, !.on = Nobody,
                           !.at = IF kind = "show" /\ titleLoad[q].failed THEN "row" ELSE "done"]
<1>1. /\ titleLoad[q].at = "ended" /\ titleLoad' = [titleLoad EXCEPT ![q] = Titles!NoLoad]
      /\ titleFetch' = [p \in Requests |-> IF titleFetch[p].at = "wait" /\ titleFetch[p].on = q THEN woken(p) ELSE titleFetch[p]]
      /\ inflight' = IF inflight = q THEN Nobody ELSE inflight
      /\ UNCHANGED <<time, kind, local, fresh, shadow, titleRow>>
  BY DEF Titles!End, Titles!cacheVars
<1>2. \A p \in Requests : woken(p) \in FetchType /\ woken(p).at # "wait"
  <2> SUFFICES ASSUME NEW p \in Requests PROVE woken(p) \in FetchType /\ woken(p).at # "wait"
    OBVIOUS
  <2>1. titleFetch[p] \in FetchType /\ titleLoad[q].val \in Int
    BY DEF TitlesInv, TitlesTyped, LoadType
  <2> DEFINE s == IF kind = "show" /\ titleLoad[q].failed THEN "row" ELSE "done"
  <2>2. s \in {"row", "done"}
    OBVIOUS
  <2> HIDE DEF s
  <2>3. [titleFetch[p] EXCEPT !.val = titleLoad[q].val, !.on = Nobody, !.at = s] \in FetchType
        /\ [titleFetch[p] EXCEPT !.val = titleLoad[q].val, !.on = Nobody, !.at = s].at = s
    BY <2>1, <2>2 DEF FetchType, Titles!Stages
  <2> QED BY <2>2, <2>3 DEF s
<1> HIDE DEF woken
<1>3. TitlesTyped'
  <2>1. titleFetch' \in [Requests -> FetchType]
    BY <1>1, <1>2 DEF TitlesInv, TitlesTyped
  <2>2. titleLoad' \in [Requests -> LoadType]
    BY <1>1, FetchNone DEF TitlesInv, TitlesTyped
  <2> QED BY <1>1, <2>1, <2>2 DEF TitlesInv, TitlesTyped
<1>4. /\ titleLoad'[q].at = "none" /\ \A p \in Requests : p # q => titleLoad'[p] = titleLoad[p]
  BY <1>1, FetchNone DEF TitlesInv, TitlesTyped
<1>5. \A p \in Requests : titleFetch'[p].at = "wait" =>
          titleFetch[p].at = "wait" /\ titleFetch'[p] = titleFetch[p] /\ titleFetch[p].on # q
  BY <1>1, <1>2
<1>6. OneInFlight'
  BY <1>1, <1>4 DEF TitlesInv, OneInFlight
<1>7. WaitsForSome'
  BY <1>1, <1>4, <1>5 DEF TitlesInv, WaitsForSome
<1>8. OwnLoad'
  <2> SUFFICES ASSUME kind \notin Titles!Coalesced, NEW p \in Requests, titleLoad'[p].at # "none"
               PROVE  titleFetch'[p].at = "wait"
    BY <1>1 DEF OwnLoad
  <2>1. p # q /\ titleLoad[p].at # "none"
    BY <1>4
  <2>2. titleFetch[p].at = "wait" /\ titleFetch[p].on = p
    BY <2>1 DEF TitlesInv, OwnLoad, WaitsForSome
  <2> QED BY <1>1, <2>1, <2>2
<1> QED BY <1>3, <1>6, <1>7, <1>8 DEF TitlesInv

LEMMA TitlesStep == ASSUME TitlesInv, [Titles!Next]_titlesVars PROVE TitlesInv'
<1>1. CASE Titles!Purge \/ Titles!Evict \/ Titles!Tick \/ UNCHANGED titlesVars
  <2>1. /\ UNCHANGED <<kind, titleRow, inflight, titleFetch, titleLoad>> /\ (UNCHANGED time \/ time' = time + 1)
        /\ local' \in {local, Titles!NoEntry} /\ fresh' \in {fresh, Titles!NoEntry} /\ shadow' \in {shadow, Titles!NoEntry}
    BY <1>1 DEF Titles!Purge, Titles!Evict, Titles!Tick, titlesVars, Titles!cacheVars
  <2>2. Titles!NoEntry.val = 0
    BY DEF Titles!NoEntry
  <2>3. TitlesTyped'
    BY <2>1, <2>2 DEF TitlesInv, TitlesTyped
  <2>4. OneInFlight' /\ WaitsForSome' /\ OwnLoad'
    BY <2>1 DEF TitlesInv, OneInFlight, WaitsForSome, OwnLoad
  <2> QED BY <2>3, <2>4 DEF TitlesInv
<1>2. ASSUME NEW q \in Requests,
             \/ Titles!Ask(q) \/ Titles!ReadLocal(q) \/ Titles!Join(q) \/ Titles!Leave(q) \/ Titles!CallAnswers(q) \/ Titles!CallFails(q)
             \/ Titles!WriteLocal(q) \/ Titles!ReadStale(q) \/ Titles!End(q) \/ Titles!ReadRow(q)
             \/ \E ok \in BOOLEAN : Titles!ReadFresh(q, ok) \/ Titles!WriteRow(q, ok) \/ Titles!WriteFresh(q, ok) \/ Titles!WriteShadow(q, ok)
      PROVE  TitlesInv'
  BY <1>2, RequestsKeep, FetchesKeep, JoinKeeps, LeaveKeeps, EndKeeps
<1> QED BY <1>1, <1>2 DEF Titles!Next

\* "One upstream call per key at a time" (core/single_flight.py): however requests come, go and
\* are cancelled, no coalesced kind is fetched twice at once, and nobody waits for a fetch that
\* is over.
LEMMA TitlesHold == TitlesInv => Titles!OneCallPerKey
<1> SUFFICES ASSUME TitlesInv PROVE Titles!OneCallPerKey
  OBVIOUS
<1>1. \A q \in Requests : titleFetch[q].at = "wait" => titleLoad[titleFetch[q].on].at # "none"
  BY DEF TitlesInv, WaitsForSome
<1>2. ASSUME kind \in Titles!Coalesced 
      PROVE  Titles!Cardinality({q \in Requests : titleLoad[q].at # "none"}) <= 1
  <2> DEFINE S == {q \in Requests : titleLoad[q].at # "none"}
  <2>1. S \subseteq {inflight}
    BY <1>2 DEF TitlesInv, OneInFlight
  <2>2. Cardinality(S) <= 1
    BY <2>1, AtMostOne
  <2>3. Titles!Cardinality(S) = Cardinality(S)
    BY Counts
  <2> QED BY <2>2, <2>3
<1> QED BY <1>1, <1>2 DEF Titles!OneCallPerKey

\* A copy that is to be had is in the shadow, and what may become one is not nothing.
Covered ==
    /\ time > 0 /\ known \in Int
    /\ known > time => shadow.until = known /\ shadow.val > 0
    /\ \A q \in Requests :
          /\ titleLoad[q].at \in {"row", "fresh"} /\ kind \in Titles!Shadowed => titleLoad[q].val > 0
          /\ titleLoad[q].at = "shadow" => titleLoad[q].val > 0

\* What KnownIsServed says of a step.
Serves(q) == titleLoad[q].at = "stale" /\ titleLoad'[q].at = "ended" /\ known > time
                 => titleLoad'[q].val > 0

LEMMA CoveredInit == Titles!Init => Covered
  BY DEF Titles!Init, Covered, Titles!NoLoad

LEMMA CoveredStep ==
    ASSUME TitlesInv, Covered, [Titles!Next]_titlesVars
    PROVE  Covered' /\ \A q \in Requests : Serves(q)
<1>1. /\ time \in Int /\ known \in Int /\ time > 0 /\ StaleFor \in Nat
      /\ titleLoad = [q \in Requests |-> titleLoad[q]]
      /\ \A q \in Requests : titleLoad[q] \in LoadType
  BY FetchAssumption DEF TitlesInv, TitlesTyped, Covered
<1>2. CASE UNCHANGED titlesVars \/ Titles!Purge \/ Titles!Evict \/ Titles!Tick
  <2>1. /\ UNCHANGED <<kind, known, titleLoad>>
        /\ time' = time \/ time' = time + 1
        /\ shadow' = shadow \/ (shadow' = Titles!NoEntry /\ shadow.until < time)
    BY <1>2 DEF titlesVars, Titles!Purge, Titles!Evict, Titles!Tick, Titles!cacheVars
  <2>2. time' > 0 /\ (known' > time' => known > time)
    BY <1>1, <2>1
  <2>3. known > time => shadow' = shadow
    BY <1>1, <2>1 DEF Covered
  <2> QED BY <2>1, <2>2, <2>3 DEF Covered, Serves
<1>3. ASSUME NEW q \in Requests,
             \/ Titles!Ask(q) \/ Titles!ReadLocal(q) \/ Titles!Join(q) \/ Titles!Leave(q)
             \/ Titles!End(q) \/ Titles!ReadRow(q) \/ \E ok \in BOOLEAN : Titles!ReadFresh(q, ok)
      PROVE  Covered' /\ \A p \in Requests : Serves(p)
  <2>1. UNCHANGED <<time, kind, known, shadow>>
    BY <1>3 DEF Titles!Ask, Titles!ReadLocal, Titles!Join, Titles!Leave, Titles!End, Titles!ReadRow,
       Titles!ReadFresh, Titles!cacheVars
  <2>2. \/ UNCHANGED titleLoad
        \/ titleLoad' = [titleLoad EXCEPT ![q] = Titles!NoLoad]
        \/ titleLoad' = [titleLoad EXCEPT ![q] = [Titles!NoLoad EXCEPT !.at = "call"]]
    BY <1>3 DEF Titles!Ask, Titles!ReadLocal, Titles!Join, Titles!Leave, Titles!End, Titles!ReadRow,
       Titles!ReadFresh
  <2>3. \A p \in Requests : titleLoad'[p] = titleLoad[p] \/ titleLoad'[p].at \in {"none", "call"}
    BY <1>1, <2>2 DEF Titles!NoLoad
  <2> QED BY <2>1, <2>3, SMTT(30) DEF Covered, Serves
<1>4. ASSUME NEW q \in Requests, NEW ok \in BOOLEAN,
             \/ Titles!CallAnswers(q) \/ Titles!CallFails(q) \/ Titles!WriteLocal(q)
             \/ Titles!WriteRow(q, ok) \/ Titles!WriteFresh(q, ok)
      PROVE  Covered' /\ \A p \in Requests : Serves(p)
  <2>1. UNCHANGED <<time, kind, known, shadow>> /\ titleLoad[q].at \in {"call", "local", "row", "fresh"}
    BY <1>4 DEF Titles!CallAnswers, Titles!CallFails, Titles!WriteLocal, Titles!WriteRow,
       Titles!WriteFresh, Titles!cacheVars
  <2>2. \A p \in Requests : p # q => titleLoad'[p] = titleLoad[p]
    BY <1>1, <1>4 DEF Titles!CallAnswers, Titles!CallFails, Titles!WriteLocal, Titles!WriteRow,
       Titles!WriteFresh, Titles!Goes
  <2>3. /\ titleLoad'[q].at \in {"row", "fresh"} /\ kind \in Titles!Shadowed => titleLoad'[q].val > 0
        /\ titleLoad'[q].at = "shadow" => titleLoad'[q].val > 0
    <3>1. CASE Titles!CallAnswers(q)
      <4>1. titleLoad'[q].val = time
        BY <1>1, <3>1 DEF Titles!CallAnswers, LoadType
      <4> QED BY <1>1, <4>1
    <3>2. CASE Titles!CallFails(q)
      <4>1. /\ kind \in Titles!Shadowed => titleLoad'[q].at = "stale"
            /\ titleLoad'[q].at # "shadow"
        BY <1>1, <3>2 DEF Titles!CallFails, Titles!Shadowed, LoadType
      <4> QED BY <4>1
    <3>3. CASE Titles!WriteLocal(q)
      <4>1. titleLoad'[q].at = "ended"
        BY <1>1, <3>3 DEF Titles!WriteLocal, Titles!Goes, LoadType
      <4> QED BY <4>1
    <3>4. CASE Titles!WriteRow(q, ok) \/ Titles!WriteFresh(q, ok)
      <4>1. /\ titleLoad[q].at \in {"row", "fresh"} /\ titleLoad'[q].val = titleLoad[q].val
            /\ titleLoad'[q].at = "shadow" => kind \in Titles!Shadowed
        BY <1>1, <3>4 DEF Titles!WriteRow, Titles!WriteFresh, Titles!Goes, LoadType
      <4> QED BY <4>1 DEF Covered
    <3> QED BY <1>4, <3>1, <3>2, <3>3, <3>4
  <2> QED BY <2>1, <2>2, <2>3 DEF Covered, Serves
<1>5. ASSUME NEW q \in Requests, NEW ok \in BOOLEAN, Titles!WriteShadow(q, ok)
      PROVE  Covered' /\ \A p \in Requests : Serves(p)
  <2>1. /\ titleLoad[q].at = "shadow" /\ UNCHANGED <<time, kind>>
        /\ \A p \in Requests : p # q => titleLoad'[p] = titleLoad[p]
        /\ titleLoad'[q].at = "ended"
    BY <1>1, <1>5 DEF Titles!WriteShadow, Titles!Goes, LoadType
  <2>2. \/ UNCHANGED <<shadow, known>>
        \/ /\ shadow' = Titles!Kept(titleLoad[q].val, StaleFor)
           /\ known' = time + StaleFor
    BY <1>5 DEF Titles!WriteShadow
  <2>3. known' \in Int
    BY <1>1, <2>2
  <2>4. known' > time => shadow'.until = known' /\ shadow'.val > 0
    <3>1. CASE UNCHANGED <<shadow, known>>
      BY <3>1 DEF Covered
    <3>2. CASE known' = time + StaleFor /\ shadow' = Titles!Kept(titleLoad[q].val, StaleFor)
      <4>1. shadow'.until = known' /\ shadow'.val = titleLoad[q].val
        BY <3>2 DEF Titles!Kept
      <4>2. titleLoad[q].val > 0
        BY <2>1 DEF Covered
      <4> QED BY <4>1, <4>2
    <3> QED BY <2>2, <3>1, <3>2
  <2> QED BY <2>1, <2>3, <2>4 DEF Covered, Serves
<1>6. ASSUME NEW q \in Requests, Titles!ReadStale(q)
      PROVE  Covered' /\ \A p \in Requests : Serves(p)
  <2>1. /\ UNCHANGED <<time, kind, known, shadow>>
        /\ \A p \in Requests : p # q => titleLoad'[p] = titleLoad[p]
        /\ titleLoad'[q].at = "ended" /\ titleLoad'[q].val = Titles!Held(shadow)
    BY <1>1, <1>6 DEF Titles!ReadStale, Titles!cacheVars, LoadType
  <2>2. known > time => Titles!Held(shadow) > 0
    BY DEF Covered, Titles!Held
  <2> QED BY <2>1, <2>2 DEF Covered, Serves
<1> QED BY <1>2, <1>3, <1>4, <1>5, <1>6 DEF Titles!Next

-----------------------------------------------------------------------------
(* The refresh of the channels.                                            *)

\* One refresh at a time, behind its flag; what it ruled out when it began is still blocked.
Refresh == [read : Nat, open : SUBSET Channels, streamed : SUBSET Channels,
            ruledOut : SUBSET Channels]
TvInv ==
    /\ index \in Tv!Index /\ refreshing \in BOOLEAN /\ fetch \subseteq Refresh
    /\ \A f, g \in fetch : f = g
    /\ refreshing <=> fetch # {}
    /\ \A f \in fetch : f.ruledOut \subseteq index.blocked

\* What BlockedStaysOut says of a step.
KeepsOut == catalog' # catalog =>
    /\ catalog'.ready
    /\ \E f \in fetch : catalog'.channels \cap f.ruledOut = {}

LEMMA TvInit == Tv!Init => TvInv
<1> SUFFICES ASSUME Tv!Init PROVE TvInv
  OBVIOUS
<1>1. index \in Tv!Index
  BY DEF Tv!Init, Tv!Index
<1>2. refreshing = FALSE /\ fetch = {}
  BY DEF Tv!Init
<1> QED BY <1>1, <1>2 DEF TvInv

\* A refresh that goes on is the only one, and remembers what it ruled out.
LEMMA RefreshMoves ==
    ASSUME TvInv, NEW f \in fetch, NEW g \in Refresh, g.ruledOut = f.ruledOut,
           fetch' = (fetch \ {f}) \cup {g}, UNCHANGED <<index, refreshing>>
    PROVE  TvInv'
<1>1. fetch' = {g}
  BY DEF TvInv
<1> QED BY <1>1 DEF TvInv

LEMMA TvStep == ASSUME TvInv, [Tv!Next]_tvVars PROVE TvInv' /\ KeepsOut
<1>1. CASE UNCHANGED tvVars
  BY <1>1 DEF tvVars, TvInv, KeepsOut
<1>2. ASSUME NEW v \in Requests, Tv!Ask(v) \/ Tv!Respond(v) \/ Tv!Leave(v) PROVE TvInv' /\ KeepsOut
  <2>1. UNCHANGED <<index, catalog>>
    BY <1>2 DEF Tv!Ask, Tv!Respond, Tv!Leave
  <2>2. CASE UNCHANGED <<refreshing, fetch>>
    BY <2>1, <2>2 DEF TvInv, KeepsOut
  <2>3. CASE ~UNCHANGED <<refreshing, fetch>>
    <3> DEFINE g == [read |-> 0, open |-> {}, streamed |-> {}, ruledOut |-> index.blocked]
    <3>1. ~refreshing /\ refreshing' = TRUE /\ fetch' = fetch \cup {g}
      BY <1>2, <2>3 DEF Tv!Ask, Tv!Respond, Tv!Leave, Tv!StartWanted
    <3>2. g \in Refresh /\ g.ruledOut = index.blocked
      BY DEF TvInv, Refresh, Tv!Index
    <3> HIDE DEF g
    <3>3. fetch' = {g}
      BY <3>1 DEF TvInv
    <3> QED BY <2>1, <3>1, <3>2, <3>3 DEF TvInv, KeepsOut
  <2> QED BY <2>2, <2>3
<1>3. ASSUME NEW f \in fetch,
             Tv!ReadChannels(f) \/ Tv!ReadStreams(f) \/ Tv!Swap(f) \/ Tv!Fail(f) \/ Tv!End(f)
      PROVE  TvInv' /\ KeepsOut
  <2>1. f \in Refresh /\ index \in Tv!Index
    BY DEF TvInv
  <2>2. CASE Tv!End(f)
    <3>1. fetch' = {} /\ refreshing' = FALSE /\ UNCHANGED <<index, catalog>>
      BY <2>2 DEF Tv!End, TvInv
    <3> QED BY <3>1 DEF TvInv, KeepsOut
  <2>3. CASE Tv!ReadChannels(f) \/ Tv!ReadStreams(f) \/ Tv!Fail(f)
    <3>1. \E g \in Refresh : g.ruledOut = f.ruledOut /\ fetch' = (fetch \ {f}) \cup {g}
      <4>1. CASE Tv!ReadChannels(f)
        <5> DEFINE g == [f EXCEPT !.read = 1, !.open = index.open]
        <5>1. g \in Refresh /\ g.ruledOut = f.ruledOut
          BY <2>1 DEF Refresh, Tv!Index
        <5> QED BY <4>1, <5>1 DEF Tv!ReadChannels
      <4>2. CASE Tv!ReadStreams(f)
        <5> DEFINE g == [f EXCEPT !.read = 2, !.streamed = index.streamed]
        <5>1. g \in Refresh /\ g.ruledOut = f.ruledOut
          BY <2>1 DEF Refresh, Tv!Index
        <5> QED BY <4>2, <5>1 DEF Tv!ReadStreams
      <4>3. CASE Tv!Fail(f)
        <5> DEFINE g == [f EXCEPT !.read = 3]
        <5>1. g \in Refresh /\ g.ruledOut = f.ruledOut
          BY <2>1 DEF Refresh
        <5> QED BY <4>3, <5>1 DEF Tv!Fail
      <4> QED BY <2>3, <4>1, <4>2, <4>3
    <3>2. UNCHANGED <<index, catalog, refreshing>>
      BY <2>3 DEF Tv!ReadChannels, Tv!ReadStreams, Tv!Fail
    <3> QED BY <3>1, <3>2, RefreshMoves DEF KeepsOut
  <2>4. CASE Tv!Swap(f)
    <3> DEFINE g == [f EXCEPT !.read = 3]
    <3>1. g \in Refresh /\ g.ruledOut = f.ruledOut
      BY <2>1 DEF Refresh
    <3>2. UNCHANGED <<index, refreshing>> /\ fetch' = (fetch \ {f}) \cup {g}
      BY <2>4 DEF Tv!Swap
    <3> HIDE DEF g
    <3>3. TvInv'
      BY <3>1, <3>2, RefreshMoves
    <3>4. catalog'.ready /\ catalog'.channels = (f.open \cap f.streamed) \ index.blocked
      BY <2>4 DEF Tv!Swap, Tv!Catalog
    <3>5. f.ruledOut \subseteq index.blocked
      BY DEF TvInv
    <3> QED BY <3>3, <3>4, <3>5 DEF KeepsOut
  <2> QED BY <1>3, <2>2, <2>3, <2>4
<1>4. CASE Tv!Publish
  <2>1. UNCHANGED <<catalog, refreshing, fetch>>
    BY <1>4 DEF Tv!Publish
  <2>2. index' \in Tv!Index /\ index.blocked \subseteq index'.blocked
    <3>1. PICK c \in Channels :
              \/ index' = [index EXCEPT !.open = @ \ {c}] \/ index' = [index EXCEPT !.streamed = @ \ {c}]
              \/ index' = [index EXCEPT !.streamed = @ \cup {c}]
              \/ index' = [index EXCEPT !.blocked = @ \cup {c}]
      BY <1>4 DEF Tv!Publish
    <3> QED BY <3>1 DEF TvInv, Tv!Index
  <2> QED BY <2>1, <2>2 DEF TvInv, KeepsOut
<1>5. CASE Tv!Tick
  BY <1>5 DEF Tv!Tick, TvInv, KeepsOut
<1> QED BY <1>1, <1>2, <1>3, <1>4, <1>5 DEF Tv!Next

LEMMA TvHolds == TvInv => Tv!OneRefresh
<1> SUFFICES ASSUME TvInv PROVE Tv!OneRefresh
  OBVIOUS
<1>1. Cardinality(fetch) <= 1
  <2>1. CASE fetch = {}
    <3>1. Cardinality({}) = 0
      BY FS_EmptySet
    <3> QED BY <2>1, <3>1
  <2>2. CASE fetch # {}
    <3>1. PICK f \in fetch : fetch \subseteq {f}
      BY <2>2 DEF TvInv
    <3> QED BY <3>1, AtMostOne
  <2> QED BY <2>1, <2>2
<1>2. Tv!Cardinality(fetch) <= 1
  BY <1>1, Counts
<1> QED BY <1>2 DEF TvInv, Tv!OneRefresh

-----------------------------------------------------------------------------
(* Sweeps of the probes.                                                   *)

USE ProbeAssumption

\* The load that holds the lock sweeps, alone, and unless it was forced what is kept is old.
Loading == [at : {"idle", "lock", "sweep"}, forced : BOOLEAN]
Late == kept.at = -1 \/ healthNow - kept.at >= TTL
HealthInv ==
    /\ healthNow \in Int /\ kept.at \in Int /\ load \in [Requests -> Loading]
    /\ \A d \in Requests : load[d].at = "sweep" <=> d \in sweepers
    /\ \A d, e \in sweepers : d = e
    /\ \A d \in sweepers : d \in Requests /\ (load[d].forced \/ Late)

\* What SweepsAreApart says of a step.
SweptLate ==
    \A d \in Requests : (kept' # kept /\ d \in sweepers /\ ~load[d].forced)
        => kept.at = -1 \/ kept'.at - kept.at >= TTL

LEMMA HealthInit == Health!Init => HealthInv
  BY DEF Health!Init, HealthInv, Health!Idle, Loading

LEMMA HealthStep == ASSUME HealthInv, [Health!Next]_healthVars PROVE HealthInv' /\ SweptLate
<1>1. CASE UNCHANGED healthVars
  BY <1>1 DEF healthVars, HealthInv, SweptLate, Late
<1>2. CASE Health!Tick
  <2>1. UNCHANGED <<kept, sweepers, load>> /\ healthNow' = healthNow + 1
    BY <1>2 DEF Health!Tick
  <2>2. healthNow \in Int /\ kept.at \in Int
    BY DEF HealthInv
  <2>3. healthNow' \in Int /\ (Late => Late')
    BY <2>1, <2>2 DEF Late
  <2> QED BY <2>1, <2>3 DEF HealthInv, SweptLate
<1>3. ASSUME NEW s \in Sources, Health!Probe(s) PROVE HealthInv' /\ SweptLate
  BY <1>3 DEF Health!Probe, HealthInv, SweptLate, Late
<1>4. ASSUME NEW d \in Requests, Health!Ask(d) PROVE HealthInv' /\ SweptLate
  <2>1. /\ load[d].at = "idle" /\ UNCHANGED <<healthNow, kept, sweepers>>
        /\ \E forced \in BOOLEAN :
              load' \in {load, [load EXCEPT ![d] = [at |-> "lock", forced |-> forced]]}
    BY <1>4 DEF Health!Ask
  <2>2. PICK forced \in BOOLEAN :
            load' \in {load, [load EXCEPT ![d] = [at |-> "lock", forced |-> forced]]}
    BY <2>1
  <2> DEFINE r == [at |-> "lock", forced |-> forced]
  <2>3. r \in Loading /\ r.at = "lock"
    BY DEF Loading
  <2>4. load' \in {load, [load EXCEPT ![d] = r]}
    BY <2>2
  <2> HIDE DEF r
  <2>5. load' \in [Requests -> Loading] /\ load'[d].at # "sweep"
    BY <2>1, <2>3, <2>4 DEF HealthInv
  <2>6. \A e \in Requests : e # d => load'[e] = load[e]
    BY <2>4 DEF HealthInv
  <2>7. d \notin sweepers
    BY <2>1 DEF HealthInv
  <2> QED BY <2>1, <2>5, <2>6, <2>7 DEF HealthInv, SweptLate, Late
<1>5. ASSUME NEW d \in Requests, Health!Lock(d) PROVE HealthInv' /\ SweptLate
  <2>1. load[d].at = "lock" /\ sweepers = {} /\ UNCHANGED <<healthNow, kept>>
    BY <1>5 DEF Health!Lock, Health!Locks
  <2>2. CASE ~load[d].forced /\ Health!Cached
    <3>1. load' = [load EXCEPT ![d] = Health!Idle] /\ sweepers' = {}
      BY <1>5, <2>1, <2>2 DEF Health!Lock, Health!Locks
    <3>2. Health!Idle \in Loading /\ Health!Idle.at = "idle"
      BY DEF Health!Idle, Loading
    <3>3. /\ load' \in [Requests -> Loading] /\ load'[d].at = "idle"
          /\ \A e \in Requests : e # d => load'[e] = load[e]
      BY <3>1, <3>2 DEF HealthInv
    <3> QED BY <2>1, <3>1, <3>3 DEF HealthInv, SweptLate
  <2>3. CASE ~(~load[d].forced /\ Health!Cached)
    <3> DEFINE r == [load[d] EXCEPT !.at = "sweep"]
    <3>1. load' = [load EXCEPT ![d] = r] /\ sweepers' = {d}
      BY <1>5, <2>3 DEF Health!Lock, Health!Locks
    <3>2. r \in Loading /\ r.at = "sweep" /\ r.forced = load[d].forced
      BY DEF Loading, HealthInv
    <3> HIDE DEF r
    <3>3. /\ load' \in [Requests -> Loading] /\ load'[d] = r
          /\ \A e \in Requests : e # d => load'[e] = load[e]
      BY <3>1, <3>2 DEF HealthInv
    <3>4. healthNow \in Int /\ kept.at \in Int
      BY DEF HealthInv
    <3>5. load[d].forced \/ Late
      BY <2>3, <3>4 DEF Health!Cached, Late
    <3>6. \A e \in Requests : load'[e].at = "sweep" <=> e \in sweepers'
      BY <2>1, <3>1, <3>2, <3>3 DEF HealthInv
    <3>7. load'[d].forced \/ Late'
      BY <2>1, <3>2, <3>3, <3>5 DEF Late
    <3> QED BY <2>1, <3>1, <3>3, <3>4, <3>6, <3>7 DEF HealthInv, SweptLate
  <2> QED BY <2>2, <2>3
<1>6. ASSUME NEW d \in Requests, Health!Swept(d) \/ Health!SweepFails(d)
      PROVE  HealthInv' /\ SweptLate
  <2>1. /\ load[d].at = "sweep" /\ load' = [load EXCEPT ![d] = Health!Idle]
        /\ sweepers' = sweepers \ {d} /\ UNCHANGED healthNow
        /\ kept' = kept \/ kept'.at = healthNow
    BY <1>6 DEF Health!Swept, Health!SweepFails, Health!Leaves
  <2>2. sweepers = {d}
    BY <2>1 DEF HealthInv
  <2>3. Health!Idle \in Loading /\ Health!Idle.at = "idle"
    BY DEF Health!Idle, Loading
  <2>4. /\ load' \in [Requests -> Loading] /\ load'[d].at = "idle"
        /\ \A e \in Requests : e # d => load'[e] = load[e]
    BY <2>1, <2>3 DEF HealthInv
  <2>5. healthNow' \in Int /\ kept'.at \in Int
    BY <2>1 DEF HealthInv
  <2>6. HealthInv'
    BY <2>1, <2>2, <2>4, <2>5 DEF HealthInv
  <2>7. SweptLate
    BY <2>1, <2>2 DEF SweptLate, HealthInv, Late
  <2> QED BY <2>6, <2>7
<1> QED BY <1>1, <1>2, <1>3, <1>4, <1>5, <1>6 DEF Health!Next, Health!LoadNext

-----------------------------------------------------------------------------
(* The bot and its heartbeat.                                              *)

\* What the gateway sends is of its kinds.
Message == [op : Bot!Ops, invite : Invites \cup {0}, s : Nat]
Received == inbox \in Seq(Message) /\ sent \in Nat

\* The connection's heart beats from its hello to its end.
HeartHolds == Bot!OneHeart /\ (at = "hello" => hearts = {})

\* What was said, or is about to be, is so.
RowTable == [Invites -> {"none", "unused", "used", "gone"}]
So(says, i) == /\ says = "minted" => row[i] # "none"
               /\ says = "revoked" => row[i] = "gone"
SaidTruly ==
    /\ row \in RowTable /\ told \in [Invites -> Bot!Says]
    /\ answer \in [says : Bot!Says, invite : Invites \cup {0}]
    /\ \A i \in Invites : So(told[i], i)
    /\ at = "reply" /\ answer.invite \in Invites => So(answer.says, answer.invite)

BotInv == Received /\ HeartHolds /\ SaidTruly

LEMMA NothingSaid ==
    /\ Bot!NoAnswer \in [says : Bot!Says, invite : Invites \cup {0}]
    /\ Bot!NoAnswer.says = "nothing"
  BY DEF Bot!NoAnswer, Bot!Says

LEMMA BotInit == Bot!Init => BotInv
<1> SUFFICES ASSUME Bot!Init PROVE BotInv
  OBVIOUS
<1>1. Received
  BY DEF Bot!Init, Received
<1>2. HeartHolds
  BY DEF Bot!Init, HeartHolds, Bot!OneHeart
<1>3. SaidTruly
  BY NothingSaid DEF Bot!Init, SaidTruly, RowTable, So, Bot!Says
<1> QED BY <1>1, <1>2, <1>3 DEF BotInv

\* A step that says nothing new and touches no invite.
LEMMA SaysNothing ==
    ASSUME SaidTruly, UNCHANGED <<row, told>>,
           \/ UNCHANGED answer /\ (at' = "reply" => at = "reply")
           \/ /\ answer' \in [says : Bot!Says, invite : Invites \cup {0}]
              /\ answer'.says = "nothing"
    PROVE  SaidTruly'
  BY DEF SaidTruly, So

LEMMA RowsGrow ==
    ASSUME row \in RowTable, NEW i \in Invites, NEW v \in {"none", "unused", "used", "gone"},
           row' = [row EXCEPT ![i] = v]
    PROVE  row' \in RowTable /\ row'[i] = v /\ \A j \in Invites : j # i => row'[j] = row[j]
  BY DEF RowTable

\* The loop's steps that send, receive or wait.
LEMMA LoopKeeps ==
    ASSUME BotInv,
           \/ Bot!Stop \/ Bot!Check \/ Bot!Wake \/ Bot!Hello \/ Bot!Identify \/ Bot!AnswerBeat
           \/ Bot!ReadEnds \/ Bot!Drop \/ Bot!Leave \/ \E h \in hearts : Bot!Beat(h)
    PROVE  BotInv'
<1>1. UNCHANGED <<row, told, sent>> /\ inbox' \in {inbox, <<>>}
  BY DEF Bot!Stop, Bot!Check, Bot!Wake, Bot!Hello, Bot!Identify, Bot!AnswerBeat, Bot!ReadEnds,
     Bot!Drop, Bot!Leave, Bot!Beat, Bot!Send, Bot!gatewayVars
<1>2. Received'
  <2>1. CASE inbox' = inbox
    BY <1>1, <2>1 DEF BotInv, Received
  <2>2. CASE inbox' = <<>>
    <3>1. <<>> \in Seq(Message)
      OBVIOUS
    <3> QED BY <1>1, <2>2, <3>1 DEF BotInv, Received
  <2> QED BY <1>1, <2>1, <2>2
<1>3. \/ UNCHANGED answer /\ (at' = "reply" => at = "reply")
      \/ answer' = Bot!NoAnswer
  BY DEF Bot!Stop, Bot!Check, Bot!Wake, Bot!Hello, Bot!Identify, Bot!AnswerBeat, Bot!ReadEnds,
     Bot!Drop, Bot!Leave, Bot!Beat, Bot!Send
<1>4. SaidTruly'
  BY <1>1, <1>3, SaysNothing, NothingSaid DEF BotInv
<1>5. HeartHolds'
  <2>1. CASE Bot!Stop \/ Bot!ReadEnds \/ Bot!Drop
    <3>1. CASE Bot!Stop
      <4>1. UNCHANGED <<session, hearts, open, at>>
        BY <3>1 DEF Bot!Stop, Bot!heartVars, Bot!gatewayVars
      <4> QED BY <4>1 DEF BotInv, HeartHolds, Bot!OneHeart
    <3>2. CASE Bot!ReadEnds
      <4>1. /\ UNCHANGED <<session, hearts, open>> /\ at = "read" /\ ~open
            /\ at' \in {"leave", "leave badly"}
        BY <3>2 DEF Bot!ReadEnds, Bot!heartVars, Bot!gatewayVars
      <4>2. ~open'
        BY <4>1
      <4> QED BY <4>1, <4>2 DEF BotInv, HeartHolds, Bot!OneHeart
    <3>3. CASE Bot!Drop
      <4>1. UNCHANGED <<session, hearts, at>> /\ ~open'
        BY <3>3 DEF Bot!Drop, Bot!heartVars
      <4> QED BY <4>1 DEF BotInv, HeartHolds, Bot!OneHeart
    <3> QED BY <2>1, <3>1, <3>2, <3>3
  <2>2. CASE Bot!Check \/ Bot!Wake
    BY <2>2 DEF Bot!Check, Bot!Wake, Bot!heartVars, Bot!gatewayVars, BotInv, HeartHolds, Bot!OneHeart
  <2>3. CASE Bot!Hello
    BY <2>3 DEF Bot!Hello, Bot!gatewayVars, BotInv, HeartHolds, Bot!OneHeart
  <2>4. CASE Bot!Identify \/ Bot!AnswerBeat
    <3>1. /\ UNCHANGED <<session, hearts, open>> /\ at \in {"identify", "beat"}
          /\ at' \in {"read", "leave badly"}
      BY <2>4 DEF Bot!Identify, Bot!AnswerBeat, Bot!Send, Bot!gatewayVars
    <3> QED BY <3>1 DEF BotInv, HeartHolds, Bot!OneHeart
  <2>5. CASE Bot!Leave
    BY <2>5 DEF Bot!Leave, Bot!Cancel, BotInv, HeartHolds, Bot!OneHeart
  <2>6. ASSUME NEW h \in hearts, Bot!Beat(h) PROVE HeartHolds'
    BY <2>6 DEF Bot!Beat, Bot!gatewayVars, BotInv, HeartHolds, Bot!OneHeart
  <2> QED BY <2>1, <2>2, <2>3, <2>4, <2>5, <2>6
<1> QED BY <1>2, <1>4, <1>5 DEF BotInv

\* A message is read, and sent.
LEMMA MessagesKeep ==
    ASSUME BotInv,
           Bot!Read \/ \E op \in Bot!Ops, i \in Invites \cup {0} : Bot!Gateway(op, i)
    PROVE  BotInv'
<1>1. CASE Bot!Read
  <2> DEFINE m == Head(inbox)
  <2>1. m \in Message /\ Tail(inbox) \in Seq(Message)
    <3>1. inbox \in Seq(Message) /\ inbox # <<>>
      BY <1>1 DEF Bot!Read, BotInv, Received
    <3> HIDE DEF m
    <3>2. Head(inbox) \in Message /\ Tail(inbox) \in Seq(Message)
      BY <3>1
    <3> QED BY <3>2 DEF m
  <2>2. /\ inbox' = Tail(inbox) /\ UNCHANGED <<session, open, sent, hearts, row, told>>
        /\ at = "read" /\ answer' = [Bot!NoAnswer EXCEPT !.invite = m.invite]
        /\ at' = CASE m.op = "other" -> "read"
                   [] m.op = "beat please" -> "beat"
                   [] m.op \in {"reconnect", "invalid session"} -> "leave"
                   [] OTHER -> m.op
    BY <1>1 DEF Bot!Read, Bot!gatewayVars, Bot!heartVars
  <2>3. m.op \in Bot!Ops /\ m.invite \in Invites \cup {0}
    BY <2>1 DEF Message
  <2> HIDE DEF m
  <2>4. at' \in {"read", "beat", "leave", "invite", "revoke"}
    BY <2>2, <2>3 DEF Bot!Ops
  <2>5. Received'
    BY <2>1, <2>2 DEF BotInv, Received
  <2>6. HeartHolds'
    BY <2>2, <2>4 DEF BotInv, HeartHolds, Bot!OneHeart
  <2>7. /\ answer' \in [says : Bot!Says, invite : Invites \cup {0}]
        /\ answer'.says = "nothing"
    BY <2>2, <2>3 DEF Bot!NoAnswer, Bot!Says
  <2>8. SaidTruly'
    BY <2>2, <2>7, SaysNothing DEF BotInv
  <2> QED BY <2>5, <2>6, <2>8 DEF BotInv
<1>2. ASSUME NEW op \in Bot!Ops, NEW i \in Invites \cup {0}, Bot!Gateway(op, i) PROVE BotInv'
  <2>1. /\ UNCHANGED <<at, session, open, hearts, answer, row, told>> /\ sent' = sent + 1
        /\ inbox' = Append(inbox, [op |-> op, invite |-> i,
                                   s |-> IF op \in Bot!Dispatches THEN sent' ELSE 0])
    BY <1>2 DEF Bot!Gateway, Bot!heartVars
  <2> DEFINE n == IF op \in Bot!Dispatches THEN sent' ELSE 0
  <2>2. n \in Nat /\ sent' \in Nat
    BY <2>1 DEF BotInv, Received
  <2>3. inbox' = Append(inbox, [op |-> op, invite |-> i, s |-> n])
    BY <2>1
  <2> HIDE DEF n
  <2>4. Received'
    BY <2>2, <2>3 DEF BotInv, Received, Message
  <2>5. HeartHolds'
    BY <2>1 DEF BotInv, HeartHolds, Bot!OneHeart
  <2>6. SaidTruly'
    BY <2>1, SaysNothing DEF BotInv
  <2> QED BY <2>4, <2>5, <2>6 DEF BotInv
<1> QED BY <1>1, <1>2

\* The commands, their replies, and the sign-ups.
LEMMA CommandsKeep ==
    ASSUME BotInv, Bot!Mint \/ Bot!Revoke \/ Bot!Reply \/ \E i \in Invites : Bot!SignUp(i)
    PROVE  BotInv'
<1>1. UNCHANGED <<inbox, sent, session, open, hearts>>
  BY DEF Bot!Mint, Bot!Revoke, Bot!Reply, Bot!SignUp, Bot!gatewayVars, Bot!heartVars
<1>2. Received'
  BY <1>1 DEF BotInv, Received
<1>3. HeartHolds'
  <2>1. at' = at \/ (at \in {"invite", "revoke", "reply"} /\ at' \in {"reply", "read"})
    BY DEF Bot!Mint, Bot!Revoke, Bot!Reply, Bot!SignUp
  <2> QED BY <1>1, <2>1 DEF BotInv, HeartHolds, Bot!OneHeart
<1>4. /\ row \in RowTable /\ told \in [Invites -> Bot!Says]
      /\ answer \in [says : Bot!Says, invite : Invites \cup {0}]
      /\ \A i \in Invites : So(told[i], i)
  BY DEF BotInv, SaidTruly
<1>5. CASE Bot!Mint
  <2>1. PICK i \in Bot!Unminted, outcome \in {"minted", "error"} :
            /\ row' \in {[row EXCEPT ![i] = "unused"]} \cup (IF outcome = "error" THEN {row} ELSE {})
            /\ answer' = [says |-> outcome, invite |-> i]
    BY <1>5 DEF Bot!Mint
  <2>2. i \in Invites /\ row[i] = "none"
    BY DEF Bot!Unminted
  <2>3. UNCHANGED told /\ answer' \in [says : Bot!Says, invite : Invites \cup {0}]
    BY <1>5, <2>1, <2>2 DEF Bot!Mint, Bot!Says
  <2>4. /\ row' \in RowTable /\ (row' = row \/ row'[i] = "unused")
        /\ \A j \in Invites : j # i => row'[j] = row[j]
    BY <1>4, <2>1, <2>2, RowsGrow
  <2>5. \A j \in Invites : So(told[j], j)'
    BY <1>4, <2>2, <2>3, <2>4 DEF So
  <2>6. So(answer.says, answer.invite)'
    <3>1. answer'.says = outcome /\ answer'.invite = i
      BY <2>1
    <3>2. outcome = "minted" => row'[i] = "unused"
      BY <2>1, <2>2, <1>4, RowsGrow
    <3> QED BY <3>1, <3>2 DEF So
  <2> QED BY <1>2, <1>3, <2>3, <2>4, <2>5, <2>6 DEF BotInv, SaidTruly
<1>6. CASE Bot!Revoke
  <2> DEFINE i == answer.invite
             gone == [row EXCEPT ![i] = IF @ = "unused" THEN "gone" ELSE @]
  <2>1. /\ row' \in {row, gone} /\ UNCHANGED told
        /\ \/ row' = gone /\ answer' = [answer EXCEPT !.says = IF row # gone THEN "revoked" ELSE "not revoked"]
           \/ answer' = [answer EXCEPT !.says = "error"]
    BY <1>6 DEF Bot!Revoke
  <2>2. gone \in RowTable /\ \A j \in Invites : gone[j] = row[j] \/ (row[j] = "unused" /\ gone[j] = "gone")
    BY <1>4 DEF RowTable
  <2>3. row # gone => i \in Invites /\ gone[i] = "gone"
    <3>1. ASSUME i \notin Invites PROVE row = gone
      BY <1>4, <3>1 DEF RowTable
    <3>2. ASSUME i \in Invites, gone[i] # "gone" PROVE row = gone
      BY <1>4, <3>2 DEF RowTable
    <3> QED BY <3>1, <3>2
  <2> HIDE DEF gone
  <2>4. /\ answer' \in [says : Bot!Says, invite : Invites \cup {0}] /\ answer'.invite = i
        /\ answer'.says # "minted"
        /\ answer'.says = "revoked" => row' = gone /\ row # gone
    BY <1>4, <2>1 DEF Bot!Says
  <2>5. \A j \in Invites : So(told[j], j)'
    BY <1>4, <2>1, <2>2 DEF So
  <2>6. So(answer.says, answer.invite)'
    BY <2>3, <2>4 DEF So
  <2> QED BY <1>2, <1>3, <1>4, <2>1, <2>2, <2>4, <2>5, <2>6 DEF BotInv, SaidTruly
<1>7. CASE Bot!Reply
  <2>1. /\ at = "reply" /\ at' = "read" /\ answer' = Bot!NoAnswer /\ UNCHANGED row
        /\ told' \in {told, [told EXCEPT ![answer.invite] = answer.says]}
    BY <1>7 DEF Bot!Reply
  <2>2. told' \in [Invites -> Bot!Says]
    BY <1>4, <2>1
  <2>3. \A j \in Invites : told'[j] = told[j] \/ (j = answer.invite /\ told'[j] = answer.says)
    BY <1>4, <2>1
  <2>4. answer.invite \in Invites => So(answer.says, answer.invite)
    BY <2>1 DEF BotInv, SaidTruly
  <2>5. \A j \in Invites : So(told[j], j)'
    BY <1>4, <2>1, <2>3, <2>4 DEF So
  <2> QED BY <1>2, <1>3, <1>4, <2>1, <2>2, <2>5, NothingSaid DEF BotInv, SaidTruly
<1>8. ASSUME NEW i \in Invites, Bot!SignUp(i) PROVE BotInv'
  <2>1. row[i] = "unused" /\ row' = [row EXCEPT ![i] = "used"] /\ UNCHANGED <<told, answer, at>>
    BY <1>8 DEF Bot!SignUp
  <2>2. row' \in RowTable /\ row'[i] = "used" /\ \A j \in Invites : j # i => row'[j] = row[j]
    BY <1>4, <2>1, RowsGrow
  <2>4. \A j \in Invites : So(told[j], j)'
    BY <1>4, <2>1, <2>2 DEF So
  <2>5. at' = "reply" /\ answer'.invite \in Invites => So(answer.says, answer.invite)'
    BY <2>1, <2>2 DEF BotInv, SaidTruly, So
  <2> QED BY <1>2, <1>3, <1>4, <2>1, <2>2, <2>4, <2>5 DEF BotInv, SaidTruly
<1> QED BY <1>5, <1>6, <1>7, <1>8

LEMMA BotStep ==
    ASSUME BotInv, [Bot!Next]_botVars
    PROVE  BotInv' /\ (closing => session' = session)
<1>1. BotInv'
  <2>1. CASE UNCHANGED botVars
    BY <2>1 DEF botVars, BotInv, Received, HeartHolds, Bot!OneHeart, SaidTruly, So
  <2> QED BY <2>1, LoopKeeps, MessagesKeep, CommandsKeep DEF Bot!Next, Bot!Loop
<1>2. closing => session' = session
  BY DEF botVars, Bot!Next, Bot!Loop, Bot!Stop, Bot!Check, Bot!Wake, Bot!Hello, Bot!Identify,
     Bot!AnswerBeat, Bot!Send, Bot!Read, Bot!ReadEnds, Bot!Leave, Bot!Mint, Bot!Revoke, Bot!Reply,
     Bot!Drop, Bot!Beat, Bot!Gateway, Bot!SignUp, Bot!gatewayVars
<1> QED BY <1>1, <1>2

-----------------------------------------------------------------------------
(* The roots of the local library, and the streams that start from them.   *)

Standing == [at : {"idle", "config", "query", "store", "lookup", "expired", "scanned", "playing",
                   "crashed"},
             for : {"play", "list", "scan"}, got : BOOLEAN, since : Nat, late : BOOLEAN]
KeptRoots == {None} \cup [kept : {TRUE}, val : BOOLEAN, at : Nat]

\* While no read failed, every copy of a root that is on is as old as a moment it was on.
LocalInv ==
    /\ now \in Nat /\ lastServed \in Nat /\ lastServed <= now /\ (served => lastServed = now)
    /\ served \in BOOLEAN /\ failed \in Nat
    /\ roots \in KeptRoots /\ request \in [Requests -> Standing]
    /\ \A r \in Requests : request[r].since <= now
    /\ failed = 0 =>
         /\ roots.kept /\ roots.val => roots.at <= lastServed
         /\ \A r \in Requests :
              request[r].at = "store" /\ request[r].got => request[r].since <= lastServed

\* What StreamsEnd says of a step.
EndsInTime(r) == Starts(r) /\ failed = 0 =>
                     request[r].since <= lastServed \/ now - lastServed < RootsTTL

LEMMA LocalInit == Init => LocalInv
  BY DEF Init, LocalInv, Standing, KeptRoots, None, Idle

LEMMA RootsKept == ASSUME LocalInv, roots.kept PROVE roots.val \in BOOLEAN /\ roots.at \in Nat
<1>1. ASSUME roots = None PROVE FALSE
  <2>1. None.kept = FALSE
    BY DEF None
  <2> QED BY <1>1, <2>1
<1>2. roots \in [kept : {TRUE}, val : BOOLEAN, at : Nat]
  BY <1>1 DEF LocalInv, KeptRoots
<1> QED BY <1>2

\* A thread that goes on to where nothing of the roots is held.
LEMMA ThreadMoves ==
    ASSUME LocalInv, NEW r \in Requests, NEW to \in Standing,
           request' = [request EXCEPT ![r] = to], UNCHANGED <<served, roots, now, lastServed>>,
           failed' \in Nat, failed' = 0 => failed = 0, to.since <= now,
           failed' = 0 /\ to.at = "store" /\ to.got => to.since <= lastServed
    PROVE  LocalInv' /\ request'[r] = to /\ \A q \in Requests : q # r => request'[q] = request[q]
<1>1. /\ request' \in [Requests -> Standing] /\ request'[r] = to
      /\ \A q \in Requests : q # r => request'[q] = request[q]
  BY DEF LocalInv
<1> QED BY <1>1 DEF LocalInv

\* An answer leaves the thread with nothing of the roots.
LEMMA AnswerMoves ==
    ASSUME LocalInv, NEW r \in Requests, NEW val \in BOOLEAN, Answer(r, val)
    PROVE  \E to \in Standing :
              /\ request' = [request EXCEPT ![r] = to] /\ to.since = 0 /\ to.at # "store"
              /\ to.at = "playing" => val
<1> DEFINE A == [Idle EXCEPT !.at = "scanned", !.got = val]
           B == [Idle EXCEPT !.at = "lookup"]
           C == [Idle EXCEPT !.at = "playing"]
<1>1. /\ A \in Standing /\ A.since = 0 /\ A.at = "scanned"
      /\ B \in Standing /\ B.since = 0 /\ B.at = "lookup"
      /\ C \in Standing /\ C.since = 0 /\ C.at = "playing"
      /\ Idle \in Standing /\ Idle.since = 0 /\ Idle.at = "idle"
  BY DEF Idle, Standing
<1>2. \/ request' = [request EXCEPT ![r] = A] \/ request' = [request EXCEPT ![r] = B]
      \/ (val /\ request' = [request EXCEPT ![r] = C]) \/ request' = [request EXCEPT ![r] = Idle]
  BY DEF Answer
<1> HIDE DEF A, B, C
<1> QED BY <1>1, <1>2

LEMMA LocalStep ==
    ASSUME LocalInv, [Next]_vars
    PROVE  LocalInv' /\ \A r \in Requests : EndsInTime(r)
<1>1. CASE UNCHANGED vars
  BY <1>1 DEF vars, LocalInv, EndsInTime, Starts
<1>2. ASSUME NEW r \in Requests, Ask(r) PROVE LocalInv' /\ \A q \in Requests : EndsInTime(q)
  <2>1. PICK what \in {"play", "list"} :
           request' = [request EXCEPT ![r] =
             [at |-> "config", for |-> what, got |-> FALSE, since |-> now,
              late |-> what = "play" /\ ~served /\ ~changing]]
    BY <1>2 DEF Ask
  <2> DEFINE to == [at |-> "config", for |-> what, got |-> FALSE, since |-> now,
                    late |-> what = "play" /\ ~served /\ ~changing]
  <2>2. to \in Standing /\ to.at = "config" /\ to.since = now
    BY DEF Standing, LocalInv
  <2>3. request' = [request EXCEPT ![r] = to] /\ UNCHANGED <<served, roots, now, lastServed, failed>>
    BY <1>2, <2>1 DEF Ask
  <2> HIDE DEF to
  <2>4. LocalInv' /\ request'[r] = to /\ \A q \in Requests : q # r => request'[q] = request[q]
    BY <2>2, <2>3, ThreadMoves DEF LocalInv
  <2> QED BY <2>2, <2>4 DEF EndsInTime, Starts
<1>3. ASSUME NEW r \in Requests, ReadRoots(r) PROVE LocalInv' /\ \A q \in Requests : EndsInTime(q)
  <2>1. UNCHANGED <<served, roots, now, lastServed, failed>>
    BY <1>3 DEF ReadRoots
  <2>2. CASE roots.kept /\ now - roots.at < RootsTTL
    <3>1. Answer(r, roots.val) /\ roots.val \in BOOLEAN /\ roots.at \in Nat
      BY <1>3, <2>2, RootsKept DEF ReadRoots
    <3>2. PICK to \in Standing :
             /\ request' = [request EXCEPT ![r] = to] /\ to.since = 0 /\ to.at # "store"
             /\ to.at = "playing" => roots.val
      BY <3>1, AnswerMoves
    <3>3. LocalInv' /\ request'[r] = to /\ \A q \in Requests : q # r => request'[q] = request[q]
      BY <2>1, <3>2, ThreadMoves DEF LocalInv
    <3>4. failed = 0 /\ roots.val => now - lastServed < RootsTTL
      BY <2>2, <3>1, TimesAssumption DEF LocalInv
    <3> QED BY <3>2, <3>3, <3>4 DEF EndsInTime, Starts
  <2>3. CASE ~(roots.kept /\ now - roots.at < RootsTTL)
    <3> DEFINE to == [request[r] EXCEPT !.at = "query", !.since = now]
    <3>1. request' = [request EXCEPT ![r] = to]
      BY <1>3, <2>3 DEF ReadRoots, LocalInv
    <3>2. to \in Standing /\ to.since = now /\ to.at = "query"
      BY DEF LocalInv, Standing
    <3> HIDE DEF to
    <3>3. LocalInv' /\ request'[r] = to /\ \A q \in Requests : q # r => request'[q] = request[q]
      BY <2>1, <3>1, <3>2, ThreadMoves DEF LocalInv
    <3> QED BY <3>2, <3>3 DEF EndsInTime, Starts
  <2> QED BY <2>2, <2>3
<1>4. ASSUME NEW r \in Requests, QueryRoots(r) PROVE LocalInv' /\ \A q \in Requests : EndsInTime(q)
  <2>1. PICK got \in BOOLEAN :
          /\ request' = [request EXCEPT ![r].at = "store", ![r].got = got]
          /\ UNCHANGED <<served, roots, now, lastServed>>
          /\ \/ got = served /\ UNCHANGED failed
             \/ failed' = failed + 1
    <3>1. served \in BOOLEAN /\ (roots.kept /\ roots.val) \in BOOLEAN
      BY DEF LocalInv
    <3> QED BY <1>4, <3>1 DEF QueryRoots
  <2> DEFINE to == [request[r] EXCEPT !.at = "store", !.got = got]
  <2>2. request' = [request EXCEPT ![r] = to]
    BY <2>1 DEF LocalInv
  <2>3. to \in Standing /\ to.since = request[r].since /\ to.at = "store" /\ to.got = got
    BY DEF LocalInv, Standing
  <2>4. failed' \in Nat /\ (failed' = 0 => failed = 0 /\ got = served)
    BY <2>1 DEF LocalInv
  <2>5. failed' = 0 /\ to.got => to.since <= lastServed
    BY <2>3, <2>4 DEF LocalInv
  <2>6. to.since <= now
    BY <2>3 DEF LocalInv
  <2> HIDE DEF to
  <2>7. LocalInv' /\ request'[r] = to /\ \A q \in Requests : q # r => request'[q] = request[q]
    BY <2>1, <2>2, <2>3, <2>4, <2>5, <2>6, ThreadMoves
  <2> QED BY <2>3, <2>7 DEF EndsInTime, Starts
<1>5. ASSUME NEW r \in Requests, StoreRoots(r) PROVE LocalInv' /\ \A q \in Requests : EndsInTime(q)
  <2>1. /\ request[r].at = "store" /\ UNCHANGED <<served, now, lastServed, failed>>
        /\ roots' = [kept |-> TRUE, val |-> request[r].got, at |-> request[r].since]
        /\ Answer(r, request[r].got)
    BY <1>5 DEF StoreRoots, Held
  <2>2. request[r].got \in BOOLEAN /\ request[r].since \in Nat
    BY DEF LocalInv, Standing
  <2>3. PICK to \in Standing :
           /\ request' = [request EXCEPT ![r] = to] /\ to.since = 0 /\ to.at # "store"
           /\ to.at = "playing" => request[r].got
    BY <2>1, <2>2, AnswerMoves
  <2>4. /\ request' \in [Requests -> Standing] /\ request'[r] = to
        /\ \A q \in Requests : q # r => request'[q] = request[q]
    BY <2>3 DEF LocalInv
  <2>5. failed = 0 /\ request[r].got => request[r].since <= lastServed
    BY <2>1 DEF LocalInv
  <2>6. roots' \in KeptRoots /\ roots'.kept /\ roots'.val = request[r].got /\ roots'.at = request[r].since
    BY <2>1, <2>2 DEF KeptRoots
  <2>7. LocalInv'
    BY <2>1, <2>3, <2>4, <2>5, <2>6 DEF LocalInv
  <2> QED BY <2>3, <2>4, <2>5, <2>7 DEF EndsInTime, Starts
<1>6. ASSUME NEW r \in Requests, LookUp(r) \/ DropExpired(r) \/ KeepScan(r) \/ Done(r)
      PROVE LocalInv' /\ \A q \in Requests : EndsInTime(q)
  <2> DEFINE E == [Idle EXCEPT !.at = "expired"]
             F == [Idle EXCEPT !.at = "crashed"]
  <2>1. /\ UNCHANGED <<served, roots, now, lastServed, failed>>
        /\ \E to \in {E, F, Idle, ScanFirst} : request' = [request EXCEPT ![r] = to]
    BY <1>6 DEF LookUp, DropExpired, KeepScan, Done
  <2>2. /\ E \in Standing /\ E.since = 0 /\ E.at = "expired"
        /\ F \in Standing /\ F.since = 0 /\ F.at = "crashed"
        /\ Idle \in Standing /\ Idle.since = 0 /\ Idle.at = "idle"
    BY DEF Idle, Standing
  <2>3. ScanFirst \in Standing /\ ScanFirst.since = now /\ ScanFirst.at = "config"
    BY DEF ScanFirst, Idle, Standing, LocalInv
  <2> HIDE DEF E, F
  <2>4. PICK to \in Standing : /\ request' = [request EXCEPT ![r] = to] /\ to.since <= now
                               /\ to.at # "store" /\ to.at # "playing"
    <3>1. now \in Nat
      BY DEF LocalInv
    <3>2. \A to \in {E, F, Idle, ScanFirst} :
             to \in Standing /\ to.since <= now /\ to.at # "store" /\ to.at # "playing"
      BY <2>2, <2>3, <3>1
    <3>3. {E, F, Idle, ScanFirst} \subseteq Standing
      BY <2>2, <2>3
    <3> QED BY <2>1, <3>2, <3>3
  <2>5. LocalInv' /\ request'[r] = to /\ \A q \in Requests : q # r => request'[q] = request[q]
    BY <2>1, <2>4, ThreadMoves DEF LocalInv
  <2> QED BY <2>4, <2>5 DEF EndsInTime, Starts
<1>7. CASE Change \/ Bump \/ Tick
  <2>1. UNCHANGED <<request, failed>>
    BY <1>7 DEF Change, Bump, Tick
  <2>2. \A q \in Requests : EndsInTime(q)
    BY <2>1 DEF EndsInTime, Starts
  <2>3. CASE Change
    <3>1. lastServed' = now /\ now' = now /\ roots' = roots /\ served' = ~served
      BY <2>3 DEF Change
    <3>2. now \in Nat /\ lastServed \in Nat /\ lastServed <= now /\ served' \in BOOLEAN
      BY <3>1 DEF LocalInv
    <3>3. \A r \in Requests : request[r].since \in Nat /\ request[r].since <= now
      BY DEF LocalInv, Standing
    <3>4. roots.kept => roots.at \in Nat
      BY RootsKept
    <3>5. \A a \in Nat : a <= lastServed => a <= lastServed'
      BY <3>1, <3>2
    <3> QED BY <2>1, <2>2, <3>1, <3>2, <3>3, <3>4, <3>5 DEF LocalInv
  <2>4. CASE Bump
    <3>1. roots' = None /\ UNCHANGED <<served, now, lastServed>>
      BY <2>4 DEF Bump
    <3>2. roots' \in KeptRoots /\ ~roots'.kept
      BY <3>1 DEF KeptRoots, None
    <3> QED BY <2>1, <2>2, <3>1, <3>2 DEF LocalInv
  <2>5. CASE Tick
    <3>1. /\ now' = now + 1 /\ UNCHANGED <<roots, served>>
          /\ lastServed' = IF served THEN now + 1 ELSE lastServed
      BY <2>5 DEF Tick
    <3>2. /\ now' \in Nat /\ lastServed' \in Nat /\ lastServed' <= now' /\ lastServed <= lastServed'
          /\ served' => lastServed' = now'
      BY <3>1 DEF LocalInv
    <3>3. now <= now'
      BY <3>1 DEF LocalInv
    <3>4. \A r \in Requests : request[r].since \in Nat
      BY DEF LocalInv, Standing
    <3>5. roots.kept => roots.at \in Nat
      BY RootsKept
    <3> QED BY <2>1, <2>2, <3>1, <3>2, <3>3, <3>4, <3>5 DEF LocalInv
  <2> QED BY <1>7, <2>3, <2>4, <2>5
<1> QED BY <1>1, <1>2, <1>3, <1>4, <1>5, <1>6, <1>7 DEF Next

-----------------------------------------------------------------------------
(* The chat: what its requests may still spend, and what they may still    *)
(* save.                                                                   *)

\* A request, and the number of a round that it may still be charged for.
Owed(h, n) == \/ h.at \in {"within", "opened", "model", "turn"} /\ n > h.round
              \/ h.at = "tools" /\ n > h.round + 1
Pending == {p \in Requests \X (1..Rounds) : Owed(chat[p[1]], p[2])}

Chatter == [at : {"idle", "gated", "within", "opened", "model", "turn", "tools", "answered", "question",
                  "answer"},
            user : Budgets \cup {Chatting!None}, conv : Nat, round : Nat, calls : Nat, said : BOOLEAN]

\* A round is under way only below the last, and none before the model is asked.
Rounded(h) == /\ h.at \in {"idle", "gated"} => h.round = 0
              /\ h.at \in {"within", "opened", "model", "turn", "tools"} => h.round < Rounds

Settings == [awake : BOOLEAN, budget : Budgets, own : Budgets \cup {Chatting!None}]

ChatTyped ==
    /\ ledger \in Nat /\ ids \in Nat /\ chat \in [Requests -> Chatter] /\ \A c \in Requests : Rounded(chat[c])
    /\ operator \in Settings
    /\ DOMAIN messages \subseteq 1..ids
    /\ \A k \in DOMAIN messages : messages[k] \in Seq({"user", "assistant"})

\* The rounds still to come are within the bound, with what is spent.
Within ==
    0 \notin Budgets =>
      ledger + Cardinality(Pending) * Cost < Chatting!Top + Cardinality(Requests) * Rounds * Cost

\* The rows of a role among the first n, and the requests whose answer is still to be saved.
Rows(rows, n, role) == {i \in 1..n : rows[i] = role}
Behind(rows) == \A n \in 0..Len(rows) :
    Cardinality(Rows(rows, n, "assistant")) <= Cardinality(Rows(rows, n, "user"))
ToSave(k) == {c \in Requests : chat[c].at = "answer" /\ chat[c].conv = k}
Room(k) == Cardinality(Rows(messages[k], Len(messages[k]), "assistant")) + Cardinality(ToSave(k))
           <= Cardinality(Rows(messages[k], Len(messages[k]), "user"))
Behindhand == /\ \A c \in Requests : chat[c].conv <= ids
              /\ \A k \in DOMAIN messages : Behind(messages[k]) /\ Room(k)

ChatInv == ChatTyped /\ Within /\ Behindhand

\* Pairs of a set's members with the first numbers are no more than the product.
LEMMA PairsBounded ==
    ASSUME NEW S, IsFiniteSet(S), NEW n \in Nat
    PROVE  IsFiniteSet(S \X (1..n)) /\ Cardinality(S \X (1..n)) <= Cardinality(S) * n
<1> DEFINE m == Cardinality(S)
           P == S \X (1..n)
<1>1. m \in Nat /\ ExistsBijection(1..m, S)
  BY FS_CardinalityType
<1>2. PICK f \in [1..m -> S] : \A c \in S : \E i \in 1..m : f[i] = c
  BY <1>1 DEF ExistsBijection, Bijection, Surjection
<1> DEFINE idx == [c \in S |-> CHOOSE i \in 1..m : f[i] = c]
<1>3. \A c \in S : idx[c] \in 1..m /\ f[idx[c]] = c
  BY <1>2
<1> HIDE DEF idx, m
<1>4. \A i, j \in 1..m, a, b \in 1..n : i < j => (i - 1) * n + a < (j - 1) * n + b
  <2> SUFFICES ASSUME NEW i \in 1..m, NEW j \in 1..m, NEW a \in 1..n, NEW b \in 1..n, i < j
               PROVE  (i - 1) * n + a < (j - 1) * n + b
    OBVIOUS
  <2>1. i * n <= (j - 1) * n
    <3>1. i \in Nat /\ j - 1 \in Nat /\ i <= j - 1
      BY <1>1
    <3>2. PICK d \in Nat : j - 1 = i + d
      BY <3>1
    <3>3. (i + d) * n = i * n + d * n /\ d * n \in Nat /\ i * n \in Nat
      BY <3>1, <3>2
    <3> QED BY <3>2, <3>3
  <2>2. (i - 1) * n = i * n - n
    BY <1>1
  <2>3. i * n \in Int /\ (j - 1) * n \in Int
    BY <1>1
  <2> QED BY <2>1, <2>2, <2>3
<1>5. \A i \in 1..m, a \in 1..n : (i - 1) * n + a \in 1..(m * n)
  <2> SUFFICES ASSUME NEW i \in 1..m, NEW a \in 1..n PROVE (i - 1) * n + a \in 1..(m * n)
    OBVIOUS
  <2>1. PICK d \in Nat : m = i + d
    BY <1>1
  <2>2. (i + d) * n = i * n + d * n /\ d * n \in Nat /\ i * n \in Nat
    BY <1>1
  <2>3. (i - 1) * n = i * n - n
    BY <1>1
  <2>4. (i - 1) * n \in Nat
    BY <1>1
  <2> QED BY <2>1, <2>2, <2>3, <2>4
<1> DEFINE g == [p \in P |-> (idx[p[1]] - 1) * n + p[2]]
<1>6. \A p \in P : p[1] \in S /\ p[2] \in 1..n /\ p = <<p[1], p[2]>>
  OBVIOUS
<1>7. \A p \in P : g[p] \in 1..(m * n)
  BY <1>3, <1>5, <1>6
<1>8. \A p, q \in P : g[p] = g[q] => p = q
  <2> SUFFICES ASSUME NEW p \in P, NEW q \in P, g[p] = g[q] PROVE p = q
    OBVIOUS
  <2>1. (idx[p[1]] - 1) * n + p[2] = (idx[q[1]] - 1) * n + q[2]
    OBVIOUS
  <2>2. idx[p[1]] \in 1..m /\ idx[q[1]] \in 1..m /\ p[2] \in 1..n /\ q[2] \in 1..n
    BY <1>3, <1>6
  <2> DEFINE i == idx[p[1]]
             j == idx[q[1]]
             a == p[2]
             b == q[2]
  <2>3. i \in 1..m /\ j \in 1..m /\ a \in 1..n /\ b \in 1..n /\ (i - 1) * n + a = (j - 1) * n + b
    BY <2>1, <2>2
  <2> HIDE DEF i, j, a, b
  <2>4. i = j
    <3>1. (i - 1) * n \in Int /\ (j - 1) * n \in Int
      BY <1>1, <2>3
    <3>2. ~(i < j) /\ ~(j < i)
      BY <1>4, <2>3, <3>1
    <3> QED BY <1>1, <2>3, <3>2
  <2>5. a = b
    <3>1. (i - 1) * n \in Int
      BY <1>1, <2>3
    <3> QED BY <2>3, <2>4, <3>1
  <2>6. p[1] = q[1]
    BY <1>3, <1>6, <2>4 DEF i, j
  <2> QED BY <1>6, <2>5, <2>6 DEF a, b
<1> DEFINE T == 1..(m * n)
<1>9. g \in Injection(P, T)
  <2>1. g \in [P -> T]
    BY <1>7
  <2> HIDE DEF g, P, T
  <2>2. \A p, q \in P : g[p] = g[q] => p = q
    BY <1>8
  <2>3. DOMAIN g = P
    BY <2>1
  <2>4. IsInjective(g)
    BY <2>2, <2>3 DEF IsInjective
  <2> QED BY <2>1, <2>4 DEF Injection
<1>10. m * n \in Nat
  BY <1>1
<1>11. IsFiniteSet(T) /\ Cardinality(T) = m * n
  BY <1>10, FS_Interval
<1> HIDE DEF g, P, T
<1>12. IsFiniteSet(P) /\ Cardinality(P) <= m * n
  BY <1>9, <1>11, FS_Injection
<1> QED BY <1>12 DEF P, m

-----------------------------------------------------------------------------
(* Rows of a conversation.                                                 *)

Roles == {"user", "assistant"}

LEMMA RowsFinite ==
    \A rows, n, role : n \in Nat =>
        IsFiniteSet(Rows(rows, n, role)) /\ Cardinality(Rows(rows, n, role)) \in Nat
<1> SUFFICES ASSUME NEW rows, NEW n \in Nat, NEW role
             PROVE  /\ IsFiniteSet(Rows(rows, n, role))
                    /\ Cardinality(Rows(rows, n, role)) \in Nat
  OBVIOUS
<1>1. IsFiniteSet(1..n)
  BY FS_Interval
<1>2. Rows(rows, n, role) \in SUBSET (1..n)
  BY DEF Rows
<1>3. IsFiniteSet(Rows(rows, n, role))
  BY <1>1, <1>2, FS_Subset
<1> QED BY <1>3, FS_CardinalityType

\* A new row is counted for its role, and changes no prefix.
LEMMA RowsAppend ==
    ASSUME NEW rows \in Seq(Roles), NEW role \in Roles
    PROVE  /\ Append(rows, role) \in Seq(Roles) /\ Len(rows) \in Nat
           /\ Len(Append(rows, role)) = Len(rows) + 1
           /\ \A n \in 0..Len(rows), s \in Roles :
                 Rows(Append(rows, role), n, s) = Rows(rows, n, s)
           /\ \A s \in Roles :
                 Cardinality(Rows(Append(rows, role), Len(rows) + 1, s)) =
                     Cardinality(Rows(rows, Len(rows), s)) + (IF s = role THEN 1 ELSE 0)
<1> DEFINE new == Append(rows, role)
           m == Len(rows)
<1>1. /\ new \in Seq(Roles) /\ m \in Nat /\ Len(new) = m + 1
      /\ \A i \in 1..m : new[i] = rows[i]
      /\ new[m + 1] = role
  OBVIOUS
<1> HIDE DEF new, m
<1>2. \A n \in 0..m, s \in Roles : Rows(new, n, s) = Rows(rows, n, s)
  BY <1>1 DEF Rows
<1>3. ASSUME NEW s \in Roles
      PROVE  Cardinality(Rows(new, m + 1, s)) =
                 Cardinality(Rows(rows, m, s)) + (IF s = role THEN 1 ELSE 0)
  <2>1. IsFiniteSet(Rows(rows, m, s)) /\ Cardinality(Rows(rows, m, s)) \in Nat
    BY <1>1, RowsFinite
  <2>2. CASE s = role
    <3>1. Rows(new, m + 1, s) = Rows(rows, m, s) \cup {m + 1}
      <4>1. \A i \in 1..(m + 1) : i \in 1..m \/ i = m + 1
        BY <1>1
      <4>2. \A i \in 1..m : i \in 1..(m + 1)
        BY <1>1
      <4>3. m + 1 \in 1..(m + 1)
        BY <1>1
      <4> QED BY <1>1, <2>2, <4>1, <4>2, <4>3 DEF Rows
    <3>2. m + 1 \notin Rows(rows, m, s)
      BY <1>1 DEF Rows
    <3>3. Cardinality(Rows(rows, m, s) \cup {m + 1}) = Cardinality(Rows(rows, m, s)) + 1
      BY <2>1, <3>2, FS_AddElement
    <3> QED BY <2>2, <3>1, <3>3
  <2>3. CASE s # role
    <3>1. Rows(new, m + 1, s) = Rows(rows, m, s)
      <4>1. \A i \in 1..(m + 1) : i \in 1..m \/ i = m + 1
        BY <1>1
      <4>2. \A i \in 1..m : i \in 1..(m + 1)
        BY <1>1
      <4> QED BY <1>1, <2>3, <4>1, <4>2 DEF Rows
    <3> QED BY <2>1, <2>3, <3>1
  <2> QED BY <2>2, <2>3
<1> QED BY <1>1, <1>2, <1>3 DEF new, m

\* A question leaves room for one answer more; an answer fits where there is room.
LEMMA BehindAppend ==
    ASSUME NEW rows \in Seq(Roles), NEW role \in Roles, Behind(rows),
           role = "user" \/ Cardinality(Rows(rows, Len(rows), "assistant")) + 1
                            <= Cardinality(Rows(rows, Len(rows), "user"))
    PROVE  Behind(Append(rows, role))
<1> DEFINE new == Append(rows, role)
           m == Len(rows)
<1>1. /\ m \in Nat /\ Len(new) = m + 1
      /\ \A n \in 0..m, s \in Roles : Rows(new, n, s) = Rows(rows, n, s)
      /\ \A s \in Roles : Cardinality(Rows(new, m + 1, s)) =
                              Cardinality(Rows(rows, m, s)) + (IF s = role THEN 1 ELSE 0)
  BY RowsAppend
<1>2. /\ Cardinality(Rows(rows, m, "assistant")) \in Nat /\ Cardinality(Rows(rows, m, "user")) \in Nat
      /\ "user" \in Roles /\ "assistant" \in Roles
  BY <1>1, RowsFinite DEF Roles
<1>3. Cardinality(Rows(rows, m, "assistant")) <= Cardinality(Rows(rows, m, "user"))
  BY <1>1 DEF Behind
<1> HIDE DEF new
<1>4. Cardinality(Rows(new, m + 1, "assistant")) <= Cardinality(Rows(new, m + 1, "user"))
  <2>1. CASE role = "user"
    <3>1. /\ Cardinality(Rows(new, m + 1, "assistant")) = Cardinality(Rows(rows, m, "assistant"))
          /\ Cardinality(Rows(new, m + 1, "user")) = Cardinality(Rows(rows, m, "user")) + 1
      BY <1>1, <1>2, <2>1
    <3> QED BY <1>2, <1>3, <3>1
  <2>2. CASE role = "assistant"
    <3>1. /\ Cardinality(Rows(new, m + 1, "assistant")) = Cardinality(Rows(rows, m, "assistant")) + 1
          /\ Cardinality(Rows(new, m + 1, "user")) = Cardinality(Rows(rows, m, "user"))
      BY <1>1, <1>2, <2>2
    <3> QED BY <1>2, <2>2, <3>1
  <2> QED BY <2>1, <2>2 DEF Roles
<1>5. ASSUME NEW n \in 0..(m + 1)
      PROVE  Cardinality(Rows(new, n, "assistant")) <= Cardinality(Rows(new, n, "user"))
  <2>1. n \in 0..m \/ n = m + 1
    BY <1>1
  <2>2. CASE n \in 0..m
    BY <1>1, <1>2, <2>2 DEF Behind
  <2> QED BY <1>4, <2>1, <2>2
<1> QED BY <1>1, <1>5 DEF Behind, new

-----------------------------------------------------------------------------
(* What is still to be spent.                                              *)

LEMMA Multiples == \A a, b, c \in Nat : a <= b => a * c \in Nat /\ b * c \in Nat /\ a * c <= b * c
<1> SUFFICES ASSUME NEW a \in Nat, NEW b \in Nat, NEW c \in Nat, a <= b
             PROVE  a * c \in Nat /\ b * c \in Nat /\ a * c <= b * c
  OBVIOUS
<1>1. PICK d \in Nat : b = a + d
  OBVIOUS
<1>2. (a + d) * c = a * c + d * c /\ a * c \in Nat /\ d * c \in Nat
  OBVIOUS
<1> QED BY <1>1, <1>2

LEMMA TopIsHighest == Chatting!Top \in Budgets /\ \A o \in Budgets : o <= Chatting!Top
  BY BudgetAssumption DEF Chatting!Top

LEMMA PairsFinite ==
    ASSUME NEW P \in SUBSET (Requests \X (1..Rounds))
    PROVE  /\ IsFiniteSet(P) /\ Cardinality(P) \in Nat /\ Cardinality(Requests) * Rounds \in Nat
           /\ Cardinality(P) <= Cardinality(Requests) * Rounds
<1>1. IsFiniteSet(Requests) /\ Rounds \in Nat
  BY BudgetAssumption
<1>2. /\ IsFiniteSet(Requests \X (1..Rounds))
      /\ Cardinality(Requests \X (1..Rounds)) <= Cardinality(Requests) * Rounds
  BY <1>1, PairsBounded
<1>3. IsFiniteSet(P) /\ Cardinality(P) <= Cardinality(Requests \X (1..Rounds))
  BY <1>2, FS_Subset
<1>4. /\ Cardinality(P) \in Nat /\ Cardinality(Requests \X (1..Rounds)) \in Nat
      /\ Cardinality(Requests) \in Nat
  BY <1>1, <1>2, <1>3, FS_CardinalityType
<1>5. Cardinality(Requests) * Rounds \in Nat
  BY <1>1, <1>4
<1> QED BY <1>2, <1>3, <1>4, <1>5

LEMMA PendingPairs == Pending \in SUBSET (Requests \X (1..Rounds))
  BY DEF Pending

\* Less is spent and less is owed.
LEMMA Fewer ==
    ASSUME Within, ledger \in Nat, ledger' \in Nat, ledger' <= ledger, Pending' \subseteq Pending
    PROVE  Within'
<1>1. IsFiniteSet(Pending) /\ Cardinality(Pending) \in Nat
  BY PendingPairs, PairsFinite
<1>2. Cardinality(Pending') <= Cardinality(Pending) /\ Cardinality(Pending') \in Nat
  BY <1>1, FS_Subset, FS_CardinalityType
<1>3. Cost \in Nat
  BY BudgetAssumption
<1>4. /\ Cardinality(Pending') * Cost <= Cardinality(Pending) * Cost
      /\ Cardinality(Pending') * Cost \in Nat /\ Cardinality(Pending) * Cost \in Nat
  BY <1>1, <1>2, <1>3, Multiples
<1>5. ASSUME 0 \notin Budgets
      PROVE  ledger' + Cardinality(Pending') * Cost
               < Chatting!Top + Cardinality(Requests) * Rounds * Cost
  <2>1. ledger + Cardinality(Pending) * Cost < Chatting!Top + Cardinality(Requests) * Rounds * Cost
    BY <1>5 DEF Within
  <2>2. Chatting!Top \in Nat
    BY TopIsHighest, BudgetAssumption
  <2>3. Cardinality(Requests) * Rounds \in Nat /\ Cardinality(Requests) * Rounds * Cost \in Nat
    BY <1>3, PendingPairs, PairsFinite, Multiples
  <2> HIDE DEF Pending
  <2> QED BY <1>4, <2>1, <2>2, <2>3
<1> QED BY <1>5 DEF Within

\* A ledger below the highest ceiling is in bounds whatever is owed.
LEMMA BelowTop ==
    ASSUME ledger' \in Nat, 0 \notin Budgets => ledger' < Chatting!Top PROVE Within'
<1>1. Pending' \in SUBSET (Requests \X (1..Rounds))
  BY DEF Pending
<1>2. /\ Cardinality(Pending') \in Nat /\ Cardinality(Requests) * Rounds \in Nat
      /\ Cardinality(Pending') <= Cardinality(Requests) * Rounds
  BY <1>1, PairsFinite
<1>3. Cost \in Nat
  BY BudgetAssumption
<1>4. /\ Cardinality(Pending') * Cost <= Cardinality(Requests) * Rounds * Cost
      /\ Cardinality(Pending') * Cost \in Nat /\ Cardinality(Requests) * Rounds * Cost \in Nat
  BY <1>2, <1>3, Multiples
<1>5. Chatting!Top \in Nat
  BY TopIsHighest, BudgetAssumption
<1> QED BY <1>4, <1>5 DEF Within

\* A round's charge is no more than what was owed for it.
LEMMA Charged ==
    ASSUME Within, ledger \in Nat, NEW p \in Pending, Pending' \subseteq Pending \ {p},
           NEW n \in 1..Cost, ledger' = ledger + n
    PROVE  Within'
<1>1. IsFiniteSet(Pending) /\ Cardinality(Pending) \in Nat
  BY PendingPairs, PairsFinite
<1>2. IsFiniteSet(Pending \ {p}) /\ Cardinality(Pending \ {p}) = Cardinality(Pending) - 1
  BY <1>1, FS_RemoveElement
<1>3. Cardinality(Pending') <= Cardinality(Pending) - 1 /\ Cardinality(Pending') \in Nat
  BY <1>2, FS_Subset, FS_CardinalityType
<1>4. Cost \in Nat /\ ledger' \in Nat /\ ledger' <= ledger + Cost
  BY BudgetAssumption
<1> DEFINE k == Cardinality(Pending)
           l == Cardinality(Pending')
<1>5. k \in Nat /\ l \in Nat /\ l <= k - 1 /\ k - 1 \in Nat
  BY <1>1, <1>3
<1> HIDE DEF k, l
<1>6. l * Cost <= (k - 1) * Cost /\ l * Cost \in Nat
  BY <1>4, <1>5, Multiples
<1>7. (k - 1) * Cost = k * Cost - Cost /\ k * Cost \in Nat
  BY <1>4, <1>5
<1>8. ASSUME 0 \notin Budgets
      PROVE  ledger' + l * Cost < Chatting!Top + Cardinality(Requests) * Rounds * Cost
  <2>1. ledger + k * Cost < Chatting!Top + Cardinality(Requests) * Rounds * Cost
    BY <1>8 DEF Within, k
  <2>2. Chatting!Top \in Nat
    BY TopIsHighest, BudgetAssumption
  <2>3. Cardinality(Requests) * Rounds \in Nat /\ Cardinality(Requests) * Rounds * Cost \in Nat
    BY <1>4, PendingPairs, PairsFinite, Multiples
  <2> QED BY <1>4, <1>6, <1>7, <2>1, <2>2, <2>3
<1> QED BY <1>8 DEF Within, l

-----------------------------------------------------------------------------
(* The chat's steps.                                                       *)

LEMMA ToSaveFinite == \A k : IsFiniteSet(ToSave(k)) /\ Cardinality(ToSave(k)) \in Nat
<1> SUFFICES ASSUME NEW k PROVE IsFiniteSet(ToSave(k)) /\ Cardinality(ToSave(k)) \in Nat
  OBVIOUS
<1>1. ToSave(k) \in SUBSET Requests /\ IsFiniteSet(Requests)
  BY BudgetAssumption DEF ToSave
<1> QED BY <1>1, FS_Subset, FS_CardinalityType

\* A request that owes no more than before and is not about to save an answer.
LEMMA ChatMoves ==
    ASSUME ChatTyped, NEW c \in Requests, NEW h \in Chatter, Rounded(h),
           chat' = [chat EXCEPT ![c] = h]
    PROVE  /\ chat' \in [Requests -> Chatter] /\ chat'[c] = h
           /\ \A d \in Requests : d # c => chat'[d] = chat[d]
           /\ \A d \in Requests : Rounded(chat'[d])
           /\ \A k : h.at # "answer" => ToSave(k)' \subseteq ToSave(k)
           /\ (\A n \in 1..Rounds : Owed(h, n) => Owed(chat[c], n)) => Pending' \subseteq Pending
<1>1. /\ chat' \in [Requests -> Chatter] /\ chat'[c] = h
      /\ \A d \in Requests : d # c => chat'[d] = chat[d]
  BY DEF ChatTyped
<1>2. \A d \in Requests : Rounded(chat'[d])
  BY <1>1 DEF ChatTyped
<1>3. \A k : h.at # "answer" => ToSave(k)' \subseteq ToSave(k)
  BY <1>1 DEF ToSave
<1>4. (\A n \in 1..Rounds : Owed(h, n) => Owed(chat[c], n)) => Pending' \subseteq Pending
  <2> SUFFICES ASSUME \A n \in 1..Rounds : Owed(h, n) => Owed(chat[c], n), NEW p \in Pending'
               PROVE  p \in Pending
    OBVIOUS
  <2>1. p \in Requests \X (1..Rounds) /\ p[1] \in Requests /\ p[2] \in 1..Rounds
        /\ Owed(chat'[p[1]], p[2])
    BY DEF Pending, Owed
  <2>2. Owed(chat[p[1]], p[2])
    BY <1>1, <2>1
  <2> QED BY <2>1, <2>2 DEF Pending
<1> QED BY <1>1, <1>2, <1>3, <1>4

\* The rows stay, and fewer answers are to be saved.
LEMMA RowsStay ==
    ASSUME ChatTyped, Behindhand, ids' \in Nat, ids <= ids', UNCHANGED messages,
           \A c \in Requests : chat'[c].conv \in Nat /\ chat'[c].conv <= ids',
           \A k : ToSave(k)' \subseteq ToSave(k)
    PROVE  Behindhand'
<1>1. \A k : /\ Cardinality(ToSave(k)') <= Cardinality(ToSave(k))
             /\ Cardinality(ToSave(k)') \in Nat /\ Cardinality(ToSave(k)) \in Nat
  BY ToSaveFinite, FS_Subset, FS_CardinalityType
<1>2. ASSUME NEW k \in DOMAIN messages' PROVE (Behind(messages[k]) /\ Room(k))'
  <2>1. k \in DOMAIN messages /\ messages'[k] = messages[k]
    OBVIOUS
  <2>2. Behind(messages'[k])
    BY <2>1 DEF Behindhand
  <2>3. Room(k)
    BY <2>1 DEF Behindhand
  <2>4. /\ Cardinality(Rows(messages[k], Len(messages[k]), "assistant")) \in Nat
        /\ Cardinality(Rows(messages[k], Len(messages[k]), "user")) \in Nat
    BY <2>1, RowsFinite DEF ChatTyped
  <2> QED BY <1>1, <2>1, <2>2, <2>3, <2>4 DEF Room
<1> QED BY <1>2 DEF Behindhand

\* A request goes on: nothing is spent, nothing more is owed, no answer is to be saved.
LEMMA ChatGoes ==
    ASSUME ChatInv, NEW c \in Requests, NEW h \in Chatter, Rounded(h),
           chat' = [chat EXCEPT ![c] = h], UNCHANGED <<operator, ledger, ids, messages>>,
           h.at # "answer", h.conv <= ids,
           \A n \in 1..Rounds : Owed(h, n) => Owed(chat[c], n)
    PROVE  ChatInv'
<1>1. /\ chat' \in [Requests -> Chatter] /\ chat'[c] = h
      /\ \A d \in Requests : d # c => chat'[d] = chat[d]
      /\ \A d \in Requests : Rounded(chat'[d])
      /\ \A k : ToSave(k)' \subseteq ToSave(k)
      /\ Pending' \subseteq Pending
  BY ChatMoves DEF ChatInv
<1>2. ChatTyped'
  BY <1>1 DEF ChatInv, ChatTyped, Rounded
<1>3. Within'
  <2>1. ledger \in Nat /\ ledger' = ledger
    BY DEF ChatInv, ChatTyped
  <2> QED BY <1>1, <2>1, Fewer DEF ChatInv
<1>4. Behindhand'
  <2>1. ids \in Nat /\ ids' \in Nat /\ ids <= ids'
    BY DEF ChatInv, ChatTyped
  <2>2. \A d \in Requests : chat'[d].conv \in Nat /\ chat'[d].conv <= ids'
    BY <1>1 DEF ChatInv, Behindhand, Chatter
  <2> QED BY <1>1, <2>1, <2>2, RowsStay DEF ChatInv
<1> QED BY <1>2, <1>3, <1>4 DEF ChatInv

LEMMA ChatIdle ==
    /\ Chatting!Idle \in Chatter /\ Chatting!Idle.at = "idle" /\ Chatting!Idle.conv = 0
    /\ Rounded(Chatting!Idle) /\ \A n \in 1..Rounds : ~Owed(Chatting!Idle, n)
  BY DEF Chatting!Idle, Chatting!None, Chatter, Rounded, Owed

\* A request ends.
LEMMA ChatRests ==
    ASSUME ChatInv, NEW c \in Requests, chat' = [chat EXCEPT ![c] = Chatting!Idle],
           UNCHANGED <<operator, ledger, ids, messages>>
    PROVE  ChatInv'
<1>1. ids \in Nat
  BY DEF ChatInv, ChatTyped
<1> DEFINE h == Chatting!Idle
<1>2. /\ h \in Chatter /\ h.at = "idle" /\ h.conv = 0 /\ Rounded(h)
      /\ \A n \in 1..Rounds : ~Owed(h, n)
  BY ChatIdle
<1>3. chat' = [chat EXCEPT ![c] = h]
  OBVIOUS
<1> HIDE DEF h
<1>4. h.at # "answer" /\ h.conv <= ids
  BY <1>1, <1>2
<1>5. \A n \in 1..Rounds : Owed(h, n) => Owed(chat[c], n)
  BY <1>2
<1> QED BY <1>2, <1>3, <1>4, <1>5, ChatGoes

\* What is known of a request.
LEMMA ChatKnown ==
    ASSUME ChatInv, NEW c \in Requests
    PROVE  chat[c] \in Chatter /\ Rounded(chat[c]) /\ chat[c].conv <= ids /\ ids \in Nat
  BY DEF ChatInv, ChatTyped, Behindhand

\* The gate, the stream and the loop around it.
LEMMA LoopGoes ==
    ASSUME ChatInv, NEW c \in Requests,
           \/ Chatting!Gate(c) \/ Chatting!Begin(c) \/ Chatting!Turn(c) \/ Chatting!Silence(c)
           \/ Chatting!Dispatch(c) \/ Chatting!NoTools(c) \/ Chatting!Answered(c)
           \/ Chatting!Leave(c)
    PROVE  ChatInv'
<1>1. UNCHANGED <<operator, ledger, ids, messages>>
  BY DEF Chatting!Gate, Chatting!Begin, Chatting!Turn, Chatting!Silence, Chatting!Dispatch,
     Chatting!NoTools, Chatting!Answered, Chatting!Leave, Chatting!Rest, Chatting!To
<1>2. chat[c] \in Chatter /\ Rounded(chat[c]) /\ chat[c].conv <= ids /\ ids \in Nat
  BY ChatKnown
<1>3. CASE chat' = [chat EXCEPT ![c] = Chatting!Idle]
  BY <1>1, <1>3, ChatRests
<1>4. CASE Chatting!Gate(c)
  <2> DEFINE h == [chat[c] EXCEPT !.at = "gated", !.user = operator.own]
  <2>1. chat' = [chat EXCEPT ![c] = h] /\ chat[c] = Chatting!Idle
    BY <1>4 DEF Chatting!Gate, ChatInv, ChatTyped
  <2>2. /\ h \in Chatter /\ h.at = "gated" /\ h.conv = chat[c].conv /\ h.round = chat[c].round
        /\ chat[c].at = "idle"
    BY <1>2, <2>1, ChatIdle DEF Chatter, ChatInv, ChatTyped, Settings
  <2> HIDE DEF h
  <2>3. Rounded(h) /\ \A n \in 1..Rounds : ~Owed(h, n)
    BY <1>2, <2>2 DEF Rounded, Owed
  <2> QED BY <1>1, <1>2, <2>1, <2>2, <2>3, ChatGoes
<1>5. ASSUME NEW to \in {"model", "answered", "question"},
             chat' = [chat EXCEPT ![c].at = to], chat[c].at \in {"opened", "tools", "answered"},
             to = "model" => chat[c].at = "opened"
      PROVE  ChatInv'
  <2> DEFINE h == [chat[c] EXCEPT !.at = to]
  <2>1. chat' = [chat EXCEPT ![c] = h]
    BY <1>5 DEF ChatInv, ChatTyped
  <2>2. h \in Chatter /\ h.at = to /\ h.conv = chat[c].conv /\ h.round = chat[c].round
    BY <1>2 DEF Chatter
  <2> HIDE DEF h
  <2>3. Rounded(h) /\ \A n \in 1..Rounds : Owed(h, n) => Owed(chat[c], n)
    BY <1>2, <1>5, <2>2 DEF Rounded, Owed
  <2> QED BY <1>1, <1>2, <1>5, <2>1, <2>2, <2>3, ChatGoes
<1>6. CASE Chatting!Begin(c)
  BY <1>3, <1>5, <1>6 DEF Chatting!Begin, Chatting!Rest, Chatting!To
<1>7. CASE Chatting!NoTools(c)
  BY <1>5, <1>7 DEF Chatting!NoTools, Chatting!To
<1>8. CASE Chatting!Answered(c)
  BY <1>3, <1>5, <1>8 DEF Chatting!Answered, Chatting!Rest, Chatting!To
<1>9. CASE Chatting!Silence(c) \/ Chatting!Leave(c)
  BY <1>3, <1>9 DEF Chatting!Silence, Chatting!Leave, Chatting!Rest
<1>10. CASE Chatting!Turn(c)
  <2>1. PICK n \in 0..MaxCalls, said \in {chat[c].said, TRUE} :
            chat' = [chat EXCEPT ![c].at = "turn", ![c].calls = n, ![c].said = said]
    BY <1>10 DEF Chatting!Turn
  <2> DEFINE h == [chat[c] EXCEPT !.at = "turn", !.calls = n, !.said = said]
  <2>2. chat' = [chat EXCEPT ![c] = h] /\ chat[c].at = "model"
    BY <1>10, <2>1 DEF Chatting!Turn, ChatInv, ChatTyped
  <2>3. said \in BOOLEAN /\ n \in Nat
    <3>1. n \in Nat
      OBVIOUS
    <3>2. chat[c].said \in BOOLEAN
      BY <1>2 DEF Chatter
    <3> QED BY <3>1, <3>2
  <2>4. h \in Chatter /\ h.at = "turn" /\ h.conv = chat[c].conv /\ h.round = chat[c].round
    BY <1>2, <2>3 DEF Chatter
  <2> HIDE DEF h
  <2>5. Rounded(h) /\ \A i \in 1..Rounds : Owed(h, i) => Owed(chat[c], i)
    BY <1>2, <2>2, <2>4 DEF Rounded, Owed
  <2> QED BY <1>1, <1>2, <2>2, <2>4, <2>5, ChatGoes
<1>11. CASE Chatting!Dispatch(c)
  <2> DEFINE last == chat[c].calls = 1
             round == IF last THEN chat[c].round + 1 ELSE chat[c].round
             said == chat[c].said \/ (last /\ Chatting!LastRound(c))
             at1 == IF chat[c].calls > 1 THEN "tools"
                    ELSE IF Chatting!LastRound(c) THEN "answered" ELSE "model"
             h == [chat[c] EXCEPT !.calls = chat[c].calls - 1, !.round = round, !.said = said,
                                  !.at = at1]
  <2>1. chat[c].at = "tools" /\ chat[c].calls > 0 /\ chat[c].calls \in Nat /\ chat[c].round \in Nat
        /\ chat[c].said \in BOOLEAN
    BY <1>2, <1>11 DEF Chatting!Dispatch, Chatter
  <2>2. chat' = [chat EXCEPT ![c] = h]
    BY <1>11 DEF Chatting!Dispatch, ChatInv, ChatTyped
  <2>3. /\ round \in Nat /\ said \in BOOLEAN /\ chat[c].calls - 1 \in Nat
        /\ at1 \in {"tools", "answered", "model"}
        /\ at1 = "tools" => round = chat[c].round
        /\ at1 = "model" => round = chat[c].round + 1 /\ chat[c].round + 1 # Rounds
    BY <2>1 DEF Chatting!LastRound
  <2> HIDE DEF round, said, at1
  <2>4. h \in Chatter /\ h.at = at1 /\ h.conv = chat[c].conv /\ h.round = round
    BY <1>2, <2>3 DEF Chatter
  <2> HIDE DEF h
  <2>5. Rounded(h) /\ \A i \in 1..Rounds : Owed(h, i) => Owed(chat[c], i)
    <3>1. Rounds \in Nat
      BY BudgetAssumption
    <3> QED BY <1>2, <2>1, <2>3, <2>4, <3>1 DEF Rounded, Owed
  <2> QED BY <1>1, <1>2, <2>2, <2>3, <2>4, <2>5, ChatGoes
<1> QED BY <1>4, <1>6, <1>7, <1>8, <1>9, <1>10, <1>11

\* The budget lets a request in only while the ledger is below a ceiling.
LEMMA CheckKeeps == ASSUME ChatInv, NEW c \in Requests, Chatting!CheckBudget(c) PROVE ChatInv'
<1>1. UNCHANGED <<operator, ledger, ids, messages>> /\ chat[c].at = "gated"
  BY DEF Chatting!CheckBudget
<1>2. chat[c] \in Chatter /\ Rounded(chat[c]) /\ chat[c].conv <= ids /\ ids \in Nat
  BY ChatKnown
<1>3. CASE Chatting!Exhausted(c)
  <2>1. chat' = [chat EXCEPT ![c] = Chatting!Idle]
    BY <1>3 DEF Chatting!CheckBudget, Chatting!Rest
  <2> QED BY <1>1, <2>1, ChatRests
<1>4. CASE ~Chatting!Exhausted(c)
  <2> DEFINE h == [chat[c] EXCEPT !.at = "within"]
  <2>1. chat' = [chat EXCEPT ![c] = h]
    BY <1>4 DEF Chatting!CheckBudget, Chatting!To, ChatInv, ChatTyped
  <2>2. h \in Chatter /\ h.at = "within" /\ h.conv = chat[c].conv /\ h.round = chat[c].round
    BY <1>2 DEF Chatter
  <2> HIDE DEF h
  <2>3. Rounded(h)
    BY <1>1, <1>2, <2>2, BudgetAssumption DEF Rounded
  <2>4. /\ chat' \in [Requests -> Chatter] /\ chat'[c] = h
        /\ \A d \in Requests : d # c => chat'[d] = chat[d]
        /\ \A d \in Requests : Rounded(chat'[d])
        /\ \A k : ToSave(k)' \subseteq ToSave(k)
    BY <2>1, <2>2, <2>3, ChatMoves DEF ChatInv
  <2>5. ChatTyped'
    BY <1>1, <2>4 DEF ChatInv, ChatTyped, Rounded
  <2>6. 0 \notin Budgets => ledger' < Chatting!Top
    <3> SUFFICES ASSUME 0 \notin Budgets PROVE ledger' < Chatting!Top
      OBVIOUS
    <3> DEFINE budget == IF chat[c].user # Chatting!None THEN chat[c].user ELSE operator.budget
    <3>1. budget \in Budgets
      BY <1>2 DEF Chatter, ChatInv, ChatTyped, Settings
    <3>2. ~(budget > 0 /\ ledger >= budget)
      BY <1>4 DEF Chatting!Exhausted
    <3> HIDE DEF budget
    <3>3. budget \in Nat /\ budget > 0 /\ budget <= Chatting!Top /\ Chatting!Top \in Nat
      BY <3>1, TopIsHighest, BudgetAssumption
    <3>4. ledger \in Nat /\ ledger' = ledger
      BY <1>1 DEF ChatInv, ChatTyped
    <3> QED BY <3>2, <3>3, <3>4
  <2>7. Within'
    <3>1. ledger' \in Nat
      BY <2>5 DEF ChatTyped
    <3> QED BY <2>6, <3>1, BelowTop
  <2>8. Behindhand'
    <3>1. ids \in Nat /\ ids' \in Nat /\ ids <= ids'
      BY <1>1, <1>2
    <3>2. \A d \in Requests : chat'[d].conv \in Nat /\ chat'[d].conv <= ids'
      BY <1>1, <1>2, <2>2, <2>4 DEF ChatInv, Behindhand, Chatter
    <3> QED BY <1>1, <2>4, <3>1, <3>2, RowsStay DEF ChatInv
  <2> QED BY <2>5, <2>7, <2>8 DEF ChatInv
<1> QED BY <1>3, <1>4

LEMMA OpenKeeps == ASSUME ChatInv, NEW c \in Requests, Chatting!Open(c) PROVE ChatInv'
<1>1. UNCHANGED <<operator, ledger>> /\ chat[c].at = "within"
  BY DEF Chatting!Open
<1>2. chat[c] \in Chatter /\ Rounded(chat[c]) /\ chat[c].conv <= ids /\ ids \in Nat
  BY ChatKnown
<1>3. ASSUME NEW k \in Nat, chat' = [chat EXCEPT ![c].at = "opened", ![c].conv = k]
      PROVE  \E h \in Chatter : /\ h.at = "opened" /\ h.conv = k /\ Rounded(h)
                                /\ chat' = [chat EXCEPT ![c] = h]
                                /\ \A n \in 1..Rounds : Owed(h, n) => Owed(chat[c], n)
  <2> DEFINE h == [chat[c] EXCEPT !.at = "opened", !.conv = k]
  <2>1. chat' = [chat EXCEPT ![c] = h]
    BY <1>3 DEF ChatInv, ChatTyped
  <2>2. h \in Chatter /\ h.at = "opened" /\ h.conv = k /\ h.round = chat[c].round
    BY <1>2 DEF Chatter
  <2> HIDE DEF h
  <2>3. Rounded(h) /\ \A n \in 1..Rounds : Owed(h, n) => Owed(chat[c], n)
    BY <1>1, <1>2, <2>2 DEF Rounded, Owed
  <2> QED BY <2>1, <2>2, <2>3
<1>4. ASSUME NEW k \in DOMAIN messages, UNCHANGED <<ids, messages>>,
             chat' = [chat EXCEPT ![c].at = "opened", ![c].conv = k]
      PROVE  ChatInv'
  <2>1. k \in Nat /\ k <= ids
    BY DEF ChatInv, ChatTyped
  <2>2. PICK h \in Chatter : /\ h.at = "opened" /\ h.conv = k /\ Rounded(h)
                             /\ chat' = [chat EXCEPT ![c] = h]
                             /\ \A n \in 1..Rounds : Owed(h, n) => Owed(chat[c], n)
    BY <1>3, <1>4, <2>1
  <2>3. h.at # "answer" /\ h.conv <= ids
    BY <2>1, <2>2
  <2> QED BY <1>1, <1>4, <2>2, <2>3, ChatGoes
<1>5. ASSUME ids' = ids + 1,
             messages' = [k \in DOMAIN messages \cup {ids + 1} |->
                             IF k \in DOMAIN messages THEN messages[k] ELSE <<>>],
             chat' = [chat EXCEPT ![c].at = "opened", ![c].conv = ids + 1]
      PROVE  ChatInv'
  <2>1. ids + 1 \in Nat
    BY <1>2
  <2>2. PICK h \in Chatter : /\ h.at = "opened" /\ h.conv = ids + 1 /\ Rounded(h)
                             /\ chat' = [chat EXCEPT ![c] = h]
                             /\ \A n \in 1..Rounds : Owed(h, n) => Owed(chat[c], n)
    BY <1>3, <1>5, <2>1
  <2>3. /\ chat' \in [Requests -> Chatter] /\ chat'[c] = h
        /\ \A d \in Requests : d # c => chat'[d] = chat[d]
        /\ \A d \in Requests : Rounded(chat'[d])
        /\ \A k : ToSave(k)' \subseteq ToSave(k)
        /\ Pending' \subseteq Pending
    BY <2>2, ChatMoves DEF ChatInv
  <2>4. /\ DOMAIN messages' \subseteq 1..(ids + 1)
        /\ \A k \in DOMAIN messages' : \/ messages'[k] = messages[k] /\ k \in DOMAIN messages
                                       \/ k = ids + 1 /\ messages'[k] = <<>>
    BY <1>2, <1>5 DEF ChatInv, ChatTyped
  <2>5. <<>> \in Seq({"user", "assistant"}) /\ Len(<<>>) = 0
    OBVIOUS
  <2>6. ChatTyped'
    <3>1. \A k \in DOMAIN messages' : messages'[k] \in Seq({"user", "assistant"})
      BY <2>4, <2>5 DEF ChatInv, ChatTyped
    <3>2. DOMAIN messages' \subseteq 1..ids'
      BY <1>5, <2>4
    <3> QED BY <1>1, <1>5, <2>1, <2>3, <3>1, <3>2 DEF ChatInv, ChatTyped, Rounded
  <2>7. Within'
    <3>1. ledger \in Nat /\ ledger' = ledger
      BY <1>1 DEF ChatInv, ChatTyped
    <3> QED BY <2>3, <3>1, Fewer DEF ChatInv
  <2>8. \A d \in Requests : chat'[d].conv <= ids'
    <3>1. \A d \in Requests : chat[d].conv \in Nat /\ chat[d].conv <= ids
      BY DEF ChatInv, ChatTyped, Behindhand, Chatter
    <3> QED BY <1>2, <1>5, <2>2, <2>3, <3>1
  <2>9. ASSUME NEW k \in DOMAIN messages' PROVE (Behind(messages[k]) /\ Room(k))'
    <3>1. /\ Cardinality(ToSave(k)') <= Cardinality(ToSave(k))
          /\ Cardinality(ToSave(k)') \in Nat /\ Cardinality(ToSave(k)) \in Nat
      BY <2>3, ToSaveFinite, FS_Subset, FS_CardinalityType
    <3>2. CASE messages'[k] = messages[k] /\ k \in DOMAIN messages
      <4>1. Behind(messages[k]) /\ Room(k)
        BY <3>2 DEF ChatInv, Behindhand
      <4>2. /\ Cardinality(Rows(messages[k], Len(messages[k]), "assistant")) \in Nat
            /\ Cardinality(Rows(messages[k], Len(messages[k]), "user")) \in Nat
        BY <3>2, RowsFinite DEF ChatInv, ChatTyped
      <4> QED BY <3>1, <3>2, <4>1, <4>2 DEF Room
    <3>3. CASE k = ids + 1 /\ messages'[k] = <<>>
      <4>1. ToSave(k)' = {}
        <5>1. \A d \in Requests : chat'[d].at = "answer" => chat'[d].conv # ids + 1
          <6>1. \A d \in Requests : chat[d].conv \in Nat /\ chat[d].conv <= ids
            BY DEF ChatInv, ChatTyped, Behindhand, Chatter
          <6> QED BY <1>2, <2>2, <2>3, <6>1
        <5> QED BY <3>3, <5>1 DEF ToSave
      <4>2. \A s : Rows(<<>>, 0, s) = {}
        BY DEF Rows
      <4>3. Cardinality({}) = 0
        BY FS_EmptySet
      <4>4. Behind(<<>>)
        <5>1. \A n \in 0..Len(<<>>) : n = 0
          BY <2>5
        <5>2. ASSUME NEW n \in 0..Len(<<>>)
              PROVE  Cardinality(Rows(<<>>, n, "assistant")) <= Cardinality(Rows(<<>>, n, "user"))
          <6>1. Rows(<<>>, n, "assistant") = {} /\ Rows(<<>>, n, "user") = {}
            BY <4>2, <5>1
          <6>2. /\ Cardinality(Rows(<<>>, n, "assistant")) = 0
                /\ Cardinality(Rows(<<>>, n, "user")) = 0
            BY <4>3, <6>1
          <6> QED BY <6>2
        <5> QED BY <5>2 DEF Behind
      <4>5. Room(k)'
        <5>1. messages'[k] = <<>> /\ Len(messages'[k]) = 0
          BY <2>5, <3>3
        <5>2. \A s : Cardinality(Rows(messages'[k], Len(messages'[k]), s)) = 0
          BY <4>2, <4>3, <5>1
        <5> QED BY <4>1, <4>3, <5>2 DEF Room
      <4> QED BY <3>3, <4>4, <4>5
    <3> QED BY <2>4, <3>2, <3>3
  <2>10. Behindhand'
    BY <2>8, <2>9 DEF Behindhand
  <2> QED BY <2>6, <2>7, <2>10 DEF ChatInv
<1> QED BY <1>4, <1>5 DEF Chatting!Open, Chatting!Convs

\* A round is charged.
LEMMA ChargeKeeps == ASSUME ChatInv, NEW c \in Requests, Chatting!Charge(c) PROVE ChatInv'
<1>1. UNCHANGED <<operator, ids, messages>> /\ chat[c].at = "turn"
  BY DEF Chatting!Charge
<1>2. chat[c] \in Chatter /\ Rounded(chat[c]) /\ chat[c].conv <= ids /\ ids \in Nat
  BY ChatKnown
<1>3. CASE UNCHANGED ledger /\ Chatting!Rest(c)
  BY <1>1, <1>3, ChatRests DEF Chatting!Rest
<1>4. ASSUME NEW n \in 1..Cost, ledger' = ledger + n, Chatting!To(c, "tools") PROVE ChatInv'
  <2> DEFINE h == [chat[c] EXCEPT !.at = "tools"]
             p == <<c, chat[c].round + 1>>
  <2>1. chat' = [chat EXCEPT ![c] = h]
    BY <1>4 DEF Chatting!To, ChatInv, ChatTyped
  <2>2. /\ h \in Chatter /\ h.at = "tools" /\ h.conv = chat[c].conv /\ h.round = chat[c].round
        /\ chat[c].round \in Nat /\ chat[c].round < Rounds
    BY <1>1, <1>2 DEF Chatter, Rounded
  <2> HIDE DEF h
  <2>3. Rounded(h) /\ \A i \in 1..Rounds : Owed(h, i) => Owed(chat[c], i) /\ i # chat[c].round + 1
    BY <1>1, <1>2, <2>2 DEF Rounded, Owed
  <2>4. /\ chat' \in [Requests -> Chatter] /\ chat'[c] = h
        /\ \A d \in Requests : d # c => chat'[d] = chat[d]
        /\ \A d \in Requests : Rounded(chat'[d])
        /\ \A k : ToSave(k)' \subseteq ToSave(k)
        /\ Pending' \subseteq Pending
    BY <2>1, <2>2, <2>3, ChatMoves DEF ChatInv
  <2>5. p \in Pending
    <3>1. chat[c].round + 1 \in 1..Rounds
      BY <2>2, BudgetAssumption
    <3>2. Owed(chat[c], chat[c].round + 1)
      BY <1>1, <2>2 DEF Owed
    <3> QED BY <3>1, <3>2 DEF Pending
  <2>6. p \notin Pending'
    <3>1. ~Owed(chat'[c], chat[c].round + 1)
      BY <2>2, <2>4 DEF Owed
    <3>2. \A q \in Pending' : Owed(chat'[q[1]], q[2])
      BY DEF Pending, Owed
    <3>3. p[1] = c /\ p[2] = chat[c].round + 1
      OBVIOUS
    <3> QED BY <3>1, <3>2, <3>3
  <2> HIDE DEF p
  <2>7. ledger \in Nat /\ ledger' \in Nat
    BY <1>4 DEF ChatInv, ChatTyped
  <2>8. ChatTyped'
    BY <1>1, <2>4, <2>7 DEF ChatInv, ChatTyped, Rounded
  <2>9. Within'
    BY <1>4, <2>4, <2>5, <2>6, <2>7, Charged DEF ChatInv
  <2>10. Behindhand'
    <3>1. ids \in Nat /\ ids' \in Nat /\ ids <= ids'
      BY <1>1, <1>2
    <3>2. \A d \in Requests : chat'[d].conv \in Nat /\ chat'[d].conv <= ids'
      BY <1>1, <1>2, <2>2, <2>4 DEF ChatInv, Behindhand, Chatter
    <3> QED BY <1>1, <2>4, <3>1, <3>2, RowsStay DEF ChatInv
  <2> QED BY <2>8, <2>9, <2>10 DEF ChatInv
<1> QED BY <1>3, <1>4 DEF Chatting!Charge

\* A row is added to a request's conversation.
LEMMA AddKeeps ==
    ASSUME ChatInv, NEW c \in Requests, NEW role \in Roles, NEW h \in Chatter, Rounded(h),
           UNCHANGED <<operator, ledger, ids>>, chat' = [chat EXCEPT ![c] = h],
           chat[c].conv \in DOMAIN messages, Chatting!Add(c, role), \A n \in 1..Rounds : ~Owed(h, n),
           h.conv <= ids,
           \/ role = "user" /\ h.at = "answer" /\ h.conv = chat[c].conv /\ chat[c].at = "question"
           \/ role = "assistant" /\ h.at = "idle" /\ chat[c].at = "answer"
    PROVE  ChatInv'
<1> PICK k \in DOMAIN messages : k = chat[c].conv
  OBVIOUS
<1> PICK rows \in Seq(Roles) : rows = messages[k]
  BY DEF ChatInv, ChatTyped, Roles
<1>1. /\ chat' \in [Requests -> Chatter] /\ chat'[c] = h
      /\ \A d \in Requests : d # c => chat'[d] = chat[d]
      /\ \A d \in Requests : Rounded(chat'[d])
      /\ Pending' \subseteq Pending
  BY ChatMoves DEF ChatInv
<1>2. /\ DOMAIN messages' = DOMAIN messages /\ messages'[k] = Append(rows, role)
      /\ \A j \in DOMAIN messages : j # k => messages'[j] = messages[j]
  BY DEF Chatting!Add
<1>3. rows \in Seq(Roles)
  OBVIOUS
<1>4. /\ Append(rows, role) \in Seq(Roles) /\ Len(rows) \in Nat
      /\ Len(Append(rows, role)) = Len(rows) + 1
      /\ \A s \in Roles : Cardinality(Rows(Append(rows, role), Len(rows) + 1, s)) =
                              Cardinality(Rows(rows, Len(rows), s)) + (IF s = role THEN 1 ELSE 0)
  BY <1>3, RowsAppend
<1>5. Behind(rows) /\ Room(k)
  BY DEF ChatInv, Behindhand
<1>6. /\ Cardinality(Rows(rows, Len(rows), "assistant")) \in Nat
      /\ Cardinality(Rows(rows, Len(rows), "user")) \in Nat
  BY <1>4, RowsFinite
<1>7. /\ IsFiniteSet(ToSave(k)) /\ Cardinality(ToSave(k)) \in Nat
  BY ToSaveFinite
<1>8. /\ role = "user" => Cardinality(ToSave(k)') = Cardinality(ToSave(k)) + 1
      /\ role = "assistant" => Cardinality(ToSave(k)') = Cardinality(ToSave(k)) - 1
  <2>1. CASE role = "user"
    <3>1. ToSave(k)' = ToSave(k) \cup {c} /\ c \notin ToSave(k)
      BY <1>1, <2>1 DEF ToSave
    <3>2. Cardinality(ToSave(k) \cup {c}) = Cardinality(ToSave(k)) + 1
      BY <1>7, <3>1, FS_AddElement
    <3> QED BY <2>1, <3>1, <3>2
  <2>2. CASE role = "assistant"
    <3>1. ToSave(k)' = ToSave(k) \ {c} /\ c \in ToSave(k)
      BY <1>1, <2>2 DEF ToSave
    <3>2. Cardinality(ToSave(k) \ {c}) = Cardinality(ToSave(k)) - 1
      BY <1>7, <3>1, FS_RemoveElement
    <3> QED BY <2>2, <3>1, <3>2
  <2> QED BY <2>1, <2>2
<1>9. \A j : j # k => ToSave(j)' = ToSave(j)
  BY <1>1 DEF ToSave
<1>10. role = "assistant" => Cardinality(ToSave(k)) >= 1
  <2>1. ASSUME role = "assistant" PROVE ToSave(k) # {}
    BY <2>1 DEF ToSave
  <2> QED BY <1>7, <2>1, FS_EmptySet
<1>11. Behind(Append(rows, role))
  <2>1. role = "user" \/ Cardinality(Rows(rows, Len(rows), "assistant")) + 1
                             <= Cardinality(Rows(rows, Len(rows), "user"))
    BY <1>5, <1>6, <1>7, <1>10 DEF Room
  <2> QED BY <1>3, <1>5, <2>1, BehindAppend
<1>12. Room(k)'
  <2> DEFINE a == Cardinality(Rows(rows, Len(rows), "assistant"))
             u == Cardinality(Rows(rows, Len(rows), "user"))
             w == Cardinality(ToSave(k))
  <2>1. a + w <= u /\ a \in Nat /\ u \in Nat /\ w \in Nat
    BY <1>5, <1>6, <1>7 DEF Room
  <2>2. /\ Cardinality(Rows(Append(rows, role), Len(rows) + 1, "assistant"))
             = a + (IF role = "assistant" THEN 1 ELSE 0)
        /\ Cardinality(Rows(Append(rows, role), Len(rows) + 1, "user"))
             = u + (IF role = "user" THEN 1 ELSE 0)
    BY <1>4 DEF Roles
  <2>3. /\ role = "user" => Cardinality(ToSave(k)') = w + 1
        /\ role = "assistant" => Cardinality(ToSave(k)') = w - 1
    BY <1>8
  <2> HIDE DEF a, u, w
  <2>4. Cardinality(Rows(Append(rows, role), Len(rows) + 1, "assistant")) + Cardinality(ToSave(k)')
          <= Cardinality(Rows(Append(rows, role), Len(rows) + 1, "user"))
    <3>1. CASE role = "user"
      BY <2>1, <2>2, <2>3, <3>1
    <3>2. CASE role = "assistant"
      BY <2>1, <2>2, <2>3, <3>2
    <3> QED BY <3>1, <3>2 DEF Roles
  <2>5. messages'[k] = Append(rows, role) /\ Len(messages'[k]) = Len(rows) + 1
    BY <1>2, <1>4
  <2> QED BY <2>4, <2>5 DEF Room
<1>13. ASSUME NEW j \in DOMAIN messages' PROVE (Behind(messages[j]) /\ Room(j))'
  <2>1. CASE j = k
    BY <1>2, <1>11, <1>12, <2>1
  <2>2. CASE j # k
    <3>1. messages'[j] = messages[j] /\ ToSave(j)' = ToSave(j) /\ Behind(messages[j]) /\ Room(j)
      BY <1>2, <1>9, <2>2 DEF ChatInv, Behindhand
    <3> QED BY <3>1 DEF Room
  <2> QED BY <2>1, <2>2
<1>14. ChatTyped'
  <2>1. \A j \in DOMAIN messages' : messages'[j] \in Seq({"user", "assistant"})
    BY <1>2, <1>4 DEF ChatInv, ChatTyped, Roles
  <2> QED BY <1>1, <1>2, <2>1 DEF ChatInv, ChatTyped, Rounded
<1>15. Within'
  <2>1. ledger \in Nat /\ ledger' = ledger
    BY DEF ChatInv, ChatTyped
  <2> QED BY <1>1, <2>1, Fewer DEF ChatInv
<1>16. \A d \in Requests : chat'[d].conv <= ids'
  <2>1. \A d \in Requests : chat[d].conv \in Nat /\ chat[d].conv <= ids
    BY DEF ChatInv, ChatTyped, Behindhand, Chatter
  <2> QED BY <1>1, <2>1
<1>17. Behindhand'
  BY <1>13, <1>16 DEF Behindhand
<1> QED BY <1>14, <1>15, <1>17 DEF ChatInv

LEMMA SavesKeep ==
    ASSUME ChatInv, NEW c \in Requests, Chatting!SaveQuestion(c) \/ Chatting!SaveAnswer(c)
    PROVE  ChatInv'
<1>1. UNCHANGED <<operator, ledger, ids>>
  BY DEF Chatting!SaveQuestion, Chatting!SaveAnswer
<1>2. chat[c] \in Chatter /\ Rounded(chat[c]) /\ chat[c].conv <= ids /\ ids \in Nat
  BY ChatKnown
<1>3. CASE UNCHANGED messages /\ Chatting!Rest(c)
  BY <1>1, <1>3, ChatRests DEF Chatting!Rest
<1>4. ASSUME chat[c].at = "question", chat[c].conv \in DOMAIN messages, Chatting!Add(c, "user"),
             Chatting!To(c, "answer")
      PROVE  ChatInv'
  <2> DEFINE h == [chat[c] EXCEPT !.at = "answer"]
  <2>1. chat' = [chat EXCEPT ![c] = h]
    BY <1>4 DEF Chatting!To, ChatInv, ChatTyped
  <2>2. h \in Chatter /\ h.at = "answer" /\ h.conv = chat[c].conv
    BY <1>2 DEF Chatter
  <2> HIDE DEF h
  <2>3. Rounded(h) /\ \A n \in 1..Rounds : ~Owed(h, n)
    BY <2>2 DEF Rounded, Owed
  <2>4. h.conv <= ids /\ "user" \in Roles
    BY <1>2, <2>2 DEF Roles
  <2> QED BY <1>1, <1>4, <2>1, <2>2, <2>3, <2>4, AddKeeps
<1>5. ASSUME chat[c].at = "answer", chat[c].conv \in DOMAIN messages, Chatting!Add(c, "assistant"),
             Chatting!Rest(c)
      PROVE  ChatInv'
  <2> DEFINE h == Chatting!Idle
  <2>1. chat' = [chat EXCEPT ![c] = h]
    BY <1>5 DEF Chatting!Rest
  <2>2. /\ h \in Chatter /\ h.at = "idle" /\ h.conv = 0 /\ Rounded(h)
        /\ \A n \in 1..Rounds : ~Owed(h, n)
    BY ChatIdle
  <2> HIDE DEF h
  <2>3. h.conv <= ids /\ "assistant" \in Roles
    BY <1>2, <2>2 DEF Roles
  <2> QED BY <1>1, <1>5, <2>1, <2>2, <2>3, AddKeeps
<1> QED BY <1>3, <1>4, <1>5 DEF Chatting!SaveQuestion, Chatting!SaveAnswer, Chatting!Convs

\* What others do: a conversation is deleted, the operator changes a setting, a month begins.
LEMMA OthersKeep ==
    ASSUME ChatInv,
           (\E k \in Chatting!Convs : Chatting!Delete(k)) \/ Chatting!Operate \/ Chatting!NewMonth
    PROVE  ChatInv'
<1>1. UNCHANGED <<ids, chat>> /\ Pending' = Pending /\ \A k : ToSave(k)' = ToSave(k)
  BY DEF Chatting!Delete, Chatting!Operate, Chatting!NewMonth, Pending, ToSave, Owed
<1>2. ledger' \in Nat /\ ledger' <= ledger /\ ledger \in Nat
  <2>1. ledger' = ledger \/ ledger' = 0
    BY DEF Chatting!Delete, Chatting!Operate, Chatting!NewMonth
  <2>2. ledger \in Nat
    BY DEF ChatInv, ChatTyped
  <2> QED BY <2>1, <2>2
<1>3. Within'
  BY <1>1, <1>2, Fewer DEF ChatInv
<1>4. /\ DOMAIN messages' \subseteq DOMAIN messages
      /\ \A k \in DOMAIN messages' : messages'[k] = messages[k]
  BY DEF Chatting!Delete, Chatting!Operate, Chatting!NewMonth, Chatting!Convs
<1>5. operator' \in Settings
  <2>1. CASE UNCHANGED operator
    BY <2>1 DEF ChatInv, ChatTyped
  <2>2. CASE Chatting!Operate
    <3>1. PICK b \in Budgets :
             operator' \in {[operator EXCEPT !.awake = ~@], [operator EXCEPT !.budget = b],
                            [operator EXCEPT !.own = b], [operator EXCEPT !.own = Chatting!None]}
      BY <2>2 DEF Chatting!Operate
    <3> QED BY <3>1 DEF ChatInv, ChatTyped, Settings
  <2> QED BY <2>1, <2>2 DEF Chatting!Delete, Chatting!NewMonth
<1>6. ChatTyped'
  BY <1>1, <1>2, <1>4, <1>5 DEF ChatInv, ChatTyped, Rounded
<1>7. Behindhand'
  <2>1. ASSUME NEW k \in DOMAIN messages' PROVE (Behind(messages[k]) /\ Room(k))'
    <3>1. messages'[k] = messages[k] /\ Behind(messages[k]) /\ Room(k) /\ ToSave(k)' = ToSave(k)
      BY <1>1, <1>4 DEF ChatInv, Behindhand
    <3> QED BY <3>1 DEF Room
  <2> QED BY <1>1, <2>1 DEF ChatInv, Behindhand
<1> QED BY <1>3, <1>6, <1>7 DEF ChatInv

LEMMA ChatInit == Chatting!Init => ChatInv
<1> SUFFICES ASSUME Chatting!Init PROVE ChatInv
  OBVIOUS
<1>1. /\ ledger = 0 /\ ids = 0 /\ messages = <<>> /\ chat = [c \in Requests |-> Chatting!Idle]
      /\ operator = [awake |-> TRUE, budget |-> Chatting!Top, own |-> Chatting!None]
  BY DEF Chatting!Init, Chatting!Top
<1>2. DOMAIN messages = {}
  BY <1>1
<1>3. \A c \in Requests : chat[c] = Chatting!Idle
  BY <1>1
<1>4. ChatTyped
  <2>1. chat \in [Requests -> Chatter] /\ \A c \in Requests : Rounded(chat[c])
    BY <1>1, ChatIdle
  <2> QED BY <1>1, <1>2, <2>1, TopIsHighest DEF ChatTyped, Settings
<1>5. Within
  <2>1. Pending = {}
    <3>1. \A p \in Requests \X (1..Rounds) : ~Owed(chat[p[1]], p[2])
      BY <1>3, ChatIdle
    <3> QED BY <3>1 DEF Pending
  <2>2. Cardinality(Pending) = 0
    BY <2>1, FS_EmptySet
  <2>3. /\ Cost \in Nat /\ Cardinality(Requests) * Rounds \in Nat
        /\ Cardinality(Requests) * Rounds * Cost \in Nat
    BY PendingPairs, PairsFinite, Multiples, BudgetAssumption
  <2>4. Cardinality(Pending) * Cost = 0
    BY <2>2, <2>3
  <2>5. 0 \notin Budgets => Chatting!Top > 0 /\ Chatting!Top \in Nat
    BY TopIsHighest, BudgetAssumption
  <2> QED BY <1>1, <2>3, <2>4, <2>5 DEF Within
<1>6. Behindhand
  BY <1>1, <1>2, <1>3, ChatIdle DEF Behindhand
<1> QED BY <1>4, <1>5, <1>6 DEF ChatInv

LEMMA ChatStep == ASSUME ChatInv, [Chatting!Next]_chatVars PROVE ChatInv'
<1>1. CASE UNCHANGED chatVars
  <2>1. /\ UNCHANGED <<operator, ledger, ids, messages, chat>> /\ Pending' = Pending
        /\ \A k : ToSave(k)' = ToSave(k)
    BY <1>1 DEF chatVars, Pending, ToSave, Owed
  <2>2. ChatTyped'
    BY <2>1 DEF ChatInv, ChatTyped, Rounded
  <2>3. Within'
    BY <2>1, Fewer DEF ChatInv, ChatTyped
  <2>4. Behindhand'
    <3>1. ASSUME NEW k \in DOMAIN messages' PROVE (Behind(messages[k]) /\ Room(k))'
      <4>1. messages'[k] = messages[k] /\ Behind(messages[k]) /\ Room(k) /\ ToSave(k)' = ToSave(k)
        BY <2>1 DEF ChatInv, Behindhand
      <4> QED BY <4>1 DEF Room
    <3> QED BY <2>1, <3>1 DEF ChatInv, Behindhand
  <2> QED BY <2>2, <2>3, <2>4 DEF ChatInv
<1> QED BY <1>1, LoopGoes, CheckKeeps, OpenKeeps, ChargeKeeps, SavesKeep, OthersKeep
        DEF Chatting!Next

LEMMA ChatHolding == ChatInv => Chatting!SpendIsBounded /\ Chatting!AnswerHasQuestion
<1> SUFFICES ASSUME ChatInv PROVE Chatting!SpendIsBounded /\ Chatting!AnswerHasQuestion
  OBVIOUS
<1>1. Chatting!SpendIsBounded
  <2> SUFFICES ASSUME 0 \notin Budgets
               PROVE  ledger < Chatting!Top + Chatting!Cardinality(Requests) * Rounds * Cost
    BY DEF Chatting!SpendIsBounded
  <2>1. ledger + Cardinality(Pending) * Cost < Chatting!Top + Cardinality(Requests) * Rounds * Cost
    BY DEF ChatInv, Within
  <2>2. /\ Cost \in Nat /\ Cardinality(Pending) * Cost \in Nat
        /\ Cardinality(Requests) * Rounds * Cost \in Nat
    BY PendingPairs, PairsFinite, Multiples, BudgetAssumption
  <2>3. Chatting!Top \in Nat /\ ledger \in Nat
    BY TopIsHighest, BudgetAssumption DEF ChatInv, ChatTyped
  <2>4. Chatting!Cardinality(Requests) = Cardinality(Requests)
    BY Counts
  <2> QED BY <2>1, <2>2, <2>3, <2>4
<1>2. Chatting!AnswerHasQuestion
  <2> SUFFICES ASSUME NEW k \in DOMAIN messages, NEW n \in 1..Len(messages[k])
               PROVE  Chatting!Cardinality({i \in 1..n : messages[k][i] = "assistant"})
                        <= Chatting!Cardinality({i \in 1..n : messages[k][i] = "user"})
    BY DEF Chatting!AnswerHasQuestion, Chatting!Convs
  <2>1. n \in 0..Len(messages[k])
    OBVIOUS
  <2>2. Cardinality(Rows(messages[k], n, "assistant")) <= Cardinality(Rows(messages[k], n, "user"))
    BY <2>1 DEF ChatInv, Behindhand, Behind
  <2> QED BY <2>2, Counts DEF Rows
<1> QED BY <1>1, <1>2

-----------------------------------------------------------------------------
(* The composition.                                                        *)

OutsideInv == /\ Scan!TypeOK /\ LocalInv /\ TvInv /\ ChatInv /\ SessionInv /\ HealthInv
              /\ TitlesInv /\ Covered /\ BotInv /\ MatchInv /\ Own!TypeOK

LEMMA OutsideInit == AllInit => OutsideInv
  BY ScanInit, LocalInit, TvInit, ChatInit, SessionInit, HealthInit, TitlesInit, CoveredInit, BotInit,
     MatchInit, OwnInit
     DEF AllInit, OutsideInv

LEMMA OutsideStep ==
    ASSUME OutsideInv,
           [AllNext]_<<part, vars, scanVars, tvVars, chatVars, matchVars, sessionVars, healthVars,
                       titlesVars, ownVars, botVars>>
    PROVE  /\ OutsideInv' /\ (\A r \in Requests : EndsInTime(r)) /\ KeepsOut /\ SweptLate
           /\ (\A q \in Requests : Serves(q)) /\ (closing => session' = session)
<1>1. /\ [Next]_vars /\ [Tv!Next]_tvVars /\ [Chatting!Next]_chatVars /\ [Session!Next]_sessionVars
      /\ [Scan!Next]_scanVars /\ [Match!Next]_matchVars /\ [Own!Next]_ownVars
      /\ [Health!Next]_healthVars /\ [Titles!Next]_titlesVars /\ [Bot!Next]_botVars
  BY PartsAlone
<1>2. LocalInv' /\ \A r \in Requests : EndsInTime(r)
  BY <1>1, LocalStep DEF OutsideInv
<1>3. TvInv' /\ KeepsOut
  BY <1>1, TvStep DEF OutsideInv
<1>4. ChatInv' /\ SessionInv'
  BY <1>1, ChatStep, SessionStep DEF OutsideInv
<1>5. HealthInv' /\ SweptLate
  BY <1>1, HealthStep DEF OutsideInv
<1>6. TitlesInv' /\ Covered' /\ \A q \in Requests : Serves(q)
  BY <1>1, TitlesStep, CoveredStep DEF OutsideInv
<1>7. BotInv' /\ (closing => session' = session)
  BY <1>1, BotStep DEF OutsideInv
<1>8. Scan!TypeOK'
  BY <1>1, ScanStep DEF OutsideInv
<1>9. MatchInv' /\ Own!TypeOK'
  BY <1>1, MatchStep, OwnStep DEF OutsideInv
<1> QED BY <1>2, <1>3, <1>4, <1>5, <1>6, <1>7, <1>8, <1>9 DEF OutsideInv

LEMMA OutsideHolds == AllSpec => []OutsideInv
<1> DEFINE Step == [AllNext]_<<part, vars, scanVars, tvVars, chatVars, matchVars, sessionVars,
                               healthVars, titlesVars, ownVars, botVars>>
<1>1. OutsideInv /\ Step => OutsideInv'
  BY OutsideStep
<1> QED BY <1>1, OutsideInit, PTL DEF AllSpec

\* Whatever an operator copies into a directory, however deep (local_engine/library.py): the list of
\* titles has every playable file that no dot folder hides exactly once, unless it lies below the
\* depth limit or the list is full; and a visitor reaches every such file by folders, and can play
\* it unless its title is a movie of several files.
THEOREM ScanIsComplete == AllSpec => []ScanFindsAll
<1>1. OutsideInv => ScanFindsAll
  BY ListsOnce, BrowseReaches DEF OutsideInv, ScanFindsAll
<1> QED BY <1>1, OutsideHolds, PTL

\* Whatever Jellyfin holds, however it tags its episodes and lists its Series: if it answered every
\* call and the tags, or else the names of the Series, tell the episode that is asked for, it is the
\* one that plays (scrapers/jellyfin_scraper.py). Of the operator's own folders, one of no lower
\* score that holds the episode plays, whatever the others hold (scrapers/local_scraper.py).
THEOREM HeldPlays == AllSpec => []HeldIsPlayed
<1>1. OutsideInv => HeldIsPlayed
  BY MatchHolds, OwnHolds DEF OutsideInv, HeldIsPlayed
<1> QED BY <1>1, OutsideHolds, PTL

\* Chat (chat_engine/conversation.py): whatever the operator's ceilings are and however requests of
\* a viewer overlap, the ledger passes the highest ceiling by less than what the rounds under way
\* cost; and whatever fails, no conversation holds more answers than questions at any point.
THEOREM ChatWithinBudget == AllSpec => []ChatHolds
<1>1. OutsideInv => ChatHolds
  BY ChatHolding DEF OutsideInv, ChatHolds
<1> QED BY <1>1, OutsideHolds, PTL

\* Work that many want at once is done once: a refresh of the channels (iptv_engine/service.py), a
\* login for each time Jellyfin dropped its tokens (_jellyfin_client.py), an upstream call per key
\* (core/single_flight.py), a sweep of the probes in its TTL (health.py); and the bot's connection
\* has one heartbeat, and what the bot says of an invite is so (bot.py).
THEOREM DoneOnce == AllSpec => SharedWork
<1> DEFINE Step == [AllNext]_<<part, vars, scanVars, tvVars, chatVars, matchVars, sessionVars,
                               healthVars, titlesVars, ownVars, botVars>>
<1>1. OutsideInv => /\ part = "tv" => Tv!OneRefresh
                    /\ part = "session" => Session!LoginsAreShared
                    /\ part = "titles" => Titles!OneCallPerKey
  BY TvHolds, SessionHolds, TitlesHold DEF OutsideInv
<1>2. OutsideInv => (part = "bot" => Bot!OneHeart /\ Bot!RepliesAreTrue)
  BY DEF OutsideInv, BotInv, HeartHolds, SaidTruly, So, Bot!RepliesAreTrue
<1>3. OutsideInv /\ Step =>
        [\A d \in Requests : (kept' # kept /\ d \in sweepers /\ ~load[d].forced)
            => kept.at = -1 \/ kept'.at - kept.at >= TTL]_Health!vars
  BY OutsideStep DEF SweptLate
<1>4. AllSpec => Health!SweepsAreApart
  BY <1>3, OutsideHolds, PTL DEF AllSpec, Health!SweepsAreApart
<1>5. AllSpec => /\ [](part = "tv" => Tv!OneRefresh)
                 /\ [](part = "session" => Session!LoginsAreShared)
                 /\ [](part = "titles" => Titles!OneCallPerKey)
                 /\ [](part = "bot" => Bot!OneHeart /\ Bot!RepliesAreTrue)
  BY <1>1, <1>2, OutsideHolds, PTL
<1> QED BY <1>4, <1>5 DEF SharedWork

\* What is off stops: while the database answers, a stream of a disabled root starts no later than
\* the roots' cache lives (media_routes.py); no channel that was blocked when a refresh began is in
\* what it publishes (iptv_engine/service.py); a stopped bot opens no connection (bot.py).
THEOREM StopsInTime == AllSpec => OffStops
<1> DEFINE Step == [AllNext]_<<part, vars, scanVars, tvVars, chatVars, matchVars, sessionVars,
                               healthVars, titlesVars, ownVars, botVars>>
<1>1. OutsideInv /\ Step =>
        [\A r \in Requests :
            Starts(r) /\ failed = 0 =>
              request[r].since <= lastServed \/ now - lastServed < RootsTTL]_vars
  BY OutsideStep DEF EndsInTime
<1>2. OutsideInv /\ Step =>
        [catalog' # catalog => /\ catalog'.ready
                               /\ \E f \in fetch : catalog'.channels \cap f.ruledOut = {}]_Tv!vars
  BY OutsideStep DEF KeepsOut
<1>3. OutsideInv /\ Step => [closing => session' = session]_Bot!vars
  BY OutsideStep
<1>4. AllSpec => StreamsEnd
  BY <1>1, OutsideHolds, PTL DEF AllSpec, StreamsEnd
<1>5. AllSpec => Tv!BlockedStaysOut
  BY <1>2, OutsideHolds, PTL DEF AllSpec, Tv!BlockedStaysOut
<1>6. AllSpec => Bot!NoneAfterStop
  BY <1>3, OutsideHolds, PTL DEF AllSpec, Bot!NoneAfterStop
<1> QED BY <1>4, <1>5, <1>6 DEF OffStops

\* While a copy lives, an outage of a metadata service is answered with it, whichever stores of the
\* caches fail and whatever is evicted meanwhile (anilist.py, store.py).
THEOREM OutageIsCovered == AllSpec => KnownIsServed
<1> DEFINE Step == [AllNext]_<<part, vars, scanVars, tvVars, chatVars, matchVars, sessionVars,
                               healthVars, titlesVars, ownVars, botVars>>
<1>1. OutsideInv /\ Step =>
        [\A q \in Requests :
            titleLoad[q].at = "stale" /\ titleLoad'[q].at = "ended" /\ known > time
                => titleLoad'[q].val > 0]_Titles!vars
  BY OutsideStep DEF Serves
<1>2. AllSpec => Titles!KnownIsServed
  BY <1>1, OutsideHolds, PTL DEF AllSpec, Titles!KnownIsServed
<1> QED BY <1>2 DEF KnownIsServed

-----------------------------------------------------------------------------
(* The types of all parts, under the bounds of the constants.             *)

\* The bounds of the sessions, the rest of whose types SessionInv has.
SessionLimits ==
    logins <= MaxLogins /\ revokes \in 0..MaxRevokes /\ failures \in 0..MaxFailures

LEMMA SessionTypes ==
    /\ Session!Init => SessionLimits
    /\ SessionInv /\ SessionLimits /\ [Session!Next]_sessionVars => SessionLimits'
    /\ SessionInv /\ SessionLimits => Session!TypeOK
<1>1. Session!Init => SessionLimits
  BY LimitsAssumption DEF Session!Init, SessionLimits
<1>2. ASSUME SessionInv, SessionLimits, [Session!Next]_sessionVars PROVE SessionLimits'
  <2>1. logins \in Nat /\ MaxLogins \in Nat /\ MaxRevokes \in Nat /\ MaxFailures \in Nat
    BY <1>2, LimitsAssumption DEF SessionInv, SessionTyped
  <2>2. /\ logins' # logins => logins < MaxLogins /\ logins' = logins + 1
        /\ revokes' # revokes => revokes < MaxRevokes /\ revokes' = revokes + 1
        /\ failures' # failures => failures < MaxFailures /\ failures' = failures + 1
    <3>1. CASE UNCHANGED sessionVars
      BY <3>1 DEF sessionVars
    <3>2. CASE Session!Revoke
      BY <3>2 DEF Session!Revoke
    <3>3. ASSUME NEW c \in Calls, Session!CallNext(c)
          PROVE  /\ logins' # logins => logins < MaxLogins /\ logins' = logins + 1
                 /\ revokes' = revokes
                 /\ failures' # failures => failures < MaxFailures /\ failures' = failures + 1
      <4>1. CASE Session!LoggedIn(c) \/ Session!LoginFails(c)
        BY <4>1 DEF Session!LoggedIn, Session!LoginFails
      <4>2. CASE ~(Session!LoggedIn(c) \/ Session!LoginFails(c))
        BY <3>3, <4>2 DEF Session!CallNext, Session!Start, Session!TakeLock, Session!Answered,
           Session!Streamed, Session!Rejected
      <4> QED BY <4>1, <4>2
    <3> QED BY <1>2, <3>1, <3>2, <3>3 DEF Session!Next
  <2> QED BY <1>2, <2>1, <2>2 DEF SessionLimits
<1>3. ASSUME SessionInv, SessionLimits PROVE Session!TypeOK
  <2>1. logins \in 0..MaxLogins /\ token \in 0..logins /\ valid \subseteq 1..logins
    BY <1>3, LimitsAssumption DEF SessionInv, SessionLimits, SessionTyped, Newest
  <2>2. \A c \in Calls : call[c] \in [at : Session!Stages, bearer : Nat, again : BOOLEAN]
    BY <1>3 DEF SessionInv, SessionTyped
  <2>3. \A c \in Calls : /\ call[c].at \in Session!Stages /\ call[c].bearer \in Nat
                         /\ call[c].again \in BOOLEAN
    BY <2>2
  <2>4. \A c \in Calls : call[c].bearer <= logins
    BY <1>3 DEF SessionInv, Justified
  <2>5. logins \in Nat
    BY <1>3 DEF SessionInv, SessionTyped
  <2>6. \A c \in Calls : call[c].bearer \in 0..logins
    BY <2>3, <2>4, <2>5
  <2> QED BY <1>3, <2>1, <2>3, <2>6 DEF SessionLimits, SessionInv, Locked, Session!TypeOK
<1> QED BY <1>1, <1>2, <1>3

\* What a sweep hears is of the right form, and it hears of sources that are probed.
LEMMA HealthTypes ==
    /\ Health!Init => Health!TypeOK
    /\ HealthInv /\ Health!TypeOK /\ [Health!Next]_healthVars => Health!TypeOK'
<1>1. Health!Unheard \in Health!Heard
  BY DEF Health!Unheard, Health!Heard
<1>2. LastProbe \in Nat /\ MaxSweeps \in Nat
  BY LimitsAssumption
<1>3. ASSUME Health!Init PROVE Health!TypeOK
  <2>1. \A d \in Requests : load[d].at = "idle" /\ load[d].forced = FALSE
    BY <1>3 DEF Health!Init, Health!Idle
  <2>2. kept.at = -1 /\ kept.says = Health!Unheard /\ healthNow = 0
    BY <1>3 DEF Health!Init
  <2>3. sweeps = 0 /\ hears = Health!Unheard /\ sweepers = {} /\ probing = {}
    BY <1>3 DEF Health!Init
  <2>4. healthNow \in 0..LastProbe /\ sweeps \in 0..MaxSweeps /\ kept.at \in -1..healthNow
    BY <1>2, <2>2, <2>3
  <2>5. \A d \in Requests : load[d].at \in {"idle", "lock", "sweep"} /\ load[d].forced \in BOOLEAN
    BY <2>1
  <2> QED BY <1>1, <2>2, <2>3, <2>4, <2>5 DEF Health!TypeOK
<1>4. ASSUME HealthInv, Health!TypeOK, [Health!Next]_healthVars PROVE Health!TypeOK'
  <2> DEFINE Load(d) == load'[d].at \in {"idle", "lock", "sweep"} /\ load'[d].forced \in BOOLEAN
  <2>1. \A d \in Requests : Load(d)
    BY <1>4, HealthStep DEF HealthInv, Loading
  <2>2. /\ healthNow' # healthNow => healthNow < LastProbe /\ healthNow' = healthNow + 1
        /\ sweeps' # sweeps => sweeps < MaxSweeps /\ sweeps' = sweeps + 1
        /\ kept' # kept => kept' = [at |-> healthNow, says |-> hears] /\ healthNow' = healthNow
        /\ probing' \subseteq probing \/ probing' = Sources
        /\ sweepers' \subseteq sweepers \/ \E d \in Requests : sweepers' = {d}
    <3>1. CASE Health!Tick \/ UNCHANGED healthVars \/ \E s \in Sources : Health!Probe(s)
      BY <3>1 DEF healthVars, Health!Tick, Health!Probe
    <3>2. ASSUME NEW d \in Requests, Health!Ask(d) \/ Health!Lock(d)
          PROVE  /\ UNCHANGED <<healthNow, kept>>
                 /\ sweeps' # sweeps => sweeps < MaxSweeps /\ sweeps' = sweeps + 1
                 /\ probing' \subseteq probing \/ probing' = Sources
                 /\ sweepers' \subseteq sweepers \/ sweepers' = {d}
      BY <3>2 DEF Health!Ask, Health!Lock, Health!Locks
    <3>3. ASSUME NEW d \in Requests, Health!Swept(d) \/ Health!SweepFails(d)
          PROVE  /\ UNCHANGED <<healthNow, sweeps>> /\ probing' = {} /\ sweepers' \subseteq sweepers
                 /\ kept' # kept => kept' = [at |-> healthNow, says |-> hears]
      BY <3>3 DEF Health!Swept, Health!SweepFails, Health!Leaves
    <3> QED BY <1>4, <3>1, <3>2, <3>3 DEF Health!Next, Health!LoadNext
  <2>3. hears' \in Health!Heard
    <3>1. CASE \E s \in Sources : Health!Probe(s)
      <4>1. PICK s \in Sources, reply \in Health!Replies :
                hears' = [hears EXCEPT ![s] = <<Health!Verdict(reply), reply>>]
        BY <3>1 DEF Health!Probe
      <4>2. <<Health!Verdict(reply), reply>> \in {"none", "ok", "empty"} \X (Health!Replies \cup {"none"})
        BY DEF Health!Verdict
      <4> QED BY <1>4, <4>1, <4>2 DEF Health!TypeOK, Health!Heard
    <3>2. CASE ~\E s \in Sources : Health!Probe(s)
      <4>1. hears' = hears \/ hears' = Health!Unheard
        BY <1>4, <3>2 DEF healthVars, Health!Next, Health!LoadNext, Health!Tick, Health!Ask,
           Health!Lock, Health!Locks, Health!Swept, Health!SweepFails, Health!Leaves
      <4> QED BY <1>1, <1>4, <4>1 DEF Health!TypeOK
    <3> QED BY <3>1, <3>2
  <2>4. kept'.at \in -1..healthNow' /\ kept'.says \in Health!Heard
    BY <1>2, <1>4, <2>2 DEF Health!TypeOK
  <2> QED BY <1>2, <1>4, <2>1, <2>2, <2>3, <2>4 DEF Health!TypeOK
<1> QED BY <1>3, <1>4

\* The bounds of the library's copies, the rest of whose types LocalInv has.
LocalLimits == /\ now <= LastTick /\ failed <= Failures /\ changing \in BOOLEAN
               /\ roots \in Slot /\ items \in Slot

LEMMA LocalTypes ==
    /\ Init => LocalLimits
    /\ LocalInv /\ LocalLimits /\ [Next]_vars => LocalLimits'
    /\ LocalInv /\ LocalLimits => TypeOK
<1>0. LastTick \in Nat /\ ItemsTTL \in Nat /\ Failures \in Nat
  BY LimitsAssumption
<1>1. ASSUME Init PROVE LocalLimits
  <2>1. now <= LastTick /\ failed <= Failures
    BY <1>0, <1>1 DEF Init
  <2>2. changing \in BOOLEAN /\ roots \in Slot /\ items \in Slot
    BY <1>1 DEF Init, Slot
  <2> QED BY <2>1, <2>2 DEF LocalLimits
<1>2. ASSUME LocalInv, LocalLimits, [Next]_vars PROVE LocalLimits'
  <2>1. /\ now \in Nat /\ failed \in Nat
        /\ \A r \in Requests : /\ request[r].got \in BOOLEAN /\ request[r].since \in Nat
                               /\ request[r].since <= now
    BY <1>2 DEF LocalInv, Standing
  <2>2. None \in Slot
    BY DEF Slot
  <2>3. ASSUME NEW val \in BOOLEAN, NEW t \in 0..(LastTick + ItemsTTL) PROVE Held(val, t) \in Slot
    BY DEF Held, Slot
  <2>4. CASE UNCHANGED vars
    BY <1>2, <2>4 DEF vars, LocalLimits
  <2>5. CASE Change \/ Bump \/ Tick
    <3>1. /\ UNCHANGED <<failed, items>> /\ changing' \in BOOLEAN
          /\ now' # now => now < LastTick /\ now' = now + 1
      BY <1>2, <2>5 DEF Change, Bump, Tick, LocalLimits
    <3>2. roots' \in {roots, None}
      BY <2>5 DEF Change, Bump, Tick
    <3>3. now' <= LastTick
      BY <1>0, <1>2, <2>1, <3>1 DEF LocalLimits
    <3> QED BY <1>2, <2>2, <3>1, <3>2, <3>3 DEF LocalLimits
  <2>6. ASSUME NEW r \in Requests,
               Ask(r) \/ ReadRoots(r) \/ QueryRoots(r) \/ LookUp(r) \/ DropExpired(r) \/ Done(r)
        PROVE  LocalLimits'
    BY <1>0, <1>2, <2>1, <2>2, <2>6 DEF Ask, ReadRoots, QueryRoots, LookUp, DropExpired, Done, LocalLimits
  <2>7. ASSUME NEW r \in Requests, StoreRoots(r) PROVE LocalLimits'
    <3>1. roots' \in Slot
      BY <1>0, <1>2, <2>1, <2>3, <2>7 DEF StoreRoots, LocalLimits
    <3> QED BY <1>2, <2>7, <3>1 DEF StoreRoots, LocalLimits
  <2>8. ASSUME NEW r \in Requests, KeepScan(r) PROVE LocalLimits'
    <3>1. now + ItemsTTL \in 0..(LastTick + ItemsTTL)
      BY <1>0, <1>2, <2>1 DEF LocalLimits
    <3>2. items' \in Slot
      BY <2>1, <2>3, <2>8, <3>1 DEF KeepScan
    <3> QED BY <1>2, <2>8, <3>2 DEF KeepScan, LocalLimits
  <2> QED BY <1>2, <2>4, <2>5, <2>6, <2>7, <2>8 DEF Next
<1>3. ASSUME LocalInv, LocalLimits PROVE TypeOK
  <2>1. now \in 0..LastTick /\ failed \in 0..Failures /\ lastServed \in 0..LastTick
    BY <1>0, <1>3 DEF LocalInv, LocalLimits
  <2> DEFINE Stands == [at : {"idle", "config", "query", "store", "lookup", "expired", "scanned",
                              "playing", "crashed"},
                        for : {"play", "list", "scan"}, got : BOOLEAN, since : 0..LastTick,
                        late : BOOLEAN]
  <2>2. ASSUME NEW r \in Requests PROVE request[r] \in Stands
    <3>1. request[r] \in Standing /\ request[r].since <= now
      BY <1>3 DEF LocalInv
    <3>2. request[r].since \in Nat
      BY <3>1 DEF Standing
    <3>3. request[r].since \in 0..LastTick
      BY <1>0, <2>1, <3>1, <3>2
    <3> QED BY <3>1, <3>3 DEF Standing
  <2>3. request \in [Requests -> Stands]
    BY <1>3, <2>2 DEF LocalInv
  <2> QED BY <1>3, <2>1, <2>3 DEF LocalInv, LocalLimits, TypeOK
<1> QED BY <1>1, <1>2, <1>3

\* What a refresh has read of the index is in it, and it reads three files.
LEMMA TvTypes ==
    /\ Tv!Init => Tv!TypeOK
    /\ TvInv /\ Tv!TypeOK /\ [Tv!Next]_tvVars => Tv!TypeOK'
<1> DEFINE Reading == [read : 0..3, open : SUBSET Channels, streamed : SUBSET Channels,
                       ruledOut : SUBSET Channels]
           Catalogued == [ready : BOOLEAN, channels : SUBSET Channels]
           Seen == [Requests -> {"idle", "asked", "warming", "listed"}]
<1>0. LastTick \in Nat
  BY LimitsAssumption
<1>1. ASSUME Tv!Init PROVE Tv!TypeOK
  <2>1. index \in Tv!Index /\ refreshing \in BOOLEAN
    BY <1>1, TvInit DEF TvInv
  <2>2. catalog \in Catalogued /\ viewer \in Seen
    BY <1>1 DEF Tv!Init
  <2>3. fetch = {} /\ error = FALSE /\ fetchedAt = 0 /\ tvNow = 0
    BY <1>1 DEF Tv!Init
  <2>4. \A f \in fetch : f \in Reading
    BY <2>3
  <2>5. fetchedAt \in 0..LastTick /\ tvNow \in 0..LastTick
    BY <1>0, <2>3
  <2>6. error \in BOOLEAN
    BY <2>3
  <2> QED BY <2>1, <2>2, <2>4, <2>5, <2>6 DEF Tv!TypeOK
<1>2. ASSUME TvInv, Tv!TypeOK, [Tv!Next]_tvVars PROVE Tv!TypeOK'
  <2>1. index' \in Tv!Index /\ refreshing' \in BOOLEAN
    BY <1>2, TvStep DEF TvInv
  <2>2. /\ \A f \in fetch : f \in Reading
        /\ catalog \in Catalogued /\ viewer \in Seen /\ index \in Tv!Index /\ error \in BOOLEAN
        /\ fetchedAt \in 0..LastTick /\ tvNow \in 0..LastTick
    BY <1>2 DEF Tv!TypeOK
  <2> DEFINE Ok == /\ \A f \in fetch' : f \in Reading
                   /\ catalog' \in Catalogued /\ viewer' \in Seen /\ error' \in BOOLEAN
                   /\ fetchedAt' \in 0..LastTick /\ tvNow' \in 0..LastTick
  <2> HIDE DEF Reading, Catalogued, Seen
  <2>3. ASSUME Tv!Publish \/ Tv!Tick \/ UNCHANGED tvVars PROVE Ok
    <3>1. /\ UNCHANGED <<catalog, fetchedAt, error, fetch, viewer>>
          /\ tvNow' # tvNow => tvNow < LastTick /\ tvNow' = tvNow + 1
      BY <2>3 DEF Tv!Publish, Tv!Tick, tvVars
    <3>2. tvNow' \in 0..LastTick
      BY <1>0, <2>2, <3>1
    <3> QED BY <2>2, <3>1, <3>2
  <2>4. ASSUME NEW v \in Requests, Tv!Ask(v) \/ Tv!Respond(v) \/ Tv!Leave(v) PROVE Ok
    <3>1. [read |-> 0, open |-> {}, streamed |-> {}, ruledOut |-> index.blocked] \in Reading
      BY <2>2 DEF Reading, Tv!Index
    <3>2. \A f \in fetch' : f \in Reading
      BY <2>2, <2>4, <3>1 DEF Tv!Ask, Tv!Respond, Tv!Leave
    <3>3. viewer' \in Seen
      BY <2>2, <2>4 DEF Tv!Ask, Tv!Respond, Tv!Leave, Seen
    <3> QED BY <2>2, <2>4, <3>2, <3>3 DEF Tv!Ask, Tv!Respond, Tv!Leave
  <2>5. ASSUME NEW f \in fetch, Tv!ReadChannels(f) \/ Tv!ReadStreams(f) \/ Tv!Fail(f) \/ Tv!End(f)
        PROVE  Ok
    <3>1. f \in Reading
      BY <2>2
    <3>2. /\ [f EXCEPT !.read = 1, !.open = index.open] \in Reading
          /\ [f EXCEPT !.read = 2, !.streamed = index.streamed] \in Reading
          /\ [f EXCEPT !.read = 3] \in Reading
      <4>1. 1 \in 0..3 /\ 2 \in 0..3 /\ 3 \in 0..3
        OBVIOUS
      <4>2. index.open \in SUBSET Channels /\ index.streamed \in SUBSET Channels
        BY <2>2 DEF Tv!Index
      <4> QED BY <3>1, <4>1, <4>2 DEF Reading
    <3>3. \A g \in fetch' : g \in Reading
      BY <2>2, <2>5, <3>2 DEF Tv!ReadChannels, Tv!ReadStreams, Tv!Fail, Tv!End
    <3> QED BY <2>2, <2>5, <3>3 DEF Tv!ReadChannels, Tv!ReadStreams, Tv!Fail, Tv!End
  <2>6. ASSUME NEW f \in fetch, Tv!Swap(f) PROVE Ok
    <3>1. f \in Reading
      BY <2>2
    <3>2. [f EXCEPT !.read = 3] \in Reading /\ Tv!Catalog(f, index.blocked) \subseteq Channels
      BY <3>1 DEF Reading, Tv!Catalog
    <3>3. catalog' \in Catalogued
      BY <2>6, <3>2 DEF Tv!Swap, Catalogued
    <3>4. \A g \in fetch' : g \in Reading
      BY <2>2, <2>6, <3>2 DEF Tv!Swap
    <3> QED BY <2>2, <2>6, <3>3, <3>4 DEF Tv!Swap
  <2>7. Ok
    BY <1>2, <2>3, <2>4, <2>5, <2>6 DEF Tv!Next
  <2> QED BY <2>1, <2>7 DEF Reading, Catalogued, Seen, Tv!TypeOK
<1> QED BY <1>1, <1>2

\* The bounds of the copies and answers, the rest of whose types TitlesInv has. Only a fetch that
\* was answered writes the row.
TitlesLimits ==
    /\ time \in 1..LastTime /\ titleRow \in 0..LastTime /\ known \in 0..(LastTime + StaleFor)
    /\ local \in Titles!Entry /\ fresh \in Titles!Entry /\ shadow \in Titles!Entry
    /\ \A q \in Requests :
          /\ titleFetch[q].val \in Titles!Values /\ titleLoad[q].val \in Titles!Values
          /\ titleLoad[q].at = "row" => titleLoad[q].val \in 0..LastTime

LEMMA TitlesNumbers ==
    /\ LastTime \in Nat /\ LastTime > 0 /\ StaleFor \in Nat /\ FreshFor \in 0..StaleFor
    /\ LocalFor \in 0..StaleFor /\ 0 \in Titles!Values /\ Titles!Blank \in Titles!Values
    /\ \A v \in 0..LastTime : v \in Titles!Values
    /\ Titles!NoEntry \in Titles!Entry
<1>1. LastTime \in Nat /\ LastTime > 0 /\ StaleFor \in Nat
  BY LimitsAssumption, FetchAssumption
<1>2. FreshFor \in 0..StaleFor /\ LocalFor \in 0..StaleFor
  BY LimitsAssumption
<1>3. \A v \in -1..LastTime : v \in Titles!Values
  BY DEF Titles!Values, Titles!Blank
<1>4. 0 \in Titles!Values /\ Titles!Blank \in Titles!Values /\ \A v \in 0..LastTime : v \in Titles!Values
  BY <1>1, <1>3 DEF Titles!Blank
<1>5. Titles!NoEntry \in Titles!Entry
  BY <1>1, <1>4 DEF Titles!NoEntry, Titles!Entry
<1> QED BY <1>1, <1>2, <1>4, <1>5

LEMMA KeptEntry ==
    ASSUME time \in 1..LastTime, NEW v \in Titles!Values, NEW life \in 0..StaleFor
    PROVE  Titles!Kept(v, life) \in Titles!Entry
<1>1. time + life \in 0..(LastTime + StaleFor)
  BY TitlesNumbers
<1> QED BY <1>1 DEF Titles!Kept, Titles!Entry

\* A request's own steps copy what is to be had.
LEMMA RequestLimits ==
    ASSUME TitlesInv, TitlesLimits, NEW q \in Requests,
           \/ Titles!Ask(q) \/ Titles!ReadLocal(q) \/ Titles!Join(q) \/ Titles!Leave(q)
           \/ Titles!ReadRow(q) \/ \E ok \in BOOLEAN : Titles!ReadFresh(q, ok)
    PROVE  TitlesLimits'
<1>1. /\ UNCHANGED <<time, titleRow, known, fresh, shadow>>
      /\ local' \in {local, Titles!Kept(fresh.val, LocalFor)}
  BY DEF Titles!Ask, Titles!ReadLocal, Titles!Join, Titles!Leave, Titles!ReadRow, Titles!ReadFresh,
     Titles!cacheVars
<1>2. local.val \in Titles!Values /\ fresh.val \in Titles!Values /\ titleRow \in Titles!Values
  BY TitlesNumbers DEF TitlesLimits, Titles!Entry
<1>3. local' \in Titles!Entry
  BY <1>1, <1>2, KeptEntry, TitlesNumbers DEF TitlesLimits
<1>4. ASSUME NEW p \in Requests
      PROVE  \/ titleLoad'[p] = titleLoad[p]
             \/ titleLoad'[p].val = 0 /\ titleLoad'[p].at \in {"none", "call"}
  <2> DEFINE n == Titles!NoLoad
             b == [Titles!NoLoad EXCEPT !.at = "call"]
  <2>1. titleLoad' \in {titleLoad, [titleLoad EXCEPT ![q] = n], [titleLoad EXCEPT ![q] = b]}
    BY DEF Titles!Ask, Titles!ReadLocal, Titles!Join, Titles!Leave, Titles!ReadRow, Titles!ReadFresh,
       Titles!cacheVars
  <2>2. n.val = 0 /\ n.at = "none" /\ b.val = 0 /\ b.at = "call"
    BY DEF Titles!NoLoad
  <2> HIDE DEF n, b
  <2>3. titleLoad'[p] = titleLoad[p] \/ titleLoad'[p] \in {n, b}
    BY <2>1 DEF TitlesInv, TitlesTyped
  <2> QED BY <2>2, <2>3
<1>5. ASSUME NEW p \in Requests
      PROVE  titleFetch'[p].val \in {titleFetch[p].val, 0, local.val, fresh.val, titleRow}
  <2>1. titleFetch \in [Requests -> FetchType] /\ titleFetch[p] \in FetchType
        /\ titleFetch[q] \in FetchType
    BY DEF TitlesInv, TitlesTyped
  <2>2. CASE Titles!Ask(q)
    <3> DEFINE r == [Titles!Idle EXCEPT !.at = IF kind \in Titles!Local THEN "local" ELSE "fresh"]
    <3>1. r.val = 0
      BY DEF Titles!Idle
    <3>2. titleFetch' = [titleFetch EXCEPT ![q] = r]
      BY <2>2 DEF Titles!Ask
    <3> HIDE DEF r
    <3> QED BY <2>1, <3>1, <3>2
  <2>3. CASE Titles!Leave(q)
    <3>1. Titles!Idle.val = 0 /\ titleFetch' = [titleFetch EXCEPT ![q] = Titles!Idle]
      BY <2>3 DEF Titles!Idle, Titles!Leave
    <3> QED BY <2>1, <3>1
  <2>4. CASE Titles!ReadRow(q)
    <3>1. titleFetch' = [titleFetch EXCEPT ![q].at = "done", ![q].val = titleRow,
                              ![q].flag = IF titleRow = 0 THEN "404" ELSE "degraded"]
      BY <2>4 DEF Titles!ReadRow
    <3>2. CASE p = q
      BY <2>1, <3>1, <3>2 DEF FetchType
    <3>3. CASE p # q
      BY <2>1, <3>1, <3>3
    <3> QED BY <3>2, <3>3
  <2>5. ASSUME NEW v, titleFetch' = Titles!Answer(q, v)
        PROVE  titleFetch'[p].val \in {titleFetch[p].val, v}
    <3>1. CASE p = q
      BY <2>1, <2>5, <3>1 DEF FetchType, Titles!Answer
    <3>2. CASE p # q
      BY <2>1, <2>5, <3>2 DEF Titles!Answer
    <3> QED BY <3>1, <3>2
  <2>6. ASSUME NEW a, titleFetch' = [titleFetch EXCEPT ![q].at = a]
        PROVE  titleFetch'[p].val = titleFetch[p].val
    BY <2>1, <2>6 DEF FetchType
  <2>7. CASE Titles!ReadLocal(q)
    BY <2>5, <2>6, <2>7 DEF Titles!ReadLocal
  <2>8. CASE \E ok \in BOOLEAN : Titles!ReadFresh(q, ok)
    BY <2>5, <2>6, <2>8 DEF Titles!ReadFresh
  <2>9. CASE Titles!Join(q)
    <3>1. PICK o : titleFetch' = [titleFetch EXCEPT ![q].at = "wait", ![q].on = o]
      BY <2>9 DEF Titles!Join
    <3> QED BY <2>1, <3>1 DEF FetchType
  <2> QED BY <2>2, <2>3, <2>4, <2>7, <2>8, <2>9
<1>6. \A p \in Requests : titleFetch'[p].val \in Titles!Values /\ titleLoad'[p].val \in Titles!Values
  BY <1>2, <1>4, <1>5, TitlesNumbers DEF TitlesLimits
<1>7. \A p \in Requests : titleLoad'[p].at = "row" => titleLoad'[p].val \in 0..LastTime
  BY <1>4 DEF TitlesLimits
<1> QED BY <1>1, <1>3, <1>6, <1>7 DEF TitlesLimits

\* The steps of a fetch, from its answer to what it leaves behind.
LEMMA FetchLimits ==
    ASSUME TitlesInv, TitlesLimits, NEW q \in Requests,
           \/ Titles!CallAnswers(q) \/ Titles!CallFails(q) \/ Titles!WriteLocal(q)
           \/ Titles!ReadStale(q)
           \/ \E ok \in BOOLEAN :
                 Titles!WriteRow(q, ok) \/ Titles!WriteFresh(q, ok) \/ Titles!WriteShadow(q, ok)
    PROVE  TitlesLimits'
<1>1. UNCHANGED <<time, titleFetch>>
  BY DEF Titles!CallAnswers, Titles!CallFails, Titles!WriteLocal, Titles!ReadStale, Titles!WriteRow,
     Titles!WriteFresh, Titles!WriteShadow
<1>2. /\ time \in 1..LastTime /\ titleRow \in 0..LastTime /\ known \in 0..(LastTime + StaleFor)
      /\ local \in Titles!Entry /\ fresh \in Titles!Entry /\ shadow \in Titles!Entry
      /\ titleLoad[q].val \in Titles!Values
      /\ titleLoad[q].at = "row" => titleLoad[q].val \in 0..LastTime
  BY DEF TitlesLimits
<1>3. /\ titleRow' \in {titleRow, titleLoad[q].val}
      /\ titleRow' # titleRow => titleLoad[q].at = "row"
      /\ known' \in {known, time + StaleFor}
      /\ fresh' \in {fresh, Titles!Kept(titleLoad[q].val, FreshFor)}
      /\ shadow' \in {shadow, Titles!Kept(titleLoad[q].val, StaleFor)}
      /\ local' \in {local, Titles!Kept(titleLoad[q].val, LocalFor)}
  BY DEF Titles!CallAnswers, Titles!CallFails, Titles!WriteLocal, Titles!ReadStale, Titles!WriteRow,
     Titles!WriteFresh, Titles!WriteShadow, Titles!cacheVars
<1>4. titleRow' \in 0..LastTime
  BY <1>2, <1>3
<1>5. known' \in 0..(LastTime + StaleFor) /\ StaleFor \in 0..StaleFor
  BY <1>2, <1>3, TitlesNumbers
<1>6. local' \in Titles!Entry /\ fresh' \in Titles!Entry /\ shadow' \in Titles!Entry
  BY <1>2, <1>3, <1>5, KeptEntry, TitlesNumbers
<1>7. ASSUME NEW p \in Requests
      PROVE  /\ titleLoad'[p].val \in Titles!Values
             /\ titleLoad'[p].at = "row" => titleLoad'[p].val \in 0..LastTime
  <2>1. titleLoad \in [Requests -> LoadType] /\ titleLoad[p] \in LoadType
    BY DEF TitlesInv, TitlesTyped
  <2>2. /\ titleLoad[p].val \in Titles!Values
        /\ titleLoad[p].at = "row" => titleLoad[p].val \in 0..LastTime
    BY DEF TitlesLimits
  <2>3. CASE p # q
    <3>1. titleLoad'[p] = titleLoad[p]
      BY <2>1, <2>3 DEF Titles!CallAnswers, Titles!CallFails, Titles!WriteLocal, Titles!ReadStale,
         Titles!WriteRow, Titles!WriteFresh, Titles!WriteShadow, Titles!Goes
    <3> QED BY <2>2, <3>1
  <2>4. CASE p = q /\ Titles!CallAnswers(q)
    <3>1. titleLoad' = [titleLoad EXCEPT ![q].val = time,
                                         ![q].at = IF kind = "show" THEN "row" ELSE "fresh"]
      BY <2>4 DEF Titles!CallAnswers
    <3>2. titleLoad'[p].val = time
      BY <2>1, <2>4, <3>1 DEF LoadType
    <3>3. time \in 0..LastTime
      BY <1>2, TitlesNumbers
    <3> QED BY <3>2, <3>3, TitlesNumbers
  <2>5. CASE p = q /\ Titles!CallFails(q)
    <3> DEFINE s == CASE kind = "season"   -> "fresh"
                      [] kind \in Titles!Shadowed -> "stale"
                      [] OTHER             -> "ended"
               v == IF kind = "season" THEN Titles!Blank ELSE 0
    <3>1. titleLoad' = [titleLoad EXCEPT ![q].failed = TRUE, ![q].val = v, ![q].at = s]
      BY <2>5 DEF Titles!CallFails
    <3>2. v \in Titles!Values /\ s # "row"
      BY TitlesNumbers
    <3> HIDE DEF s, v
    <3>3. titleLoad'[p].val = v /\ titleLoad'[p].at = s
      BY <2>1, <2>5, <3>1 DEF LoadType
    <3> QED BY <3>2, <3>3
  <2>6. CASE p = q /\ Titles!ReadStale(q)
    <3>1. titleLoad' = [titleLoad EXCEPT ![q].val = Titles!Held(shadow), ![q].at = "ended"]
      BY <2>6 DEF Titles!ReadStale
    <3>2. Titles!Held(shadow) \in Titles!Values
      BY <1>2, TitlesNumbers DEF Titles!Held, Titles!Entry
    <3>3. titleLoad'[p].val = Titles!Held(shadow) /\ titleLoad'[p].at = "ended"
      BY <2>1, <2>6, <3>1 DEF LoadType
    <3> QED BY <3>2, <3>3
  <2>7. CASE /\ p = q
             /\ \/ Titles!WriteLocal(q)
                \/ \E ok \in BOOLEAN :
                      Titles!WriteRow(q, ok) \/ Titles!WriteFresh(q, ok) \/ Titles!WriteShadow(q, ok)
    <3>1. \E s \in {"fresh", "shadow", "local", "ended"} : Titles!Goes(q, s)
      BY <2>7 DEF Titles!WriteLocal, Titles!WriteRow, Titles!WriteFresh, Titles!WriteShadow
    <3>2. PICK s \in {"fresh", "shadow", "local", "ended"} : titleLoad' = [titleLoad EXCEPT ![q].at = s]
      BY <3>1 DEF Titles!Goes
    <3>3. titleLoad'[p].val = titleLoad[p].val /\ titleLoad'[p].at = s
      BY <2>1, <2>7, <3>2 DEF LoadType
    <3> QED BY <2>2, <3>2, <3>3
  <2> QED BY <2>3, <2>4, <2>5, <2>6, <2>7
<1> QED BY <1>1, <1>2, <1>4, <1>5, <1>6, <1>7 DEF TitlesLimits

\* A fetch that is over hands its answer on.
LEMMA EndLimits ==
    ASSUME TitlesInv, TitlesLimits, NEW q \in Requests, Titles!End(q) PROVE TitlesLimits'
<1>1. UNCHANGED <<time, titleRow, known, local, fresh, shadow>>
  BY DEF Titles!End, Titles!cacheVars
<1>2. titleLoad' = [titleLoad EXCEPT ![q] = Titles!NoLoad] /\ Titles!NoLoad.val = 0 /\ Titles!NoLoad.at = "none"
  BY DEF Titles!End, Titles!NoLoad
<1>3. \A p \in Requests : titleLoad'[p] \in {titleLoad[p], Titles!NoLoad}
  BY <1>2 DEF TitlesInv, TitlesTyped
<1>4. ASSUME NEW p \in Requests PROVE titleFetch'[p].val \in {titleFetch[p].val, titleLoad[q].val}
  <2>1. titleFetch[p] \in FetchType
    BY DEF TitlesInv, TitlesTyped
  <2>2. PICK o, a : titleFetch'[p] \in
            {titleFetch[p], [titleFetch[p] EXCEPT !.val = titleLoad[q].val, !.on = o, !.at = a]}
    BY DEF Titles!End
  <2> QED BY <2>1, <2>2 DEF FetchType
<1> QED BY <1>1, <1>2, <1>3, <1>4, TitlesNumbers DEF TitlesLimits

LEMMA TitlesTypes ==
    /\ Titles!Init => TitlesLimits
    /\ TitlesInv /\ TitlesLimits /\ [Titles!Next]_titlesVars => TitlesLimits'
    /\ TitlesInv /\ TitlesLimits => Titles!TypeOK
<1>1. ASSUME Titles!Init PROVE TitlesLimits
  <2>1. /\ time = 1 /\ titleRow = 0 /\ known = 0
        /\ local = Titles!NoEntry /\ fresh = Titles!NoEntry /\ shadow = Titles!NoEntry
    BY <1>1 DEF Titles!Init
  <2>2. \A q \in Requests : /\ titleFetch[q].val = 0 /\ titleLoad[q].val = 0
                            /\ titleLoad[q].at = "none"
    BY <1>1 DEF Titles!Init, Titles!Idle, Titles!NoLoad
  <2>3. 1 \in 1..LastTime /\ 0 \in 0..LastTime /\ 0 \in 0..(LastTime + StaleFor)
    BY TitlesNumbers
  <2> QED BY <2>1, <2>2, <2>3, TitlesNumbers DEF TitlesLimits
<1>2. ASSUME TitlesInv, TitlesLimits, [Titles!Next]_titlesVars PROVE TitlesLimits'
  <2>1. CASE Titles!Purge \/ Titles!Evict \/ Titles!Tick \/ UNCHANGED titlesVars
    <3>1. /\ UNCHANGED <<titleRow, known, titleFetch, titleLoad>>
          /\ time' # time => time < LastTime /\ time' = time + 1
          /\ local' \in {local, Titles!NoEntry} /\ fresh' \in {fresh, Titles!NoEntry}
          /\ shadow' \in {shadow, Titles!NoEntry}
      BY <2>1 DEF Titles!Purge, Titles!Evict, Titles!Tick, titlesVars, Titles!cacheVars
    <3>2. time' \in 1..LastTime
      BY <1>2, <3>1, TitlesNumbers DEF TitlesLimits
    <3> QED BY <1>2, <3>1, <3>2, TitlesNumbers DEF TitlesLimits
  <2> QED BY <1>2, <2>1, RequestLimits, FetchLimits, EndLimits DEF Titles!Next
<1>3. ASSUME TitlesInv, TitlesLimits PROVE Titles!TypeOK
  <2>1. /\ time \in 1..LastTime /\ kind \in Titles!Kinds /\ {local, fresh, shadow} \subseteq Titles!Entry
        /\ titleRow \in 0..LastTime /\ inflight \in Requests \cup {Nobody}
        /\ known \in 0..(LastTime + StaleFor)
    BY <1>3 DEF TitlesInv, TitlesTyped, TitlesLimits
  <2>2. ASSUME NEW q \in Requests
        PROVE  /\ titleFetch[q] \in [at : Titles!Stages, on : Requests \cup {Nobody},
                                     val : Titles!Values, flag : {"", "degraded", "404"}]
               /\ titleLoad[q] \in [at : Titles!Steps, val : Titles!Values, failed : BOOLEAN]
    <3>1. /\ titleFetch[q] \in FetchType /\ titleLoad[q] \in LoadType
          /\ titleFetch[q].val \in Titles!Values /\ titleLoad[q].val \in Titles!Values
      BY <1>3 DEF TitlesInv, TitlesTyped, TitlesLimits
    <3> QED BY <3>1 DEF FetchType, LoadType
  <2>3. DOMAIN titleFetch = Requests /\ DOMAIN titleLoad = Requests
    BY <1>3 DEF TitlesInv, TitlesTyped
  <2>4. /\ titleFetch \in [Requests -> [at : Titles!Stages, on : Requests \cup {Nobody},
                                        val : Titles!Values, flag : {"", "degraded", "404"}]]
        /\ titleLoad \in [Requests -> [at : Titles!Steps, val : Titles!Values, failed : BOOLEAN]]
    BY <1>3, <2>2, <2>3 DEF TitlesInv, TitlesTyped
  <2> QED BY <2>1, <2>4 DEF Titles!TypeOK
<1> QED BY <1>1, <1>2, <1>3

\* The bounds of the rounds and their tool calls, the rest of whose types ChatInv has.
ChatLimits ==
    /\ asked \in 0..MaxAsked
    /\ \A c \in Requests : chat[c].round <= Rounds /\ chat[c].calls <= MaxCalls

\* A step of a handler asks for no more tool calls than there may be, and its rounds end.
LEMMA RoundsBounded ==
    ASSUME ChatInv, ChatLimits, NEW c \in Requests,
           \/ Chatting!Gate(c) \/ Chatting!CheckBudget(c) \/ Chatting!Open(c) \/ Chatting!Begin(c)
           \/ Chatting!Turn(c) \/ Chatting!Silence(c) \/ Chatting!Charge(c) \/ Chatting!Dispatch(c)
           \/ Chatting!NoTools(c) \/ Chatting!Answered(c) \/ Chatting!SaveQuestion(c)
           \/ Chatting!SaveAnswer(c) \/ Chatting!Leave(c)
    PROVE  \A d \in Requests : chat'[d].round <= Rounds /\ chat'[d].calls <= MaxCalls
<1>1. chat \in [Requests -> Chatter] /\ chat[c] \in Chatter /\ Rounded(chat[c])
  BY DEF ChatInv, ChatTyped
<1>2. /\ chat[c].round \in Nat /\ chat[c].calls \in Nat /\ chat[c].round <= Rounds
      /\ chat[c].calls <= MaxCalls
  BY <1>1 DEF Chatter, ChatLimits
<1>3. Rounds \in Nat /\ MaxCalls \in Nat
  BY BudgetAssumption, LimitsAssumption
<1>4. \A d \in Requests : d # c => chat'[d] = chat[d]
  BY <1>1 DEF Chatting!Gate, Chatting!CheckBudget, Chatting!Open, Chatting!Begin, Chatting!Turn,
     Chatting!Silence, Chatting!Charge, Chatting!Dispatch, Chatting!NoTools, Chatting!Answered,
     Chatting!SaveQuestion, Chatting!SaveAnswer, Chatting!Leave, Chatting!Rest, Chatting!To
<1>5. ASSUME Chatting!Rest(c) PROVE chat'[c].round = 0 /\ chat'[c].calls = 0
  BY <1>1, <1>5 DEF Chatting!Rest, Chatting!Idle
<1>6. ASSUME NEW a, Chatting!To(c, a)
      PROVE  chat'[c].round = chat[c].round /\ chat'[c].calls = chat[c].calls
  BY <1>1, <1>6 DEF Chatting!To, Chatter
<1>7. chat'[c].round <= Rounds /\ chat'[c].calls <= MaxCalls
  <2>1. CASE Chatting!Gate(c)
    <3>1. chat'[c].round = chat[c].round /\ chat'[c].calls = chat[c].calls
      BY <1>1, <2>1 DEF Chatting!Gate, Chatter
    <3> QED BY <1>2, <3>1
  <2>2. CASE Chatting!Open(c)
    <3>1. PICK k : chat' = [chat EXCEPT ![c].at = "opened", ![c].conv = k]
      BY <2>2 DEF Chatting!Open
    <3>2. chat'[c].round = chat[c].round /\ chat'[c].calls = chat[c].calls
      BY <1>1, <3>1 DEF Chatter
    <3> QED BY <1>2, <3>2
  <2>3. CASE Chatting!Turn(c)
    <3>1. PICK n \in 0..MaxCalls, said \in {chat[c].said, TRUE} :
              chat' = [chat EXCEPT ![c].at = "turn", ![c].calls = n, ![c].said = said]
      BY <2>3 DEF Chatting!Turn
    <3>2. chat'[c].round = chat[c].round /\ chat'[c].calls = n
      BY <1>1, <3>1 DEF Chatter
    <3> QED BY <1>2, <1>3, <3>1, <3>2
  <2>4. CASE Chatting!Dispatch(c)
    <3> DEFINE n == chat[c].calls - 1
               m == IF chat[c].calls = 1 THEN chat[c].round + 1 ELSE chat[c].round
    <3>1. chat'[c].calls = n /\ chat'[c].round = m
      BY <1>1, <2>4 DEF Chatting!Dispatch, Chatter
    <3>2. chat[c].round < Rounds
      BY <1>1, <2>4 DEF Chatting!Dispatch, Rounded
    <3>3. n <= MaxCalls /\ m <= Rounds
      BY <1>2, <1>3, <3>2
    <3> QED BY <3>1, <3>3
  <2>5. CASE \/ Chatting!CheckBudget(c) \/ Chatting!Begin(c) \/ Chatting!Silence(c)
             \/ Chatting!Charge(c) \/ Chatting!NoTools(c) \/ Chatting!Answered(c)
             \/ Chatting!SaveQuestion(c) \/ Chatting!SaveAnswer(c) \/ Chatting!Leave(c)
    <3>1. Chatting!Rest(c) \/ \E a : Chatting!To(c, a)
      BY <2>5 DEF Chatting!CheckBudget, Chatting!Begin, Chatting!Silence, Chatting!Charge,
         Chatting!NoTools, Chatting!Answered, Chatting!SaveQuestion, Chatting!SaveAnswer,
         Chatting!Leave
    <3>2. chat'[c].round \in {0, chat[c].round} /\ chat'[c].calls \in {0, chat[c].calls}
      BY <1>5, <1>6, <3>1
    <3> QED BY <1>2, <1>3, <3>2
  <2> QED BY <2>1, <2>2, <2>3, <2>4, <2>5
<1> QED BY <1>4, <1>7 DEF ChatLimits

LEMMA ChatTypes ==
    /\ Chatting!Init => ChatLimits
    /\ ChatInv /\ ChatLimits /\ [Chatting!Next]_chatVars => ChatLimits'
    /\ ChatInv /\ ChatLimits => Chatting!TypeOK
<1>1. Rounds \in Nat /\ MaxCalls \in Nat /\ MaxAsked \in Nat
  BY BudgetAssumption, LimitsAssumption
<1>2. ASSUME Chatting!Init PROVE ChatLimits
  <2>1. asked = 0 /\ \A c \in Requests : chat[c].round = 0 /\ chat[c].calls = 0
    BY <1>2 DEF Chatting!Init, Chatting!Idle
  <2> QED BY <1>1, <2>1 DEF ChatLimits
<1>3. ASSUME ChatInv, ChatLimits, [Chatting!Next]_chatVars PROVE ChatLimits'
  <2>1. asked' # asked => asked < MaxAsked /\ asked' = asked + 1
    BY <1>3 DEF chatVars, Chatting!Next, Chatting!Gate, Chatting!CheckBudget, Chatting!Open,
       Chatting!Begin, Chatting!Turn, Chatting!Silence, Chatting!Charge, Chatting!Dispatch,
       Chatting!NoTools, Chatting!Answered, Chatting!SaveQuestion, Chatting!SaveAnswer,
       Chatting!Leave, Chatting!Delete, Chatting!Operate, Chatting!NewMonth
  <2>2. asked' \in 0..MaxAsked
    BY <1>1, <1>3, <2>1 DEF ChatLimits
  <2>3. \A c \in Requests : chat'[c].round <= Rounds /\ chat'[c].calls <= MaxCalls
    <3>1. CASE UNCHANGED chat
      BY <1>3, <3>1 DEF ChatLimits
    <3>2. CASE ~UNCHANGED chat
      <4>1. ~UNCHANGED chatVars /\ ~(Chatting!Operate \/ Chatting!NewMonth)
            /\ ~\E k \in Chatting!Convs : Chatting!Delete(k)
        BY <3>2 DEF chatVars, Chatting!Delete, Chatting!Operate, Chatting!NewMonth
      <4> QED BY <1>3, <4>1, RoundsBounded DEF Chatting!Next
    <3> QED BY <3>1, <3>2
  <2> QED BY <2>2, <2>3 DEF ChatLimits
<1>4. ASSUME ChatInv, ChatLimits PROVE Chatting!TypeOK
  <2> DEFINE Fits(h) == h \in [at : {"idle", "gated", "within", "opened", "model", "turn", "tools",
                                      "answered", "question", "answer"},
                                user : Budgets \cup {Chatting!None}, conv : 0..ids,
                                round : 0..Rounds, calls : 0..MaxCalls, said : BOOLEAN]
  <2>1. chat \in [Requests -> Chatter] /\ ids \in Nat
    BY <1>4 DEF ChatInv, ChatTyped
  <2>2. ASSUME NEW c \in Requests PROVE Fits(chat[c])
    <3>1. chat[c] \in Chatter
      BY <2>1
    <3>2. chat[c].conv \in Nat /\ chat[c].round \in Nat /\ chat[c].calls \in Nat
      BY <3>1 DEF Chatter
    <3>3. chat[c].conv <= ids /\ chat[c].round <= Rounds /\ chat[c].calls <= MaxCalls
      BY <1>4 DEF ChatInv, Behindhand, ChatLimits
    <3>4. chat[c].conv \in 0..ids /\ chat[c].round \in 0..Rounds /\ chat[c].calls \in 0..MaxCalls
      BY <1>1, <2>1, <3>2, <3>3
    <3> QED BY <3>1, <3>4 DEF Chatter
  <2> QED BY <1>4, <2>1, <2>2 DEF ChatInv, ChatTyped, ChatLimits, Settings, Chatting!TypeOK,
          Chatting!Convs
<1> QED BY <1>2, <1>3, <1>4

\* The bounds of the bot's connections and messages, the rest of whose types BotInv has. A hello
\* comes over a connection.
Turns == {"check", "hello", "identify", "read", "invite", "revoke", "reply", "beat", "leave",
          "leave badly", "wait", "stopped"}
Inbound == [op : Bot!Ops, invite : Invites \cup {0}, s : 0..MaxOps]
BotFlags == closing \in BOOLEAN /\ open \in BOOLEAN /\ broken \in BOOLEAN
BotNumbers ==
    /\ wait \in 1..MaxWait /\ session \in 0..MaxSessions /\ sent \in 0..MaxOps
    /\ at \in Turns /\ (at = "hello" => session \in 1..MaxSessions)
    /\ hearts \subseteq 1..MaxSessions
BotMessages ==
    /\ inbox \in Seq(Inbound)
    /\ seq \in (0..MaxSessions) \X (0..MaxOps)
    /\ beat \in (0..MaxSessions) \X ((0..MaxSessions) \X (0..MaxOps))
BotLimits == BotFlags /\ BotNumbers /\ BotMessages

LEMMA BotBounds == /\ MaxSessions \in Nat /\ MaxOps \in Nat /\ MaxWait \in Nat /\ MaxWait > 0
  BY LimitsAssumption

LEMMA FlagsKeep == ASSUME BotFlags, [Bot!Next]_botVars PROVE BotFlags'
  BY DEF BotFlags, botVars, Bot!Next, Bot!Loop, Bot!Stop, Bot!Check, Bot!Wake, Bot!Hello,
     Bot!Identify, Bot!AnswerBeat, Bot!Send, Bot!Read, Bot!ReadEnds, Bot!Leave, Bot!Mint,
     Bot!Revoke, Bot!Reply, Bot!Drop, Bot!Beat, Bot!Gateway, Bot!SignUp, Bot!gatewayVars,
     Bot!heartVars

\* A command is read from the inbox, and the rest of the inbox stays.
LEMMA InboxHead ==
    ASSUME BotMessages, inbox # <<>> PROVE Head(inbox) \in Inbound /\ Tail(inbox) \in Seq(Inbound)
  BY DEF BotMessages

LEMMA NumbersKeep ==
    ASSUME BotNumbers, BotMessages, [Bot!Next]_botVars PROVE BotNumbers'
<1>1. /\ wait \in 1..MaxWait /\ session \in 0..MaxSessions /\ sent \in 0..MaxOps
      /\ at \in Turns /\ (at = "hello" => session \in 1..MaxSessions)
      /\ hearts \subseteq 1..MaxSessions
  BY DEF BotNumbers
<1>2. CASE Bot!Check
  <2>1. UNCHANGED <<wait, sent, hearts>>
    BY <1>2 DEF Bot!Check, Bot!heartVars
  <2>2. \/ session' = session /\ at' \in {"stopped", "wait"}
        \/ session < MaxSessions /\ session' = session + 1 /\ at' = "hello"
    BY <1>2 DEF Bot!Check
  <2>3. session' \in 0..MaxSessions /\ (at' = "hello" => session' \in 1..MaxSessions)
    BY <1>1, <2>2, BotBounds
  <2> QED BY <1>1, <2>1, <2>2, <2>3 DEF BotNumbers, Turns
<1>3. CASE Bot!Wake
  <2>1. UNCHANGED <<session, sent, hearts>> /\ at' = "check"
    BY <1>3 DEF Bot!Wake, Bot!heartVars, Bot!gatewayVars
  <2>2. wait' \in 1..MaxWait
    BY <1>1, <1>3, BotBounds DEF Bot!Wake
  <2> QED BY <1>1, <2>1, <2>2 DEF BotNumbers, Turns
<1>4. CASE Bot!Hello
  <2>1. UNCHANGED <<wait, session, sent>> /\ at' \in {"identify", "wait"}
    BY <1>4 DEF Bot!Hello, Bot!gatewayVars
  <2>2. hearts' \subseteq 1..MaxSessions
    BY <1>1, <1>4 DEF Bot!Hello
  <2> QED BY <1>1, <2>1, <2>2 DEF BotNumbers, Turns
<1>5. CASE Bot!Leave
  <2>1. UNCHANGED <<session, sent>> /\ at' = "wait" /\ hearts' \subseteq hearts /\ wait' \in {1, wait}
    BY <1>5 DEF Bot!Leave, Bot!Cancel
  <2>2. wait' \in 1..MaxWait
    BY <1>1, <2>1, BotBounds
  <2> QED BY <1>1, <2>1, <2>2 DEF BotNumbers, Turns
<1>6. CASE Bot!Read
  <2>1. UNCHANGED <<wait, session, sent, hearts>>
    BY <1>6 DEF Bot!Read, Bot!gatewayVars, Bot!heartVars
  <2>2. Head(inbox) \in Inbound
    BY <1>6, InboxHead DEF Bot!Read
  <2>3. Head(inbox).op \in Bot!Ops
    BY <2>2 DEF Inbound
  <2>4. at' \in {"read", "beat", "leave", "invite", "revoke"}
    BY <1>6, <2>3 DEF Bot!Read, Bot!Ops
  <2> QED BY <1>1, <2>1, <2>4 DEF BotNumbers, Turns
<1>7. CASE Bot!Identify \/ Bot!AnswerBeat \/ Bot!ReadEnds \/ Bot!Mint \/ Bot!Revoke \/ Bot!Reply
  <2>1. UNCHANGED <<wait, session, sent, hearts>>
    BY <1>7 DEF Bot!Identify, Bot!AnswerBeat, Bot!Send, Bot!ReadEnds, Bot!Mint, Bot!Revoke,
       Bot!Reply, Bot!gatewayVars, Bot!heartVars
  <2>2. at' \in {"read", "leave badly", "leave", "reply"}
    BY <1>7 DEF Bot!Identify, Bot!AnswerBeat, Bot!Send, Bot!ReadEnds, Bot!Mint, Bot!Revoke, Bot!Reply
  <2> QED BY <1>1, <2>1, <2>2 DEF BotNumbers, Turns
<1>8. CASE \/ Bot!Stop \/ Bot!Drop \/ UNCHANGED botVars \/ (\E i \in Invites : Bot!SignUp(i))
           \/ \E op \in Bot!Ops, i \in Invites \cup {0} : Bot!Gateway(op, i)
  <2>1. UNCHANGED <<at, wait, session, hearts>> /\ (sent' # sent => sent < MaxOps /\ sent' = sent + 1)
    BY <1>8 DEF Bot!Stop, Bot!Drop, botVars, Bot!SignUp, Bot!Gateway, Bot!gatewayVars, Bot!heartVars
  <2>2. sent' \in 0..MaxOps
    BY <1>1, <2>1, BotBounds
  <2> QED BY <1>1, <2>1, <2>2 DEF BotNumbers
<1>9. ASSUME NEW h \in hearts, Bot!Beat(h) PROVE BotNumbers'
  <2>1. UNCHANGED <<at, wait, session, sent>> /\ hearts' \subseteq hearts
    BY <1>9 DEF Bot!Beat, Bot!gatewayVars
  <2> QED BY <1>1, <2>1 DEF BotNumbers
<1> QED BY <1>2, <1>3, <1>4, <1>5, <1>6, <1>7, <1>8, <1>9 DEF Bot!Next, Bot!Loop

LEMMA InboxKeeps ==
    ASSUME BotNumbers, BotMessages, [Bot!Next]_botVars PROVE BotMessages'
<1>1. /\ session \in 0..MaxSessions /\ sent \in 0..MaxOps /\ hearts \subseteq 1..MaxSessions
      /\ inbox \in Seq(Inbound)
      /\ seq \in (0..MaxSessions) \X (0..MaxOps)
      /\ beat \in (0..MaxSessions) \X ((0..MaxSessions) \X (0..MaxOps))
  BY DEF BotNumbers, BotMessages
<1>2. CASE Bot!Read
  <2>1. Head(inbox) \in Inbound /\ inbox' \in Seq(Inbound) /\ UNCHANGED beat
    BY <1>2, InboxHead DEF Bot!Read, Bot!heartVars
  <2>2. Head(inbox).s \in 0..MaxOps
    BY <2>1 DEF Inbound
  <2>3. seq' \in {seq, <<session, Head(inbox).s>>}
    BY <1>2 DEF Bot!Read
  <2> QED BY <1>1, <2>1, <2>2, <2>3 DEF BotMessages
<1>3. CASE Bot!AnswerBeat
  <2>1. UNCHANGED <<inbox, seq>> /\ beat' \in {beat, <<session, seq>>}
    BY <1>3 DEF Bot!AnswerBeat, Bot!Send
  <2> QED BY <1>1, <2>1 DEF BotMessages
<1>4. ASSUME NEW h \in hearts, Bot!Beat(h) PROVE BotMessages'
  <2>1. UNCHANGED <<inbox, seq>> /\ beat' \in {beat, <<session, seq>>}
    BY <1>4 DEF Bot!Beat
  <2> QED BY <1>1, <2>1 DEF BotMessages
<1>5. ASSUME NEW op \in Bot!Ops, NEW i \in Invites \cup {0}, Bot!Gateway(op, i) PROVE BotMessages'
  <2> DEFINE m == [op |-> op, invite |-> i, s |-> IF op \in Bot!Dispatches THEN sent' ELSE 0]
  <2>1. UNCHANGED <<seq, beat>> /\ inbox' = Append(inbox, m)
        /\ sent < MaxOps /\ sent' = sent + 1
    BY <1>5 DEF Bot!Gateway, Bot!heartVars
  <2>2. sent' \in 0..MaxOps /\ 0 \in 0..MaxOps
    BY <1>1, <2>1, BotBounds
  <2>3. m \in Inbound
    BY <2>2 DEF Inbound
  <2> HIDE DEF m
  <2>4. inbox' \in Seq(Inbound)
    BY <1>1, <2>1, <2>3
  <2> QED BY <1>1, <2>1, <2>4 DEF BotMessages
<1>6. CASE Bot!Leave
  <2>1. inbox' = <<>> /\ UNCHANGED <<seq, beat>>
    BY <1>6 DEF Bot!Leave
  <2> QED BY <1>1, <2>1 DEF BotMessages
<1>7. CASE \/ Bot!Check \/ Bot!Wake \/ Bot!Hello \/ Bot!Identify \/ Bot!ReadEnds \/ Bot!Mint
           \/ Bot!Revoke \/ Bot!Reply \/ Bot!Stop \/ Bot!Drop \/ UNCHANGED botVars
           \/ \E i \in Invites : Bot!SignUp(i)
  <2>1. UNCHANGED <<inbox, seq, beat>>
    BY <1>7 DEF Bot!Check, Bot!Wake, Bot!Hello, Bot!Identify, Bot!Send, Bot!ReadEnds, Bot!Mint,
       Bot!Revoke, Bot!Reply, Bot!Stop, Bot!Drop, botVars, Bot!SignUp, Bot!heartVars
  <2> QED BY <1>1, <2>1 DEF BotMessages
<1> QED BY <1>2, <1>3, <1>4, <1>5, <1>6, <1>7 DEF Bot!Next, Bot!Loop

LEMMA BotTypes ==
    /\ Bot!Init => BotLimits
    /\ BotLimits /\ [Bot!Next]_botVars => BotLimits'
    /\ BotInv /\ BotLimits => Bot!TypeOK
<1>1. ASSUME Bot!Init PROVE BotLimits
  <2>1. BotFlags
    BY <1>1 DEF Bot!Init, BotFlags
  <2>2. wait = 1 /\ session = 0 /\ sent = 0 /\ at = "check" /\ hearts = {}
    BY <1>1 DEF Bot!Init
  <2>3. BotNumbers
    BY <2>2, BotBounds DEF BotNumbers, Turns
  <2>4. inbox = <<>> /\ seq = <<0, 0>> /\ beat = <<0, <<0, 0>>>>
    BY <1>1 DEF Bot!Init
  <2>5. BotMessages
    BY <2>4, BotBounds DEF BotMessages
  <2> QED BY <2>1, <2>3, <2>5 DEF BotLimits
<1>2. ASSUME BotLimits, [Bot!Next]_botVars PROVE BotLimits'
  BY <1>2, FlagsKeep, NumbersKeep, InboxKeeps DEF BotLimits
<1>3. ASSUME BotInv, BotLimits PROVE Bot!TypeOK
  BY <1>3 DEF BotInv, SaidTruly, RowTable, BotLimits, BotFlags, BotNumbers, BotMessages, Turns,
     Inbound, Bot!TypeOK
<1> QED BY <1>1, <1>2, <1>3

\* What the parts are within, beside OutsideInv.
OutsideLimits ==
    /\ LocalLimits /\ Tv!TypeOK /\ ChatLimits /\ SessionLimits /\ Health!TypeOK /\ TitlesLimits
    /\ BotLimits

LEMMA LimitsKeep ==
    ASSUME OutsideInv, OutsideLimits,
           [AllNext]_<<part, vars, scanVars, tvVars, chatVars, matchVars, sessionVars, healthVars,
                       titlesVars, ownVars, botVars>>
    PROVE  OutsideLimits' /\ UNCHANGED part
<1>1. /\ UNCHANGED part
      /\ [Next]_vars /\ [Tv!Next]_tvVars /\ [Chatting!Next]_chatVars /\ [Session!Next]_sessionVars
      /\ [Health!Next]_healthVars /\ [Titles!Next]_titlesVars /\ [Bot!Next]_botVars
  BY PartsAlone
<1>2. LocalLimits' /\ Tv!TypeOK' /\ ChatLimits'
  BY <1>1, LocalTypes, TvTypes, ChatTypes DEF OutsideInv, OutsideLimits
<1>3. SessionLimits' /\ Health!TypeOK' /\ TitlesLimits' /\ BotLimits'
  BY <1>1, SessionTypes, HealthTypes, TitlesTypes, BotTypes DEF OutsideInv, OutsideLimits
<1> QED BY <1>1, <1>2, <1>3 DEF OutsideLimits

\* Every part keeps to its types, for any requests, channels, sources and folders and under any
\* bounds: whatever interleaves, handlers stand between steps of the code, caches hold entries of
\* their form, and clocks, counters and the places of a reply stay in their ranges.
THEOREM OutsideTyped == AllSpec => []Typed
<1> DEFINE Whole == part \in Parts /\ OutsideInv /\ OutsideLimits
           Step  == [AllNext]_<<part, vars, scanVars, tvVars, chatVars, matchVars, sessionVars,
                                healthVars, titlesVars, ownVars, botVars>>
<1>1. AllInit => Whole
  BY OutsideInit, LocalTypes, TvTypes, ChatTypes, SessionTypes, HealthTypes, TitlesTypes, BotTypes
     DEF AllInit, OutsideLimits
<1>2. Whole /\ Step => Whole'
  BY OutsideStep, LimitsKeep
<1>3. Whole => Typed
  BY LocalTypes, ChatTypes, SessionTypes, TitlesTypes, BotTypes
     DEF OutsideInv, OutsideLimits, MatchInv, Typed
<1> QED BY <1>1, <1>2, <1>3, PTL DEF AllSpec
=============================================================================
