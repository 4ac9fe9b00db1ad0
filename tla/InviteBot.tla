------------------------------ MODULE InviteBot ------------------------------
(***************************************************************************)
(* The Discord bot that mints invites (discord_bot/bot.py): one process    *)
(* whose loop opens a gateway connection, starts its heartbeat, identifies *)
(* itself, and handles one message after the other until the connection    *)
(* ends; then it waits and opens another. Replies go over HTTP, and        *)
(* invites to the table that sign-ups take them from.                      *)
(***************************************************************************)
EXTENDS Integers, Sequences

CONSTANTS
    Invites,      \* 1..n: invites in the order they are minted, one for a command
    MaxSessions,  \* bound: connections
    MaxOps,       \* bound: messages from the gateway
    MaxWait       \* the cap of the backoff, in seconds

VARIABLES
    closing,   \* stop() was called
    at,        \* where run and _run_once are
    wait,      \* backoff
    session,   \* the connection, numbered
    open,      \* it is not closed
    inbox,     \* what came over it and is not read yet: [op, invite, s]
    sent,      \* messages sent over all connections so far
    hearts,    \* connections whose heartbeat task runs
    broken,    \* the last heartbeat task has raised
    seq,       \* _seq: the number of a dispatch and its connection, 0 for None
    beat,      \* the last heartbeat: the connection, and the seq in it
    answer,    \* what is about to be replied: [says, invite]
    row,       \* invite -> its row in invite_tokens
    told       \* invite -> the last that was said of it

vars == <<closing, at, wait, session, open, inbox, sent, hearts, broken, seq, beat, answer,
          row, told>>
gatewayVars == <<session, open, sent>>
heartVars   == <<hearts, broken, beat>>

NoAnswer == [says |-> "nothing", invite |-> 0]
Says     == {"nothing", "minted", "revoked", "not revoked", "error"}

\* A dispatch that is no command of the owner is "other".
Ops == {"other", "invite", "revoke", "beat please", "reconnect", "invalid session"}
Dispatches == {"other", "invite", "revoke"}

TypeOK ==
    /\ closing \in BOOLEAN /\ wait \in 1..MaxWait
    /\ at \in {"check", "hello", "identify", "read", "invite", "revoke", "reply", "beat",
               "leave", "leave badly", "wait", "stopped"}
    /\ session \in 0..MaxSessions /\ open \in BOOLEAN /\ sent \in 0..MaxOps
    /\ inbox \in Seq([op : Ops, invite : Invites \cup {0}, s : 0..MaxOps])
    /\ hearts \subseteq 1..MaxSessions /\ broken \in BOOLEAN
    /\ seq \in (0..MaxSessions) \X (0..MaxOps)
    /\ beat \in (0..MaxSessions) \X ((0..MaxSessions) \X (0..MaxOps))
    /\ answer \in [says : Says, invite : Invites \cup {0}]
    /\ row \in [Invites -> {"none", "unused", "used", "gone"}]
    /\ told \in [Invites -> Says]

Init ==
    /\ closing = FALSE /\ at = "check" /\ wait = 1
    /\ session = 0 /\ open = FALSE /\ inbox = <<>> /\ sent = 0
    /\ hearts = {} /\ broken = FALSE /\ seq = <<0, 0>> /\ beat = <<0, <<0, 0>>>>
    /\ answer = NoAnswer
    /\ row = [i \in Invites |-> "none"] /\ told = [i \in Invites |-> "nothing"]

-----------------------------------------------------------------------------
(* run *)

\* stop, from a signal.
Stop ==
    /\ ~closing /\ closing' = TRUE
    /\ UNCHANGED <<at, wait, gatewayVars, inbox, heartVars, seq, answer, row, told>>

\* The loop is left, or a connection is opened; that may fail.
Check ==
    /\ at = "check"
    /\ \/ closing /\ at' = "stopped" /\ UNCHANGED <<session, open>>
       \/ ~closing /\ at' = "wait" /\ UNCHANGED <<session, open>>
       \/ /\ ~closing /\ session < MaxSessions
          /\ session' = session + 1 /\ open' = TRUE /\ at' = "hello"
    /\ UNCHANGED <<closing, wait, inbox, sent, heartVars, seq, answer, row, told>>

\* The backoff passes or stop() ends it; it doubles for the next time.
Wake ==
    /\ at = "wait" /\ at' = "check"
    /\ wait' = IF 2 * wait > MaxWait THEN MaxWait ELSE 2 * wait
    /\ UNCHANGED <<closing, gatewayVars, inbox, heartVars, seq, answer, row, told>>

-----------------------------------------------------------------------------
(* _run_once *)

\* The hello starts the heartbeat; without one nothing is to be cancelled.
Hello ==
    /\ at = "hello"
    /\ IF open THEN hearts' = hearts \cup {session} /\ broken' = FALSE /\ at' = "identify"
       ELSE at' = "wait" /\ UNCHANGED <<hearts, broken>>
    /\ UNCHANGED <<closing, wait, gatewayVars, inbox, beat, seq, answer, row, told>>

\* A send of the loop itself: identify, or the heartbeat that the gateway asks for.
Send(from, then) ==
    /\ at = from
    /\ at' = IF open THEN then ELSE "leave badly"
    /\ UNCHANGED <<closing, wait, gatewayVars, inbox, hearts, broken, seq, answer, row, told>>

Identify == Send("identify", "read") /\ UNCHANGED beat

AnswerBeat == Send("beat", "read") /\ beat' = IF open THEN <<session, seq>> ELSE beat

\* The next message: a command of the owner is handled before another is read.
Read ==
    /\ at = "read" /\ inbox # <<>>
    /\ inbox' = Tail(inbox)
    /\ LET m == Head(inbox) IN
         /\ seq' = IF m.op \in Dispatches THEN <<session, m.s>> ELSE seq
         /\ at' = CASE m.op = "other" -> "read"
                    [] m.op = "beat please" -> "beat"
                    [] m.op \in {"reconnect", "invalid session"} -> "leave"
                    [] OTHER -> m.op
         /\ answer' = [NoAnswer EXCEPT !.invite = m.invite]
    /\ UNCHANGED <<closing, wait, gatewayVars, heartVars, row, told>>

\* The connection is over, in order or not.
ReadEnds ==
    /\ at = "read" /\ inbox = <<>> /\ ~open
    /\ at' \in {"leave", "leave badly"}
    /\ UNCHANGED <<closing, wait, gatewayVars, inbox, heartVars, seq, answer, row, told>>

\* The heartbeat is cancelled and awaited.
Cancel == hearts' = hearts \ {session}

\* _run_once is left, its connection closed; an exception, the heartbeat's too, leaves the
\* backoff as it is.
Leave ==
    /\ at \in {"leave", "leave badly"}
    /\ Cancel
    /\ wait' = IF at = "leave" /\ ~broken THEN 1 ELSE wait
    /\ at' = "wait" /\ open' = FALSE /\ inbox' = <<>> /\ answer' = NoAnswer
    /\ UNCHANGED <<closing, session, sent, broken, beat, seq, row, told>>

\* A turn of _heartbeat, beside the loop; a closed connection raises.
Beat(h) ==
    /\ h \in hearts
    /\ IF h = session /\ open THEN beat' = <<h, seq>> /\ UNCHANGED <<hearts, broken>>
       ELSE hearts' = hearts \ {h} /\ broken' = TRUE /\ UNCHANGED beat
    /\ UNCHANGED <<closing, at, wait, gatewayVars, inbox, seq, answer, row, told>>

-----------------------------------------------------------------------------
(* The commands *)

Unminted == {i \in Invites : row[i] = "none"}

\* create_invite_tokens; the statement may fail, before its commit or after.
Mint ==
    /\ at = "invite" /\ at' = "reply"
    /\ \E i \in Unminted, outcome \in {"minted", "error"} :
          /\ \A j \in Unminted : i <= j
          /\ row' \in {[row EXCEPT ![i] = "unused"]} \cup (IF outcome = "error" THEN {row} ELSE {})
          /\ answer' = [says |-> outcome, invite |-> i]
    /\ UNCHANGED <<closing, wait, gatewayVars, inbox, heartVars, seq, told>>

\* revoke_invite_token deletes an unused row.
Revoke ==
    /\ at = "revoke" /\ at' = "reply"
    /\ LET i == answer.invite
           gone == [row EXCEPT ![i] = IF @ = "unused" THEN "gone" ELSE @]
       IN  \/ /\ row' = gone
              /\ answer' = [answer EXCEPT !.says = IF row # gone THEN "revoked" ELSE "not revoked"]
           \/ row' \in {row, gone} /\ answer' = [answer EXCEPT !.says = "error"]
    /\ UNCHANGED <<closing, wait, gatewayVars, inbox, heartVars, seq, told>>

\* _reply, which may be lost; errors are logged.
Reply ==
    /\ at = "reply" /\ at' = "read" /\ answer' = NoAnswer
    /\ told' \in {told, [told EXCEPT ![answer.invite] = answer.says]}
    /\ UNCHANGED <<closing, wait, gatewayVars, inbox, heartVars, seq, row>>

-----------------------------------------------------------------------------
(* The gateway, and the sign-ups *)

\* Discord numbers the dispatches of a connection and sends none of them again. The bound on
\* invites holds back a command for which none would be left.
Gateway(op, i) ==
    /\ open /\ at \notin {"hello", "identify"} /\ sent < MaxOps
    /\ op = "invite" =>
           Unminted # {} /\ at # "invite" /\ \A k \in DOMAIN inbox : inbox[k].op # "invite"
    /\ i # 0 <=> op = "revoke"
    /\ sent' = sent + 1
    /\ inbox' = Append(inbox, [op |-> op, invite |-> i,
                              s |-> IF op \in Dispatches THEN sent' ELSE 0])
    /\ UNCHANGED <<closing, at, wait, session, open, heartVars, seq, answer, row, told>>

Drop ==
    /\ open /\ open' = FALSE
    /\ UNCHANGED <<closing, at, wait, session, inbox, sent, heartVars, seq, answer, row, told>>

\* consume_invite_token of a sign-up.
SignUp(i) ==
    /\ row[i] = "unused" /\ row' = [row EXCEPT ![i] = "used"]
    /\ UNCHANGED <<closing, at, wait, gatewayVars, inbox, heartVars, seq, answer, told>>

Loop == Check \/ Wake \/ Hello \/ Identify \/ AnswerBeat \/ Read \/ ReadEnds \/ Leave
        \/ Mint \/ Revoke \/ Reply

Next ==
    \/ Stop \/ Loop \/ Drop
    \/ \E h \in hearts : Beat(h)
    \/ \E op \in Ops, i \in Invites \cup {0} : Gateway(op, i)
    \/ \E i \in Invites : SignUp(i)

Spec == Init /\ [][Next]_vars

\* The event loop runs the bot's loop as long as it can go on.
FairSpec == Spec /\ WF_vars(Loop)

-----------------------------------------------------------------------------
(* Properties *)

\* While the bot serves a connection that is open, whatever command it waits for, exactly that
\* connection's heartbeat runs; between connections none does (_run_once).
OneHeart ==
    /\ hearts \subseteq {session}
    /\ at \in {"check", "wait", "stopped"} => hearts = {}
    /\ at \notin {"check", "hello", "wait", "stopped"} /\ open => hearts = {session}

\* What was said of an invite is so: it is a row if it was listed, and no account came or
\* will come of it if it was revoked, whenever the sign-up ran (bot.py, account_engine/db.py).
RepliesAreTrue ==
    \A i \in Invites : /\ told[i] = "minted" => row[i] # "none"
                       /\ told[i] = "revoked" => row[i] = "gone"

\* After stop() no connection is opened (run).
NoneAfterStop == [][closing => session' = session]_vars

\* bot.py: a heartbeat has the "last dispatch sequence" of its connection, if there is one yet.
BeatFits == beat[2][1] \in {0, beat[1]}

\* stop() ends the bot.
StopEnds == closing ~> at = "stopped"
=============================================================================
