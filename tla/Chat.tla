------------------------------- MODULE Chat -------------------------------
(* chat_engine: a viewer's messages to Lumi.  Each POST /chat passes the gate,
   is held against the month's ledger, opens a conversation and then streams
   rounds of one model call, its usage and its tool calls, and saves the
   exchange at the end.  Every step between two awaits of
   conversation.reply is an action, so requests of the same viewer, the
   operator's changes and a deletion of the conversation fall between them. *)
EXTENDS Integers, Sequences, FiniteSets

CONSTANTS Chats,      \* requests of the viewer that can be under way at once
          Budgets,    \* token ceilings the operator may set; 0 means none
          Rounds,     \* max_tool_iterations
          Cost,       \* the most tokens one round uses
          MaxCalls,   \* tool calls one turn asks for
          MaxConvs,   \* bound: conversations opened
          MaxAsked    \* bound: messages sent in a behaviour

VARIABLES operator,   \* chat_settings and the account's grant and own budget
          ledger,     \* SUM of chat_usage since the month began
          ids,        \* conversation ids handed out
          messages,   \* conversation |-> roles of its rows, oldest first
          chat,       \* request |-> where its handler stands
          asked

vars == <<operator, ledger, ids, messages, chat, asked>>

None == -1            \* SQL NULL: no budget of the account's own
Convs == DOMAIN messages
Idle == [at |-> "idle", user |-> None, conv |-> 0, round |-> 0, calls |-> 0,
         said |-> FALSE]

TypeOK ==
    /\ operator \in [awake: BOOLEAN, budget: Budgets,
                     own: Budgets \cup {None}]
    /\ ledger \in Nat /\ ids \in Nat /\ asked \in 0..MaxAsked
    /\ Convs \subseteq 1..ids
    /\ \A k \in Convs : messages[k] \in Seq({"user", "assistant"})
    /\ chat \in [Chats -> [at: {"idle", "gated", "within", "opened", "model", "turn",
                                "tools", "answered", "question", "answer"},
                           user: Budgets \cup {None}, conv: 0..ids, round: 0..Rounds,
                           calls: 0..MaxCalls, said: BOOLEAN]]

Init ==
    /\ operator = [awake |-> TRUE,
                   budget |-> CHOOSE b \in Budgets : \A o \in Budgets : o <= b,
                   own |-> None]
    /\ ledger = 0 /\ ids = 0 /\ asked = 0
    /\ messages = <<>>
    /\ chat = [c \in Chats |-> Idle]

Rest(c) == chat' = [chat EXCEPT ![c] = Idle]
To(c, at) == chat' = [chat EXCEPT ![c].at = at]

\* require_user and require_chat_user: the account's row is read here and
\* travels with the request.  `awake`: the feature is on, its key is configured
\* and the account has its grant.
Gate(c) ==
    /\ chat[c] = Idle /\ asked < MaxAsked
    /\ operator.awake
    /\ asked' = asked + 1
    /\ chat' = [chat EXCEPT ![c].at = "gated", ![c].user = operator.own]
    /\ UNCHANGED <<operator, ledger, ids, messages>>

OverBudget(c) ==
    LET budget == IF chat[c].user # None THEN chat[c].user ELSE operator.budget
    IN  budget > 0 /\ ledger > budget
Exhausted(c) ==
    LET budget == IF chat[c].user # None THEN chat[c].user ELSE operator.budget
    IN  budget > 0 /\ ledger >= budget

\* _open_conversation, first half: 429 past the budget.
CheckBudget(c) ==
    /\ chat[c].at = "gated"
    /\ IF Exhausted(c) THEN Rest(c) ELSE To(c, "within")
    /\ UNCHANGED <<operator, ledger, ids, messages, asked>>

\* get_or_create_conversation: the viewer's own conversation, or a new one for
\* an id that is missing, gone or another's.
Open(c) ==
    /\ chat[c].at = "within"
    /\ \/ \E k \in Convs :
            /\ chat' = [chat EXCEPT ![c].at = "opened", ![c].conv = k]
            /\ UNCHANGED <<ids, messages>>
       \/ /\ ids < MaxConvs
          /\ ids' = ids + 1
          /\ messages' = [k \in Convs \cup {ids + 1} |->
                             IF k \in Convs THEN messages[k] ELSE <<>>]
          /\ chat' = [chat EXCEPT ![c].at = "opened", ![c].conv = ids + 1]
    /\ UNCHANGED <<operator, ledger, asked>>

\* `start` is sent and the history is read (a failure of the read is an `error`).
Begin(c) ==
    /\ chat[c].at = "opened"
    /\ Rest(c) \/ To(c, "model")
    /\ UNCHANGED <<operator, ledger, ids, messages, asked>>

\* stream_turn: text as it arrives, then one terminal turn with its tool calls;
\* ProviderError, or a stream with no turn, is an `error`.
Turn(c) ==
    /\ chat[c].at = "model"
    /\ \E n \in 0..MaxCalls, said \in {chat[c].said, TRUE} :
         chat' = [chat EXCEPT ![c].at = "turn", ![c].calls = n, ![c].said = said]
    /\ UNCHANGED <<operator, ledger, ids, messages, asked>>

Silence(c) ==
    /\ chat[c].at = "model"
    /\ Rest(c)
    /\ UNCHANGED <<operator, ledger, ids, messages, asked>>

\* record_usage runs in a thread of its own: the viewer leaving does not stop it.
Charge(c) ==
    /\ chat[c].at = "turn"
    /\ \/ \E n \in 1..Cost : ledger' = ledger + n /\ To(c, "tools")
       \/ UNCHANGED ledger /\ Rest(c)
    /\ UNCHANGED <<operator, ids, messages, asked>>

\* Mutant: the loop goes round once more.
LastRoundLater(c) == chat[c].round = Rounds

\* The loop ends at its last round, whatever the model still asks for.
LastRound(c) == chat[c].round + 1 = Rounds

\* tools.dispatch: a tool that fails answers with an error, so it never ends the
\* reply (what manage_watchlist saves is the account's library).
Dispatch(c) ==
    /\ chat[c].at = "tools" /\ chat[c].calls > 0
    /\ chat' = [chat EXCEPT
          ![c].calls = @ - 1,
          ![c].round = IF chat[c].calls = 1 THEN @ + 1 ELSE @,
          ![c].said = @ \/ (chat[c].calls = 1 /\ LastRound(c)),
          ![c].at = IF chat[c].calls > 1 THEN "tools"
                    ELSE IF LastRound(c) THEN "answered" ELSE "model"]
    /\ UNCHANGED <<operator, ledger, ids, messages, asked>>

\* No tool asked for: the loop is left.
NoTools(c) ==
    /\ chat[c].at = "tools" /\ chat[c].calls = 0
    /\ To(c, "answered")
    /\ UNCHANGED <<operator, ledger, ids, messages, asked>>

\* _save_exchange, when anything was said.
Answered(c) ==
    /\ chat[c].at = "answered"
    /\ IF chat[c].said THEN To(c, "question") ELSE Rest(c)
    /\ UNCHANGED <<operator, ledger, ids, messages, asked>>

\* add_message, a transaction of its own: the foreign key refuses a row of a
\* conversation that is gone, and any failure ends the reply with `error`.
Add(c, role) == messages' = [messages EXCEPT ![chat[c].conv] = Append(@, role)]

\* Mutant: the answer is stored whether or not its question was.
SaveQuestionAnyway(c) ==
    /\ chat[c].at = "question"
    /\ \/ chat[c].conv \in Convs /\ Add(c, "user")
       \/ UNCHANGED messages
    /\ To(c, "answer")
    /\ UNCHANGED <<operator, ledger, ids, asked>>

SaveQuestion(c) ==
    /\ chat[c].at = "question"
    /\ \/ /\ chat[c].conv \in Convs
          /\ Add(c, "user")
          /\ To(c, "answer")
       \/ UNCHANGED messages /\ Rest(c)
    /\ UNCHANGED <<operator, ledger, ids, asked>>

SaveAnswer(c) ==
    /\ chat[c].at = "answer"
    /\ \/ chat[c].conv \in Convs /\ Add(c, "assistant")
       \/ UNCHANGED messages
    /\ Rest(c)
    /\ UNCHANGED <<operator, ledger, ids, asked>>

\* The viewer closes the drawer: the generator is closed at its next yield or await.
Leave(c) ==
    /\ chat[c].at \in {"opened", "model", "tools"}
    /\ Rest(c)
    /\ UNCHANGED <<operator, ledger, ids, messages, asked>>

\* DELETE /chat/conversations/{id}, and prune of one that is thirty days old:
\* the messages cascade.
Delete(k) ==
    /\ k \in Convs
    /\ messages' = [j \in Convs \ {k} |-> messages[j]]
    /\ UNCHANGED <<operator, ledger, ids, chat, asked>>

\* PATCH /admin/chat/settings and the grants of PATCH /admin/users/{id}.
Operate ==
    /\ \E b \in Budgets :
         operator' \in {[operator EXCEPT !.awake = ~@], [operator EXCEPT !.budget = b], [operator EXCEPT !.own = b],
                        [operator EXCEPT !.own = None]}
    /\ UNCHANGED <<ledger, ids, messages, chat, asked>>

NewMonth ==
    /\ ledger' = 0
    /\ UNCHANGED <<operator, ids, messages, chat, asked>>

Next ==
    \/ \E c \in Chats :
         \/ Gate(c) \/ CheckBudget(c) \/ Open(c) \/ Begin(c)
         \/ Turn(c) \/ Silence(c) \/ Charge(c) \/ Dispatch(c) \/ NoTools(c)
         \/ Answered(c) \/ SaveQuestion(c) \/ SaveAnswer(c) \/ Leave(c)
    \/ \E k \in Convs : Delete(k)
    \/ Operate \/ NewMonth

Spec == Init /\ [][Next]_vars

-----------------------------------------------------------------------------
\* However the requests of a viewer overlap, the month's ledger passes the
\* highest ceiling by no more than the rounds of the requests that were under way
\* together: "The budget bounds the next message rather than cutting the current
\* reply short" (_open_conversation).
Top == CHOOSE b \in Budgets : \A o \in Budgets : o <= b
SpendIsBounded == 0 \notin Budgets => ledger < Top + Cardinality(Chats) * Rounds * Cost

\* An answer is stored only behind its question: at every point of a conversation
\* there are no more answers than questions, whatever failed in between and
\* however two tabs interleave in one conversation (_save_exchange).
AnswerHasQuestion ==
    \A k \in Convs : \A n \in 1..Len(messages[k]) :
       LET before(role) == {i \in 1..n : messages[k][i] = role}
       IN  Cardinality(before("assistant")) <= Cardinality(before("user"))
=============================================================================
