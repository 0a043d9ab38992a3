-------------------------------- MODULE Chat --------------------------------
(***************************************************************************)
(* The AI chat (app/routes/ai.py): requests that send a message into a     *)
(* conversation and let the provider answer over rounds of tool calls, by  *)
(* the plain route (chat) or the streaming one (chat_stream), beside       *)
(* deletions, relabelling, retention and changes of who may see which      *)
(* company.                                                                *)
(*                                                                         *)
(* A turn of a round is one transaction: the first flush takes SQLite's    *)
(* only write lock, the tools run, the commit publishes.  What the         *)
(* provider says is left out but for how many tools it calls; a call costs *)
(* one unit of the day's budget, and the hourly limit, which only refuses  *)
(* a plain request, is left out.  Ids, of conversations and of messages,   *)
(* are those SQLite gives: the largest one there is and one more.          *)
(***************************************************************************)
EXTENDS Integers, Sequences, FiniteSets, FiniteSetsExt

CONSTANTS
    Owner,              \* officers who chat
    Firm,               \* companies
    Sender,             \* request threads
    HISTORY_TURN_LIMIT, \* messages reloaded for the provider
    tool_call_cap, daily_budget_usd,
    MaxConversation,    \* bound on ids of conversations
    MaxMessages,        \* bound on ids of messages
    MaxTools            \* bound on the tools of one answer

NoCompany == "none"
NoOne == "nobody"

ASSUME ChatAssumption ==
    /\ NoOne \notin Sender
    /\ {HISTORY_TURN_LIMIT, tool_call_cap, daily_budget_usd} \subseteq Nat
    /\ {MaxConversation, MaxMessages, MaxTools} \subseteq Nat

VARIABLES
    conversations,      \* ai_conversations: [id -> row] of the ids there are
    messages,           \* ai_messages: [id -> row] of the ids there are
    assigned,           \* user_companies: [Owner -> companies]
    charged,            \* spent_today: today's calls in ai_usage, counted up to
                        \* the budget
    sender,             \* [Sender -> what the request is doing]
    writer              \* the request that holds the write lock

chatVars == <<conversations, messages, assigned, charged, sender, writer>>

\* A message: of a conversation, with a role; "batch" is the assistant's row
\* that asks for `call` tools, a "tool" row answers the `call`-th of them.
Message(c, role, call) == [conv |-> c, role |-> role, call |-> call]

NextMessage == Max({0} \cup DOMAIN messages) + 1

\* Rows are inserted in one transaction: their ids follow each other.
Insert(new) ==
    messages' = [i \in DOMAIN messages \cup NextMessage .. NextMessage + Len(new) - 1 |->
                    IF i \in DOMAIN messages THEN messages[i] ELSE new[i - NextMessage + 1]]

\* The ids of a conversation.
RowsOf(c) == {i \in DOMAIN messages : messages[i].conv = c}

\* The last messages of a conversation, as the provider is sent them.
_load_history(c) ==
    {i \in RowsOf(c) : Cardinality({j \in RowsOf(c) : i <= j}) <= HISTORY_TURN_LIMIT}

can_access_company(u, k) == k \in assigned[u]

\* Why a conversation takes no message of its owner, if so.
_conversation_lock(u, c) ==
    /\ conversations[c].company # NoCompany
    /\ ~can_access_company(u, conversations[c].company)

\* The label of a new conversation by what the page names: the first company
\* named, but none if it is out of reach.
resolve_company_for_new_conversation(u, named) ==
    IF named # NoCompany /\ can_access_company(u, named) THEN named ELSE NoCompany

\* A conversation without a label takes the one company the message mentions.
late_assign_company(u, label, mentions) ==
    IF label = NoCompany /\ Cardinality(mentions) = 1 /\ mentions \subseteq assigned[u]
    THEN CHOOSE k \in mentions : TRUE ELSE label

-----------------------------------------------------------------------------
(* Sending                                                                 *)

NoRequest == [pc |-> "idle", user |-> NoOne, conv |-> 0, stream |-> FALSE, label |-> NoCompany,
         relabel |-> FALSE, round |-> 0, tools |-> 0, turn |-> <<>>]

\* check_daily_budget, which only the plain route calls.
MayStart(stream) == stream \/ charged < daily_budget_usd

\* The guards of a request and what it reads: the conversation it goes on
\* with, or 0 for a new one, and the label that is to have.
Admit(t, u, c, stream, named, mentions) ==
    LET before == IF c = 0 THEN resolve_company_for_new_conversation(u, named)
                           ELSE conversations[c].company
        label == late_assign_company(u, before, mentions)
    IN  /\ sender[t] = NoRequest /\ MayStart(stream)
        /\ c # 0 => /\ c \in DOMAIN conversations /\ conversations[c].user = u
                    /\ ~_conversation_lock(u, c)
        /\ sender' = [sender EXCEPT ![t] =
              [NoRequest EXCEPT !.pc = "admitted", !.user = u, !.conv = c, !.stream = stream,
                           !.label = IF c = 0 \/ label # before THEN label ELSE NoCompany,
                           !.relabel = (c = 0 \/ label # before)]]
        /\ UNCHANGED <<conversations, messages, assigned, charged, writer>>

NextId == Max({0} \cup DOMAIN conversations) + 1

\* The user's message is committed; from then on the provider is sent the
\* history and what the request adds to it.  A label found
\* by the request is written over whatever is there by now.
SaveQuestion(t) ==
    LET s == sender[t]
        c == IF s.conv = 0 THEN NextId ELSE s.conv
        row == IF s.relabel THEN [user |-> s.user, company |-> s.label] ELSE conversations[c]
    IN  /\ s.pc = "admitted" /\ writer = NoOne
        /\ s.conv # 0 => c \in DOMAIN conversations
        /\ c <= MaxConversation /\ NextMessage <= MaxMessages
        /\ conversations' = [d \in DOMAIN conversations \cup {c} |->
                                IF d = c THEN row ELSE conversations[d]]
        /\ Insert(<<Message(c, "user", 0)>>)
        /\ sender' = [sender EXCEPT ![t] =
              [NoRequest EXCEPT !.pc = "asking", !.conv = c, !.stream = s.stream]]
        /\ UNCHANGED <<assigned, charged, writer>>

\* Another request holds the lock for too long, or the conversation is gone.
QuestionFails(t) ==
    /\ sender[t].pc = "admitted"
    /\ writer # NoOne \/ sender[t].conv \notin {0} \cup DOMAIN conversations
    /\ sender' = [sender EXCEPT ![t] = NoRequest]
    /\ UNCHANGED <<conversations, messages, assigned, charged, writer>>

\* The provider answers: with a text, or with tools to call.
Answer(t, tools) ==
    /\ sender[t].pc = "asking" /\ sender[t].round < tool_call_cap
    /\ sender' = [sender EXCEPT ![t].pc = "answered", ![t].round = @ + 1, ![t].tools = tools]
    /\ UNCHANGED <<conversations, messages, assigned, charged, writer>>

\* The provider and its fallback fail, or the rounds are used up; for the
\* streaming route, the reader may leave at any event of the answer.
\* Mutant: what was flushed by then is committed.
LeaveCommits(t) ==
    /\ sender[t].pc = "asking" \/ (sender[t].stream /\ sender[t].pc \in {"answered", "turn"})
    /\ sender' = [sender EXCEPT ![t] = NoRequest]
    /\ Insert(sender[t].turn)
    /\ writer' = IF writer = t THEN NoOne ELSE writer
    /\ UNCHANGED <<conversations, assigned, charged>>
GiveUp(t) ==
    /\ sender[t].pc = "asking" \/ (sender[t].stream /\ sender[t].pc \in {"answered", "turn"})
    /\ sender' = [sender EXCEPT ![t] = NoRequest]
    /\ writer' = IF writer = t THEN NoOne ELSE writer
    /\ UNCHANGED <<conversations, messages, assigned, charged>>

\* The row of the answer is flushed, which takes the lock.
ChatTurn(t) ==
    LET s == sender[t]
        row == Message(s.conv, IF s.tools = 0 THEN "assistant" ELSE "batch", s.tools)
    IN  /\ s.pc = "answered" /\ writer = NoOne /\ s.conv \in DOMAIN conversations
        /\ NextMessage + s.tools <= MaxMessages
        /\ writer' = t
        /\ sender' = [sender EXCEPT ![t].pc = "turn", ![t].turn = <<row>>]
        /\ UNCHANGED <<conversations, messages, assigned, charged>>

\* The flush fails: the answer is lost, and its call is in no ledger.
TurnFails(t) ==
    /\ sender[t].pc = "answered"
    /\ writer # NoOne \/ sender[t].conv \notin DOMAIN conversations
    /\ sender' = [sender EXCEPT ![t] = NoRequest]
    /\ UNCHANGED <<conversations, messages, assigned, charged, writer>>

\* One tool runs (run_tool, which answers its own errors).
RunTool(t) ==
    LET s == sender[t] IN
    /\ s.pc = "turn" /\ Len(s.turn) <= s.tools
    /\ sender' = [sender EXCEPT ![t].turn = Append(@, Message(s.conv, "tool", Len(@)))]
    /\ UNCHANGED <<conversations, messages, assigned, charged, writer>>

\* The turn and its line of the ledger are committed; a text ends the request.
CommitTurn(t) ==
    LET s == sender[t] IN
    /\ s.pc = "turn" /\ Len(s.turn) = s.tools + 1
    /\ Insert(s.turn)
    /\ charged' = Min({charged + 1, daily_budget_usd})
    /\ writer' = NoOne
    /\ sender' = [sender EXCEPT ![t] =
          IF s.tools = 0 THEN NoRequest
          ELSE [s EXCEPT !.pc = "asking", !.turn = <<>>, !.tools = 0]]
    /\ UNCHANGED <<conversations, assigned>>

-----------------------------------------------------------------------------
(* Beside it                                                               *)

Keep(ids) ==
    /\ writer = NoOne
    /\ conversations' = [c \in DOMAIN conversations \cap ids |-> conversations[c]]
    /\ messages' = [i \in {j \in DOMAIN messages : messages[j].conv \in ids} |-> messages[i]]
    /\ UNCHANGED <<assigned, charged, sender, writer>>

\* delete_conversation, by its owner; its messages go with it.
Delete(c) == c \in DOMAIN conversations /\ Keep(DOMAIN conversations \ {c})

\* _cleanup_once: conversations from before one day, messages before another.
Retention(n) == n \in DOMAIN conversations /\ Keep({c \in DOMAIN conversations : c > n})

AuditRetention(n) ==
    /\ writer = NoOne /\ n \in DOMAIN messages
    /\ messages' = [i \in {j \in DOMAIN messages : j > n} |-> messages[i]]
    /\ UNCHANGED <<conversations, assigned, charged, sender, writer>>

\* update_conversation_company: the owner, of companies in reach, or an admin.
Relabel(c, k) ==
    /\ writer = NoOne /\ c \in DOMAIN conversations
    /\ conversations' = [conversations EXCEPT ![c].company = k]
    /\ UNCHANGED <<messages, assigned, charged, sender, writer>>

\* user_scope_save.
SaveScope(u, ks) ==
    /\ writer = NoOne
    /\ assigned' = [assigned EXCEPT ![u] = ks]
    /\ UNCHANGED <<conversations, messages, charged, sender, writer>>

Midnight ==
    /\ charged' = 0
    /\ UNCHANGED <<conversations, messages, assigned, sender, writer>>

ChatInit ==
    /\ conversations = <<>> /\ messages = <<>>
    /\ assigned = [u \in Owner |-> Firm]
    /\ charged = 0
    /\ sender = [t \in Sender |-> NoRequest] /\ writer = NoOne

ChatNext ==
    \/ \E t \in Sender :
          \/ \E u \in Owner, c \in 0 .. MaxConversation, stream \in BOOLEAN,
                named \in Firm \cup {NoCompany}, mentions \in SUBSET Firm :
                   Admit(t, u, c, stream, named, mentions)
          \/ SaveQuestion(t) \/ QuestionFails(t)
          \/ \E tools \in 0 .. MaxTools : Answer(t, tools)
          \/ GiveUp(t) \/ ChatTurn(t) \/ TurnFails(t) \/ RunTool(t) \/ CommitTurn(t)
    \/ \E c \in 1 .. MaxConversation : Delete(c) \/ Retention(c)
    \/ \E n \in 1 .. MaxMessages : AuditRetention(n)
    \/ \E c \in 1 .. MaxConversation, k \in Firm \cup {NoCompany} : Relabel(c, k)
    \/ \E u \in Owner, ks \in SUBSET Firm : SaveScope(u, ks)
    \/ Midnight

-----------------------------------------------------------------------------
(* Properties                                                              *)

ChatTypeOK ==
    /\ DOMAIN conversations \subseteq 1 .. MaxConversation
    /\ \A c \in DOMAIN conversations :
          conversations[c] \in [user : Owner, company : Firm \cup {NoCompany}]
    /\ DOMAIN messages \subseteq 1 .. MaxMessages
    /\ \A i \in DOMAIN messages : messages[i].conv \in DOMAIN conversations
    /\ writer \in Sender \cup {NoOne}
    /\ \A t \in Sender : writer = t <=> sender[t].pc = "turn"

\* Every call for tools is answered, by one row after it for each tool, and no
\* tool row stands alone, but for those at the beginning, whose head was cut away.
Whole(ids) ==
    \A i \in ids :
        /\ messages[i].role = "batch" =>
              \A j \in 1 .. messages[i].call :
                  i + j \in ids /\ messages[i + j] = Message(messages[i].conv, "tool", j)
        /\ messages[i].role = "tool" =>
              \/ \A k \in ids : i <= k
              \/ /\ i - 1 \in ids
                 /\ \/ messages[i - 1].role = "tool" /\ messages[i - 1].call = messages[i].call - 1
                    \/ messages[i - 1].role = "batch" /\ messages[i].call = 1

\* What a conversation holds, and what the provider is sent of it, is a
\* sequence of questions, texts and answered calls: two requests in one
\* conversation, readers who leave, deletions and retention never part a call
\* from its answers (_load_history, "OpenAI format").
HistoryWhole ==
    \A c \in DOMAIN conversations : Whole(RowsOf(c)) /\ Whole(_load_history(c))

=============================================================================
