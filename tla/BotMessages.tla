----------------------------- MODULE BotMessages -----------------------------
(***************************************************************************)
(* The messages of the bot in one chat (MessageHandler.handle in           *)
(* src/bot/handlers/message/handler.py): handlers of concurrent flows send *)
(* their messages one request after the other, keep the ids of the last    *)
(* ones in the storage of the chat, and, unless a message is sent `as      *)
(* new', start a task that takes the stored ids and deletes what they      *)
(* name.  Transactions are atomic here: their bodies await nothing.        *)
(***************************************************************************)
EXTENDS Naturals, FiniteSets

CONSTANTS
    Handlers,     \* calls of MessageHandler.handle in the chat
    MaxRequests,  \* bound: messages that one call sends
    MaxCrashes    \* bound: crashes of the hub

ASSUME BoundsAssumption == MaxRequests \in Nat /\ MaxCrashes \in Nat

VARIABLES
    stored,       \* storage: last_bot_message_ids
    chat,         \* Telegram: the messages of the bot that are in the chat
    asNew,        \* handler -> message.settings.send_as_new_message
    at,           \* handler -> where it stands
    sent,         \* handler -> how many of its requests were answered
    deletion,     \* handler -> where the deletion task it started stands
    ids,          \* handler -> the ids that task has taken
    crashes       \* history: crashes so far

vars == <<stored, chat, asNew, at, sent, deletion, ids, crashes>>

\* A message is known by the handler that sent it and its place among its messages.
Messages == Handlers \X (1 .. MaxRequests)

TypeOK ==
    /\ stored \subseteq Messages /\ chat \subseteq Messages
    /\ asNew \in [Handlers -> BOOLEAN]
    /\ at \in [Handlers -> {"idle", "sending", "storing", "ended", "raised"}]
    /\ sent \in [Handlers -> 0 .. MaxRequests]
    /\ deletion \in [Handlers -> {"none", "taking", "deleting", "done"}]
    /\ ids \in [Handlers -> SUBSET Messages]
    /\ crashes \in 0 .. MaxCrashes

Init ==
    /\ stored = {} /\ chat = {}
    /\ asNew \in [Handlers -> BOOLEAN]
    /\ at = [h \in Handlers |-> "idle"]
    /\ sent = [h \in Handlers |-> 0]
    /\ deletion = [h \in Handlers |-> "none"]
    /\ ids = [h \in Handlers |-> {}]
    /\ crashes = 0

\* The messages that h has got answers for.
Mine(h) == {h} \X (1 .. sent[h])

-----------------------------------------------------------------------------
(* A handler.                                                               *)

Begin(h) ==
    /\ at[h] = "idle"
    /\ at' = [at EXCEPT ![h] = "sending"]
    /\ UNCHANGED <<stored, chat, asNew, sent, deletion, ids, crashes>>

Send(h) ==
    /\ at[h] = "sending" /\ sent[h] < MaxRequests
    /\ sent' = [sent EXCEPT ![h] = @ + 1]
    /\ chat' = chat \cup {<<h, sent[h] + 1>>}
    /\ UNCHANGED <<stored, asNew, at, deletion, ids, crashes>>

\* A request raises, although its message may be in the chat.  What was sent is not
\* stored.
SendFails(h) ==
    /\ at[h] = "sending"
    /\ at' = [at EXCEPT ![h] = "raised"]
    /\ chat' \in {chat, chat \cup {m \in Messages : m = <<h, sent[h] + 1>>}}
    /\ UNCHANGED <<stored, asNew, sent, deletion, ids, crashes>>

\* All requests of the message were answered.
AllSent(h) ==
    /\ at[h] = "sending"
    /\ at' = [at EXCEPT ![h] = "storing"]
    /\ UNCHANGED <<stored, chat, asNew, sent, deletion, ids, crashes>>

\* Mutant: only the id of the last message is stored.
StoreLast(h) ==
    /\ at[h] = "storing"
    /\ stored' = Mine(h) \cap {<<h, sent[h]>>}
    /\ at' = [at EXCEPT ![h] = "ended"]
    /\ deletion' = [deletion EXCEPT ![h] = IF asNew[h] THEN "none" ELSE "taking"]
    /\ UNCHANGED <<chat, asNew, sent, ids, crashes>>

\* The ids replace the stored ones; unless sent as new, the deletion task is created.
Store(h) ==
    /\ at[h] = "storing"
    /\ stored' = Mine(h)
    /\ at' = [at EXCEPT ![h] = "ended"]
    /\ deletion' = [deletion EXCEPT ![h] = IF asNew[h] THEN "none" ELSE "taking"]
    /\ UNCHANGED <<chat, asNew, sent, ids, crashes>>

\* The transaction raises, although it may have been carried out.
StoreFails(h) ==
    /\ at[h] = "storing"
    /\ stored' \in {stored, Mine(h)}
    /\ at' = [at EXCEPT ![h] = "raised"]
    /\ UNCHANGED <<chat, asNew, sent, deletion, ids, crashes>>

-----------------------------------------------------------------------------
(* A deletion task (_delete_last_bot_messages).                             *)

\* Mutant: the ids are not cleared.
Peek(h) ==
    /\ deletion[h] = "taking"
    /\ ids' = [ids EXCEPT ![h] = stored]
    /\ deletion' = [deletion EXCEPT ![h] = IF stored = {} THEN "done" ELSE "deleting"]
    /\ UNCHANGED <<stored, chat, asNew, at, sent, crashes>>

\* The transaction that takes the stored ids.
Take(h) ==
    /\ deletion[h] = "taking"
    /\ ids' = [ids EXCEPT ![h] = stored]
    /\ stored' = {}
    /\ deletion' = [deletion EXCEPT ![h] = IF stored = {} THEN "done" ELSE "deleting"]
    /\ UNCHANGED <<chat, asNew, at, sent, crashes>>

TakeFails(h) ==
    /\ deletion[h] = "taking"
    /\ stored' \in {stored, {}}
    /\ deletion' = [deletion EXCEPT ![h] = "done"]
    /\ UNCHANGED <<chat, asNew, at, sent, ids, crashes>>

\* deleteMessages, one request for all: carried out, or not; nobody reads its answer.
Delete(h) ==
    /\ deletion[h] = "deleting"
    /\ chat' \in {chat, chat \ ids[h]}
    /\ deletion' = [deletion EXCEPT ![h] = "done"]
    /\ UNCHANGED <<stored, asNew, at, sent, ids, crashes>>

\* The hub dies; handlers that have not begun run in the next one.
Crash ==
    /\ crashes < MaxCrashes
    /\ crashes' = crashes + 1
    /\ at' = [h \in Handlers |-> IF at[h] \in {"sending", "storing"} THEN "raised" ELSE at[h]]
    /\ deletion' = [h \in Handlers |-> IF deletion[h] = "none" THEN "none" ELSE "done"]
    /\ UNCHANGED <<stored, chat, asNew, sent, ids>>

Handle(h) == Begin(h) \/ Send(h) \/ SendFails(h) \/ AllSent(h) \/ Store(h) \/ StoreFails(h)
DeleteLast(h) == Take(h) \/ TakeFails(h) \/ Delete(h)
Next == Crash \/ \E h \in Handlers : Handle(h) \/ DeleteLast(h)

Spec == Init /\ [][Next]_vars

-----------------------------------------------------------------------------

\* No message is named in two deletion requests, or in one while its id is stored:
\* deletion tasks that overlap share nothing.
DeletedOnce == \A h \in Handlers :
    /\ ids[h] \cap stored = {}
    /\ \A g \in Handlers \ {h} : ids[h] \cap ids[g] = {}

\* The messages of one handler are in the chat as a whole or not at all, and none is
\* deleted while the handler is still sending.
WholeMessages == \A h \in Handlers :
    /\ Mine(h) \subseteq chat \/ Mine(h) \cap chat = {}
    /\ at[h] \in {"sending", "storing"} => Mine(h) \subseteq chat

\* What src/bot/handlers/message/handler.py:26 calls the last messages of the bot are
\* not the ones just sent: the task a handler starts does not delete its own message.
LastAreEarlier == \A h \in Handlers : ids[h] \cap Mine(h) = {}
=============================================================================
