------------------------- MODULE BotMessagesProofs -------------------------
(***************************************************************************)
(* For any number of handlers and messages: deletion tasks share no        *)
(* message, and what one handler sent is deleted as a whole.               *)
(***************************************************************************)
EXTENDS BotMessages, TLAPS

\* Of the messages of one handler a set has all or none.
Whole(S) == \A h \in Handlers : Mine(h) \subseteq S \/ Mine(h) \cap S = {}

\* Ids are stored and taken for whole handlers, and only after these have sent.
Groups ==
    /\ Whole(stored) /\ Whole(chat)
    /\ \A h \in Handlers : Whole(ids[h])
    /\ \A h \in Handlers : at[h] \in {"idle", "sending", "storing"} =>
          /\ Mine(h) \subseteq chat
          /\ Mine(h) \cap stored = {}
          /\ \A g \in Handlers : Mine(h) \cap ids[g] = {}
    /\ \A h \in Handlers : at[h] = "idle" => sent[h] = 0

\* A task has no ids before it takes some; it is created by a handler that has ended.
Tasks == \A h \in Handlers :
    /\ deletion[h] \in {"none", "taking"} => ids[h] = {}
    /\ at[h] # "ended" => deletion[h] = "none"

\* What is named anywhere was sent.
Named ==
    /\ stored \subseteq UNION {Mine(h) : h \in Handlers}
    /\ \A h \in Handlers : ids[h] \subseteq UNION {Mine(g) : g \in Handlers}

IInv == TypeOK /\ DeletedOnce /\ Groups /\ Tasks /\ Named

LEMMA MineApart ==
    ASSUME NEW h \in Handlers, NEW g \in Handlers, g # h
    PROVE  Mine(h) \cap Mine(g) = {}
BY DEF Mine

LEMMA TypeStep == TypeOK /\ [Next]_vars => TypeOK'
<1> SUFFICES ASSUME TypeOK, [Next]_vars PROVE TypeOK'
  OBVIOUS
<1> USE BoundsAssumption DEF TypeOK
<1>1. ASSUME NEW h \in Handlers, Begin(h) \/ AllSent(h) PROVE TypeOK'
  BY <1>1 DEF Begin, AllSent
<1>2. ASSUME NEW h \in Handlers, Send(h) PROVE TypeOK'
  <2>1. <<h, sent[h] + 1>> \in Messages /\ sent[h] + 1 \in 0 .. MaxRequests
    BY <1>2 DEF Send, Messages
  <2> QED  BY <1>2, <2>1 DEF Send
<1>3. ASSUME NEW h \in Handlers, SendFails(h) PROVE TypeOK'
  BY <1>3 DEF SendFails
<1>4. ASSUME NEW h \in Handlers PROVE Mine(h) \subseteq Messages
  BY DEF Mine, Messages
<1>5. ASSUME NEW h \in Handlers, Store(h) \/ StoreFails(h) PROVE TypeOK'
  BY <1>4, <1>5 DEF Store, StoreFails
<1>6. ASSUME NEW h \in Handlers, DeleteLast(h) PROVE TypeOK'
  BY <1>6 DEF DeleteLast, Take, TakeFails, Delete
<1>7. CASE Crash
  BY <1>7 DEF Crash
<1>8. CASE UNCHANGED vars
  BY <1>8 DEF vars
<1> QED  BY <1>1, <1>2, <1>3, <1>5, <1>6, <1>7, <1>8 DEF Next, Handle

\* Every variable of the model keeps its type.
THEOREM TypeCorrect == Spec => []TypeOK
<1>1. Init => TypeOK
  BY BoundsAssumption DEF Init, TypeOK
<1> QED  BY <1>1, TypeStep, PTL DEF Spec

LEMMA InvInit == Init => IInv
<1> SUFFICES ASSUME Init PROVE IInv
  OBVIOUS
<1>1. TypeOK
  BY BoundsAssumption DEF Init, TypeOK
<1>2. \A h \in Handlers : Mine(h) = {}
  BY DEF Init, Mine
<1>3. DeletedOnce /\ Groups /\ Tasks /\ Named
  BY <1>2 DEF Init, DeletedOnce, Groups, Whole, Tasks, Named
<1> QED  BY <1>1, <1>3 DEF IInv

\* Steps that leave what was sent and named alone.
LEMMA NothingNamed ==
    ASSUME IInv, TypeOK', UNCHANGED <<stored, chat, sent, ids>>,
           \A h \in Handlers : at'[h] \in {"idle", "sending", "storing"} =>
               at[h] \in {"idle", "sending", "storing"} /\ (at'[h] = "idle" => at[h] = "idle"),
           \A h \in Handlers : /\ deletion'[h] \in {"none", "taking"} => deletion[h] \in {"none", "taking"}
                               /\ at'[h] # "ended" => deletion'[h] = "none"
    PROVE  IInv'
<1>1. \A h \in Handlers : Mine(h)' = Mine(h)
  BY DEF Mine
<1>2. DeletedOnce'
  BY DEF IInv, DeletedOnce
<1>3. Groups'
  BY <1>1 DEF IInv, Groups, Whole
<1>4. Tasks'
  BY DEF IInv, Tasks
<1>5. Named'
  BY <1>1 DEF IInv, Named
<1> QED  BY <1>2, <1>3, <1>4, <1>5 DEF IInv

LEMMA SendKeeps ==
    ASSUME IInv, TypeOK', NEW h \in Handlers, Send(h)
    PROVE  IInv'
<1> DEFINE new == <<h, sent[h] + 1>>
<1>1. /\ at[h] = "sending" /\ sent' = [sent EXCEPT ![h] = @ + 1] /\ chat' = chat \cup {new}
      /\ UNCHANGED <<stored, at, deletion, ids>> /\ sent[h] \in Nat
  BY BoundsAssumption DEF Send, IInv, TypeOK
<1>2. Mine(h)' = Mine(h) \cup {new} /\ \A g \in Handlers : g # h => Mine(g)' = Mine(g)
  BY <1>1 DEF Mine, IInv, TypeOK
<1>3. \A g \in Handlers : new \notin Mine(g)
  BY <1>1 DEF Mine
<1>4. new \notin stored /\ \A g \in Handlers : new \notin ids[g]
  BY <1>3 DEF IInv, Named
<1>5. Mine(h) \subseteq chat /\ Mine(h) \cap stored = {} /\ \A g \in Handlers : Mine(h) \cap ids[g] = {}
  BY <1>1 DEF IInv, Groups
<1>6. Groups'
  <2>1. Whole(stored)' /\ \A g \in Handlers : Whole(ids[g])'
    BY <1>1, <1>2, <1>4, <1>5 DEF IInv, Groups, Whole
  <2>2. Whole(chat)'
    BY <1>1, <1>2, <1>3, <1>5 DEF IInv, Groups, Whole
  <2>3. \A g \in Handlers : at'[g] \in {"idle", "sending", "storing"} =>
          /\ Mine(g)' \subseteq chat'
          /\ Mine(g)' \cap stored' = {}
          /\ \A k \in Handlers : Mine(g)' \cap ids'[k] = {}
    BY <1>1, <1>2, <1>4, <1>5 DEF IInv, Groups
  <2>4. \A g \in Handlers : at'[g] = "idle" => sent'[g] = 0
    BY <1>1 DEF IInv, TypeOK, Groups
  <2> QED  BY <2>1, <2>2, <2>3, <2>4 DEF Groups
<1>7. DeletedOnce' /\ Tasks'
  BY <1>1 DEF IInv, DeletedOnce, Tasks
<1>8. Named'
  BY <1>1, <1>2 DEF IInv, Named
<1> QED  BY <1>6, <1>7, <1>8 DEF IInv

\* A message nobody was told of belongs to nobody's messages.
LEMMA SendFailsKeeps ==
    ASSUME IInv, TypeOK', NEW h \in Handlers, SendFails(h)
    PROVE  IInv'
<1>1. /\ at[h] = "sending" /\ at' = [at EXCEPT ![h] = "raised"]
      /\ UNCHANGED <<stored, sent, deletion, ids>>
      /\ chat \subseteq chat' /\ chat' \subseteq chat \cup {<<h, sent[h] + 1>>}
  BY DEF SendFails
<1>2. \A g \in Handlers : Mine(g)' = Mine(g) /\ <<h, sent[h] + 1>> \notin Mine(g)
  BY <1>1 DEF Mine, IInv, TypeOK
<1>3. Groups'
  BY <1>1, <1>2 DEF IInv, TypeOK, Groups, Whole
<1>4. DeletedOnce' /\ Tasks' /\ Named'
  BY <1>1, <1>2 DEF IInv, TypeOK, DeletedOnce, Tasks, Named
<1> QED  BY <1>3, <1>4 DEF IInv

LEMMA StoreKeeps ==
    ASSUME IInv, TypeOK', NEW h \in Handlers, Store(h) \/ StoreFails(h)
    PROVE  IInv'
<1>1. /\ at[h] = "storing" /\ stored' \in {stored, Mine(h)}
      /\ UNCHANGED <<chat, sent, ids>>
      /\ \A g \in Handlers : g # h => at'[g] = at[g] /\ deletion'[g] = deletion[g]
      /\ at'[h] \in {"ended", "raised"}
  BY DEF Store, StoreFails, IInv, TypeOK
<1>2. \A g \in Handlers : Mine(g)' = Mine(g)
  BY <1>1 DEF Mine
<1>3. \A g \in Handlers : Mine(h) \cap ids[g] = {}
  BY <1>1 DEF IInv, Groups
<1>4. Whole(Mine(h))
  BY MineApart DEF Whole
<1>5. Groups'
  <2>1. Whole(stored)' /\ Whole(chat)' /\ \A g \in Handlers : Whole(ids[g])'
    BY <1>1, <1>2, <1>4 DEF IInv, Groups, Whole
  <2>2. \A g \in Handlers : at'[g] \in {"idle", "sending", "storing"} =>
          /\ g # h /\ at[g] \in {"idle", "sending", "storing"} /\ Mine(g) \cap Mine(h) = {}
    BY <1>1, MineApart
  <2> QED  BY <1>1, <1>2, <2>1, <2>2 DEF IInv, Groups
<1>6. DeletedOnce'
  BY <1>1, <1>3 DEF IInv, DeletedOnce
<1>7. Tasks'
  BY <1>1 DEF Store, StoreFails, IInv, TypeOK, Tasks
<1>8. Named'
  BY <1>1, <1>2 DEF IInv, Named
<1> QED  BY <1>5, <1>6, <1>7, <1>8 DEF IInv

LEMMA TakeKeeps ==
    ASSUME IInv, TypeOK', NEW h \in Handlers, Take(h) \/ TakeFails(h)
    PROVE  IInv'
<1>1. /\ deletion[h] = "taking" /\ ids[h] = {} /\ stored' \in {stored, {}}
      /\ ids' = ids \/ (stored' = {} /\ ids' = [ids EXCEPT ![h] = stored])
      /\ UNCHANGED <<chat, at, sent>>
      /\ \A g \in Handlers : g # h => deletion'[g] = deletion[g]
      /\ deletion'[h] \in {"deleting", "done"} /\ at[h] = "ended"
  BY DEF Take, TakeFails, IInv, TypeOK, Tasks
<1>2. \A g \in Handlers : Mine(g)' = Mine(g)
  BY <1>1 DEF Mine
<1>3. CASE ids' = ids
  BY <1>1, <1>2, <1>3 DEF IInv, DeletedOnce, Groups, Whole, Tasks, Named
<1>4. CASE stored' = {} /\ ids' = [ids EXCEPT ![h] = stored]
  <2>1. ids'[h] = stored /\ \A g \in Handlers : g # h => ids'[g] = ids[g]
    BY <1>4 DEF IInv, TypeOK
  <2>2. Groups'
    BY <1>1, <1>2, <1>4, <2>1 DEF IInv, Groups, Whole
  <2>3. DeletedOnce'
    BY <1>4, <2>1 DEF IInv, DeletedOnce
  <2>4. Tasks' /\ Named'
    BY <1>1, <1>2, <1>4, <2>1 DEF IInv, Tasks, Named
  <2> QED  BY <2>2, <2>3, <2>4 DEF IInv
<1> QED  BY <1>1, <1>3, <1>4

LEMMA DeleteKeeps ==
    ASSUME IInv, TypeOK', NEW h \in Handlers, Delete(h)
    PROVE  IInv'
<1>1. /\ deletion[h] = "deleting" /\ deletion' = [deletion EXCEPT ![h] = "done"]
      /\ chat' \in {chat, chat \ ids[h]} /\ UNCHANGED <<stored, at, sent, ids>>
  BY DEF Delete
<1>2. \A g \in Handlers : Mine(g)' = Mine(g)
  BY <1>1 DEF Mine
<1>3. Groups'
  <2>1. Whole(chat)'
    BY <1>1, <1>2 DEF IInv, Groups, Whole
  <2> QED  BY <1>1, <1>2, <2>1 DEF IInv, Groups, Whole
<1>4. DeletedOnce' /\ Tasks' /\ Named'
  BY <1>1, <1>2 DEF IInv, TypeOK, DeletedOnce, Tasks, Named
<1> QED  BY <1>3, <1>4 DEF IInv

LEMMA InvStep == IInv /\ [Next]_vars => IInv'
<1> SUFFICES ASSUME IInv, [Next]_vars PROVE IInv'
  OBVIOUS
<1>1. TypeOK'
  BY TypeStep DEF IInv
<1>2. ASSUME NEW h \in Handlers, Begin(h) \/ AllSent(h) PROVE IInv'
  BY <1>1, <1>2, NothingNamed DEF Begin, AllSent, IInv, TypeOK, Tasks
<1>3. CASE Crash
  BY <1>1, <1>3, NothingNamed DEF Crash, IInv, TypeOK, Tasks
<1>4. CASE UNCHANGED vars
  BY <1>1, <1>4, NothingNamed DEF vars, IInv, Tasks
<1> QED
  BY <1>1, <1>2, <1>3, <1>4, SendKeeps, SendFailsKeeps, StoreKeeps, TakeKeeps, DeleteKeeps
  DEF Next, Handle, DeleteLast

\* The inductive invariant holds in every reachable state.
THEOREM InvCorrect == Spec => []IInv
BY InvInit, InvStep, PTL DEF Spec

\* Deletion tasks never share a message, nor take one whose id is stored again.
THEOREM DeletedOnceCorrect == Spec => []DeletedOnce
<1>1. IInv => DeletedOnce
  BY DEF IInv
<1> QED  BY <1>1, InvCorrect, PTL

\* The messages of one handler stay or go together, and stay while it is sending.
THEOREM WholeMessagesCorrect == Spec => []WholeMessages
<1>1. IInv => WholeMessages
  BY DEF IInv, Groups, Whole, WholeMessages
<1> QED  BY <1>1, InvCorrect, PTL
=============================================================================
