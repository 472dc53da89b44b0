------------------------- MODULE WaitTriggerProofs -------------------------
(***************************************************************************)
(* For any updates of a user, however they overlap: while leases hold,     *)
(* what was cleared or served is not expected again, and what an update    *)
(* may clear unread was made after it had read.  Waiting for a trigger     *)
(* implements the abstract slot whenever updates do not overlap.           *)
(***************************************************************************)
EXTENDS WaitTrigger, TLAPS

(* The invariant for all updates.                                          *)

\* Only waits that were made are expected, served or cleared.
Numbered == /\ expected <= made
            /\ consumed \subseteq 1 .. made /\ served \subseteq 1 .. made
            /\ \A u \in Updates : copy[u] <= made /\ seen[u] <= made

\* While no lease was outlived the open transaction holds the lock, and the data it
\* has read is the stored data.
Exclusive == ~outlived =>
    /\ \A u \in Updates : variable[u] => lock = u /\ copy[u] = expected
    /\ expected \notin consumed

\* An update that got beyond its read has read a wait.
Asked == \A u \in Updates : fetch[u] \in {"ask", "compare", "clear", "matched"} => seen[u] # 0

\* The fetcher of an update that has not come, or whose flow has begun, is not at work;
\* a temporary variable is set within a flow.
Outside == \A u \in Updates :
    /\ at[u] = "new" => fetch[u] = "none"
    /\ at[u] \in {"flow", "ended"} => ~Fetching(u)
    /\ variable[u] => at[u] = "flow"

\* While no lease was outlived, what is expected is newer than all that was taken or
\* served, and not older than what updates at work have read.
Newest == ~outlived /\ expected # 0 =>
    /\ \A n \in served : n < expected
    /\ \A u \in Updates : /\ fetch[u] = "matched" => seen[u] < expected
                          /\ fetch[u] \in {"ask", "compare", "clear"} => seen[u] <= expected

IInv == TypeOK /\ Asked /\ Outside /\ Numbered /\ Exclusive /\ Newest

USE BoundsAssumption, NoUpdateAssumption

LEMMA InvInit == Init => IInv
<1> SUFFICES ASSUME Init PROVE IInv
  OBVIOUS
<1>1. TypeOK
  <2>1. 0 \in 0 .. MaxWaits /\ 1 \in 0 .. MaxWaits /\ 0 \in 0 .. MaxCrashes
    OBVIOUS
  <2> QED  BY <2>1 DEF Init, TypeOK
<1>2. Asked /\ Outside /\ Numbered /\ Exclusive /\ Newest
  BY DEF Init, Asked, Outside, Fetching, Numbered, Exclusive, Newest
<1> QED  BY <1>1, <1>2 DEF IInv

\* Every step keeps the types.
LEMMA TypeStep == TypeOK /\ Asked /\ [Next]_vars => TypeOK'
<1> SUFFICES ASSUME TypeOK, Asked, [Next]_vars PROVE TypeOK'
  OBVIOUS
<1> USE DEF TypeOK, storage, locals, history
<1>1. ASSUME NEW u \in Updates, Arrive(u) PROVE TypeOK'
  BY <1>1 DEF Arrive
<1>2. ASSUME NEW u \in Updates, Read(u) PROVE TypeOK'
  BY <1>2 DEF Read
<1>3. ASSUME NEW u \in Updates, GotTrigger(u) \/ Compare(u) PROVE TypeOK'
  BY <1>3 DEF GotTrigger, Compare
<1>4. ASSUME NEW u \in Updates, Clear(u) \/ FetchFails(u) PROVE TypeOK'
  <2>1. CASE Cleared
    BY <1>4, <2>1 DEF Clear, FetchFails, Cleared
  <2>2. CASE UNCHANGED <<storage, history>>
    BY <1>4, <2>2 DEF Clear, FetchFails
  <2> QED  BY <1>4, <2>1, <2>2 DEF Clear, FetchFails
<1>5. ASSUME NEW u \in Updates, OthersEnd(u) \/ GatherRaises(u) PROVE TypeOK'
  BY <1>5 DEF OthersEnd, GatherRaises
<1>6. ASSUME NEW u \in Updates, Gathered(u) PROVE TypeOK'
  <2>1. fetch[u] = "matched" => seen[u] \in 1 .. MaxWaits
    BY DEF Asked
  <2>2. served' \subseteq 1 .. MaxWaits
    BY <1>6, <2>1 DEF Gathered
  <2> QED  BY <1>6, <2>2 DEF Gathered
<1>7. ASSUME NEW u \in Updates, Wait(u) PROVE TypeOK'
  BY <1>7 DEF Wait
<1>8. ASSUME NEW u \in Updates, Variable(u) PROVE TypeOK'
  BY <1>8 DEF Variable
<1>9. ASSUME NEW u \in Updates, VariableDone(u) PROVE TypeOK'
  BY <1>9 DEF VariableDone
<1>10. ASSUME NEW u \in Updates, FlowEnds(u) PROVE TypeOK'
  BY <1>10 DEF FlowEnds
<1>11. CASE Expire
  BY <1>11 DEF Expire
<1>12. CASE Crash
  BY <1>12 DEF Crash
<1>13. CASE UNCHANGED vars
  BY <1>13 DEF vars
<1> QED
  BY <1>1, <1>2, <1>3, <1>4, <1>5, <1>6, <1>7, <1>8, <1>9, <1>10, <1>11, <1>12, <1>13
  DEF Next, Fetch, Gather, Flow

\* Every step keeps what the fetchers have read, and where they are at work.
LEMMA FetchStep == TypeOK /\ Asked /\ Outside /\ [Next]_vars => Asked' /\ Outside'
<1> SUFFICES ASSUME TypeOK, Asked, Outside, [Next]_vars PROVE Asked' /\ Outside'
  OBVIOUS
<1> USE DEF TypeOK, Asked, Outside, Fetching, storage, locals, history
<1>1. ASSUME NEW u \in Updates, Arrive(u) PROVE Asked' /\ Outside'
  BY <1>1 DEF Arrive
<1>2. ASSUME NEW u \in Updates, Fetch(u) PROVE Asked' /\ Outside'
  BY <1>2 DEF Fetch, Read, GotTrigger, Compare, Clear, FetchFails, Cleared
<1>3. ASSUME NEW u \in Updates, Gather(u) PROVE Asked' /\ Outside'
  BY <1>3 DEF Gather, OthersEnd, Gathered, GatherRaises
<1>4. ASSUME NEW u \in Updates, Flow(u) PROVE Asked' /\ Outside'
  BY <1>4 DEF Flow, Wait, Variable, VariableDone, FlowEnds
<1>5. CASE Expire \/ UNCHANGED vars
  BY <1>5 DEF Expire, vars
<1>6. CASE Crash
  BY <1>6 DEF Crash
<1> QED  BY <1>1, <1>2, <1>3, <1>4, <1>5, <1>6 DEF Next

\* Every step keeps the numbers and the exclusion.
LEMMA StorageStep == IInv /\ TypeOK' /\ [Next]_vars => Numbered' /\ Exclusive'
<1> SUFFICES ASSUME IInv, TypeOK', [Next]_vars PROVE Numbered' /\ Exclusive'
  OBVIOUS
<1> USE DEF IInv, TypeOK, Numbered, Exclusive, storage, locals, history
<1>1. ASSUME UNCHANGED <<storage, variable, seen, copy, made, served, consumed, outlived>>
      PROVE  Numbered' /\ Exclusive'
  BY <1>1
<1>2. ASSUME NEW u \in Updates, Arrive(u) \/ Read(u) \/ GotTrigger(u) \/ Compare(u)
      PROVE  Numbered' /\ Exclusive'
  <2>1. CASE Read(u)
    BY <2>1 DEF Read
  <2> QED  BY <1>1, <1>2, <2>1 DEF Arrive, GotTrigger, Compare
<1>3. ASSUME Cleared, UNCHANGED <<variable, seen, copy>> PROVE Numbered' /\ Exclusive'
  <2>1. Numbered'
    BY <1>3 DEF Cleared
  <2>2. Exclusive'
    BY <1>3 DEF Cleared, Unlocked
  <2> QED  BY <2>1, <2>2
<1>4. ASSUME NEW u \in Updates, Clear(u) \/ FetchFails(u) PROVE Numbered' /\ Exclusive'
  BY <1>1, <1>3, <1>4 DEF Clear, FetchFails
<1>5. ASSUME NEW u \in Updates, Gather(u) PROVE Numbered' /\ Exclusive'
  <2>1. CASE Gathered(u)
    BY <2>1 DEF Gathered, Asked
  <2> QED  BY <1>1, <1>5, <2>1 DEF Gather, OthersEnd, GatherRaises
<1>6. ASSUME NEW u \in Updates, Wait(u) PROVE Numbered' /\ Exclusive'
  BY <1>6 DEF Wait, Unlocked
<1>7. ASSUME NEW u \in Updates, Variable(u) PROVE Numbered' /\ Exclusive'
  BY <1>7 DEF Variable, Unlocked
<1>8. ASSUME NEW u \in Updates, VariableDone(u) PROVE Numbered' /\ Exclusive'
  BY <1>8 DEF VariableDone
<1>9. ASSUME NEW u \in Updates, FlowEnds(u) PROVE Numbered' /\ Exclusive'
  BY <1>1, <1>9 DEF FlowEnds
<1>10. CASE Expire
  BY <1>10 DEF Expire
<1>11. CASE Crash
  BY <1>11 DEF Crash
<1>12. CASE UNCHANGED vars
  BY <1>1, <1>12 DEF vars
<1> QED
  BY <1>2, <1>4, <1>5, <1>6, <1>7, <1>8, <1>9, <1>10, <1>11, <1>12 DEF Next, Fetch, Flow

\* Every step keeps what is expected the newest.
LEMMA NewestStep == IInv /\ TypeOK' /\ [Next]_vars => Newest'
<1> SUFFICES ASSUME IInv, TypeOK', [Next]_vars PROVE Newest'
  OBVIOUS
<1> USE DEF IInv, TypeOK, Newest, storage, locals, history
<1>1. ASSUME UNCHANGED <<expected, fetch, seen, served, outlived>> PROVE Newest'
  BY <1>1
<1>2. ASSUME NEW u \in Updates, Arrive(u) \/ Read(u) \/ GotTrigger(u) \/ Compare(u)
      PROVE  Newest'
  <2>1. CASE Arrive(u)
    BY <2>1 DEF Arrive
  <2>2. CASE Read(u)
    BY <2>2 DEF Read
  <2>3. CASE GotTrigger(u)
    BY <2>3 DEF GotTrigger
  <2>4. CASE Compare(u)
    BY <2>4 DEF Compare
  <2> QED  BY <1>2, <2>1, <2>2, <2>3, <2>4
<1>3. Cleared => Newest'
  BY DEF Cleared
<1>4. ASSUME NEW u \in Updates, Clear(u) \/ FetchFails(u) PROVE Newest'
  BY <1>3, <1>4 DEF Clear, FetchFails
<1>5. ASSUME NEW u \in Updates, OthersEnd(u) \/ GatherRaises(u) \/ FlowEnds(u) PROVE Newest'
  BY <1>1, <1>5 DEF OthersEnd, GatherRaises, FlowEnds
<1>6. ASSUME NEW u \in Updates, Gathered(u) PROVE Newest'
  BY <1>6 DEF Gathered
<1>7. ASSUME NEW u \in Updates, Wait(u) PROVE Newest'
  <2>1. /\ expected' = made + 1 /\ UNCHANGED <<fetch, seen, served, outlived>>
    BY <1>7 DEF Wait
  <2> QED  BY <2>1 DEF Numbered
<1>8. ASSUME NEW u \in Updates, Variable(u) \/ VariableDone(u) PROVE Newest'
  <2>1. UNCHANGED <<fetch, seen, served, outlived>> /\ (~outlived => expected' = expected)
    BY <1>8 DEF Variable, VariableDone, Exclusive
  <2> QED  BY <2>1
<1>9. CASE Expire
  BY <1>9 DEF Expire
<1>10. CASE Crash
  BY <1>10 DEF Crash
<1>11. CASE UNCHANGED vars
  BY <1>1, <1>11 DEF vars
<1> QED
  BY <1>2, <1>4, <1>5, <1>6, <1>7, <1>8, <1>9, <1>10, <1>11 DEF Next, Fetch, Gather, Flow

LEMMA InvStep == IInv /\ [Next]_vars => IInv'
BY TypeStep, FetchStep, StorageStep, NewestStep DEF IInv

\* The inductive invariant holds in every reachable state.
THEOREM InvCorrect == Spec => []IInv
BY InvInit, InvStep, PTL DEF Spec

\* Every variable of the model keeps its type.
THEOREM TypeCorrect == Spec => []TypeOK
<1>1. IInv => TypeOK
  BY DEF IInv
<1> QED  BY <1>1, InvCorrect, PTL

\* What was cleared or served is not expected again unless a lease was outlived.
THEOREM ClearedForGoodCorrect == Spec => []ClearedForGood
<1>1. IInv => ClearedForGood
  BY DEF IInv, TypeOK, Exclusive, Newest, ClearedForGood
<1> QED  BY <1>1, InvCorrect, PTL

\* What an update may clear without having read it was made after it had read: an update
\* that comes when a flow has made its user wait does not take that wait away unread.
THEOREM UnreadIsNewerCorrect == Spec => []UnreadIsNewer
<1>1. IInv => UnreadIsNewer
  BY DEF IInv, Newest, UnreadIsNewer
<1> QED  BY <1>1, InvCorrect, PTL

-----------------------------------------------------------------------------
(* The invariant while updates do not overlap and no lease was outlived.   *)

Void == overlapped \/ outlived

\* No two updates are at work.
Alone == \A u, v \in Updates : Running(u) /\ Running(v) => u = v

\* What an update has read is still expected when it clears it; what it has cleared is
\* its own to serve.
Taken == \A u \in Updates :
    /\ fetch[u] \in {"ask", "compare", "clear"} => seen[u] = expected
    /\ at[u] = "gather" /\ fetch[u] = "matched" =>
          /\ seen[u] \in consumed \ served
          /\ \A v \in Updates : v # u /\ fetch[v] = "matched" => seen[v] # seen[u]

Serial == ~Void => Alone /\ Taken

\* The promise comes back only with an update that comes when nothing is at work.
LEMMA VoidStays ==
    ASSUME IInv, [Next]_vars, ~Void'
    PROVE  \/ ~Void
           \/ \E u \in Updates : Arrive(u) /\ \A v \in Updates : ~Running(v)
<1> USE DEF IInv, TypeOK, Void, history
<1>1. ASSUME NEW u \in Updates, Arrive(u) PROVE \A v \in Updates : ~Running(v)
  BY <1>1 DEF Arrive
<1>2. ASSUME \A u \in Updates : ~Arrive(u) PROVE overlapped' = overlapped
  BY <1>2 DEF Cleared, Next, Fetch, Gather, Flow, Read, GotTrigger, Compare, Clear, FetchFails, OthersEnd,
     Gathered, GatherRaises, Wait, Variable, VariableDone, FlowEnds, Expire, Crash, vars
<1>3. outlived => outlived'
  BY DEF Cleared, Next, Arrive, Fetch, Gather, Flow, Read, GotTrigger, Compare, Clear, FetchFails, OthersEnd,
     Gathered, GatherRaises, Wait, Variable, VariableDone, FlowEnds, Expire, Crash, vars
<1> QED  BY <1>1, <1>2, <1>3

\* An update that comes when nothing is at work is alone.
LEMMA FirstIsAlone ==
    ASSUME IInv, NEW u \in Updates, Arrive(u), \A v \in Updates : ~Running(v)
    PROVE  Alone' /\ Taken'
<1>1. \A v \in Updates : v # u => ~Running(v)'
  BY DEF IInv, TypeOK, Arrive, Running, Fetching
<1>2. at'[u] = "gather" /\ fetch'[u] \in {"read", "none"}
  BY DEF IInv, TypeOK, Arrive
<1> QED  BY <1>1, <1>2 DEF Alone, Taken, Running, Fetching

LEMMA SerialInit == Init => Serial
BY DEF Init, Serial, Alone, Taken, Running, Fetching

LEMMA AloneStep ==
    ASSUME IInv, Alone, [Next]_vars, ~Void'
    PROVE  Alone'
<1> USE DEF IInv, TypeOK, Outside, Void, Alone, Running, Fetching, storage, locals, history
<1>1. ASSUME NEW u \in Updates, Arrive(u) PROVE Alone'
  BY <1>1 DEF Arrive
<1>2. ASSUME NEW u \in Updates, Fetch(u) PROVE Alone'
  BY <1>2 DEF Fetch, Read, GotTrigger, Compare, Clear, FetchFails, Cleared
<1>3. ASSUME NEW u \in Updates, Gather(u) PROVE Alone'
  BY <1>3 DEF Gather, OthersEnd, Gathered, GatherRaises
<1>4. ASSUME NEW u \in Updates, Flow(u) PROVE Alone'
  BY <1>4 DEF Flow, Wait, Variable, VariableDone, FlowEnds
<1>5. CASE Expire
  BY <1>5 DEF Expire
<1>6. CASE Crash
  BY <1>6 DEF Crash
<1>7. CASE UNCHANGED vars
  BY <1>7 DEF vars
<1> QED  BY <1>1, <1>2, <1>3, <1>4, <1>5, <1>6, <1>7 DEF Next

LEMMA TakenStep ==
    ASSUME IInv, Alone, Taken, [Next]_vars, ~Void, ~Void'
    PROVE  Taken'
<1> USE DEF IInv, TypeOK, Void, Taken, storage, locals, history
<1>1. ASSUME UNCHANGED <<expected, fetch, seen, served, consumed>>,
             \A u \in Updates : at'[u] = "gather" => at[u] = "gather"
      PROVE  Taken'
  BY <1>1
<1>2. ASSUME NEW u \in Updates, Arrive(u) PROVE Taken'
  BY <1>2 DEF Arrive
<1>3. ASSUME NEW u \in Updates, Read(u) \/ GotTrigger(u) \/ Compare(u) PROVE Taken'
  <2>1. CASE Read(u)
    BY <2>1 DEF Read
  <2>2. CASE GotTrigger(u)
    BY <2>2 DEF GotTrigger
  <2>3. CASE Compare(u)
    BY <2>3 DEF Compare
  <2> QED  BY <1>3, <2>1, <2>2, <2>3
<1>4. ASSUME NEW u \in Updates, fetch[u] = "clear" PROVE
             /\ \A v \in Updates : fetch[v] \in {"ask", "compare", "clear"} => v = u
             /\ \A v \in Updates : at[v] = "gather" => v = u
             /\ seen[u] = expected /\ expected # 0 /\ expected \notin consumed \cup served
             /\ \A v \in Updates : fetch[v] = "matched" => seen[v] # expected
  <2>1. seen[u] = expected /\ expected # 0 /\ expected \notin consumed
    BY <1>4 DEF Asked, Exclusive
  <2>2. expected \notin served /\ \A v \in Updates : fetch[v] = "matched" => seen[v] # expected
    BY <2>1 DEF Newest
  <2>3. Running(u)
    BY <1>4 DEF Running, Fetching
  <2>4. \A v \in Updates : Running(v) => v = u
    BY <2>3 DEF Alone
  <2> QED  BY <2>1, <2>2, <2>4 DEF Running, Fetching
<1>5. ASSUME NEW u \in Updates, Clear(u) PROVE Taken'
  BY <1>4, <1>5 DEF Clear, Cleared
<1>6. ASSUME NEW u \in Updates, FetchFails(u) PROVE Taken'
  <2>1. fetch' = [fetch EXCEPT ![u] = "raised"] /\ fetch[u] # "matched"
    BY <1>6 DEF FetchFails, Fetching
  <2>2. CASE Cleared /\ fetch[u] = "clear"
    BY <1>4, <1>6, <2>1, <2>2 DEF FetchFails, Cleared
  <2>3. CASE UNCHANGED <<storage, history>>
    BY <1>6, <2>1, <2>3 DEF FetchFails
  <2> QED  BY <1>6, <2>2, <2>3 DEF FetchFails
<1>7. ASSUME NEW u \in Updates, OthersEnd(u) \/ GatherRaises(u) \/ FlowEnds(u) PROVE Taken'
  BY <1>1, <1>7 DEF OthersEnd, GatherRaises, FlowEnds
<1>8. ASSUME NEW u \in Updates, Gathered(u) PROVE Taken'
  <2>1. \A v \in Updates : at[v] = "gather" => v = u
    BY <1>8 DEF Gathered, Alone, Running
  <2> QED  BY <1>8, <2>1 DEF Gathered
<1>9. ASSUME NEW u \in Updates, at[u] = "flow", NEW v \in Updates PROVE ~Fetching(v)
  BY <1>9 DEF Alone, Running, Outside
<1>10. ASSUME NEW u \in Updates, Wait(u) PROVE Taken'
  BY <1>9, <1>10 DEF Wait, Fetching
<1>11. ASSUME NEW u \in Updates, Variable(u) \/ VariableDone(u) PROVE Taken'
  <2>1. expected' = expected
    BY <1>11 DEF Variable, VariableDone, Exclusive, Alone
  <2> QED  BY <1>1, <1>11, <2>1 DEF Variable, VariableDone
<1>12. CASE Expire \/ UNCHANGED vars
  BY <1>1, <1>12 DEF Expire, vars
<1>13. CASE Crash
  BY <1>13 DEF Crash, Fetching
<1> QED
  BY <1>2, <1>3, <1>5, <1>6, <1>7, <1>8, <1>10, <1>11, <1>12, <1>13 DEF Next, Fetch, Gather, Flow

\* Serial holds in every behaviour.
THEOREM SerialCorrect == Spec => []Serial
<1>1. IInv /\ Serial /\ [Next]_vars => Serial'
  BY VoidStays, FirstIsAlone, AloneStep, TakenStep DEF Serial
<1> QED  BY <1>1, SerialInit, InvCorrect, PTL DEF Spec

-----------------------------------------------------------------------------
(* The refinement: reading and comparing are stutters, Clear takes the      *)
(* wait, Gathered serves it.                                                *)

LEMMA InitRefines == Init => Slot!Init
BY DEF Init, Slot!Init, held, failed

LEMMA ResumeRefines ==
    ASSUME IInv, Void, ~Void', NEW u \in Updates, Arrive(u), \A v \in Updates : ~Running(v)
    PROVE  Slot!Resume
<1>1. ~outlived
  BY DEF Arrive, Void
<1>2. expected # 0 => expected \notin served \cup {held[v] : v \in Updates}
  BY <1>1 DEF held, IInv, TypeOK, Newest
<1>3. /\ UNCHANGED <<expected, made, served, seen>>
      /\ fetch[u] = "none" /\ \E place \in {"read", "none"} : fetch' = [fetch EXCEPT ![u] = place]
  BY DEF Arrive, IInv, Outside, storage
<1>4. held' = held /\ failed' = failed
  BY <1>3 DEF held, failed, IInv, TypeOK
<1> QED  BY <1>2, <1>3, <1>4 DEF Slot!Resume, Void

LEMMA StepRefines ==
    ASSUME IInv, Alone, Taken, [Next]_vars, ~Void, ~Void'
    PROVE  [Slot!Next]_(Slot!vars)
<1> USE DEF IInv, TypeOK, Void, storage, locals, history
<1> DEFINE Same == UNCHANGED <<expected, made, held, served, failed>>
<1>1. Same => [Slot!Next]_(Slot!vars)
  BY DEF Slot!vars
<1>2. ASSUME UNCHANGED <<expected, made, fetch, seen, served>> PROVE Same
  BY <1>2 DEF held, failed
<1>3. ASSUME NEW u \in Updates, Arrive(u) \/ Read(u) \/ GotTrigger(u) \/ Compare(u) PROVE Same
  <2>1. fetch[u] \notin {"matched", "raised"} /\ fetch'[u] \notin {"matched", "raised"}
    BY <1>3 DEF Arrive, Read, GotTrigger, Compare, Outside
  <2>2. \A v \in Updates : v # u => fetch'[v] = fetch[v] /\ seen'[v] = seen[v]
    BY <1>3 DEF Arrive, Read, GotTrigger, Compare
  <2>3. UNCHANGED <<expected, made, served>>
    BY <1>3 DEF Arrive, Read, GotTrigger, Compare
  <2> QED  BY <2>1, <2>2, <2>3 DEF held, failed
<1>4. ASSUME NEW u \in Updates, Clear(u) PROVE Slot!Take(u)
  <2>1. /\ expected # 0 /\ seen[u] = expected /\ expected \notin served
        /\ fetch[u] = "clear" /\ fetch' = [fetch EXCEPT ![u] = "matched"]
        /\ expected' = 0 /\ UNCHANGED <<made, seen, served>>
    BY <1>4 DEF Clear, Cleared, Asked, Exclusive, Newest, Taken
  <2>2. held[u] = 0 /\ u \notin failed /\ failed' = failed
    BY <2>1 DEF held, failed
  <2>3. held' = [held EXCEPT ![u] = expected]
    BY <2>1 DEF held
  <2> QED  BY <2>1, <2>2, <2>3 DEF Slot!Take
<1>5. ASSUME NEW u \in Updates, FetchFails(u) PROVE Slot!Fail(u)
  <2>1. /\ fetch[u] \notin {"matched", "raised"} /\ fetch' = [fetch EXCEPT ![u] = "raised"]
        /\ expected' \in {expected, 0} /\ UNCHANGED <<made, seen, served>>
    BY <1>5 DEF FetchFails, Fetching, Cleared
  <2> QED  BY <2>1 DEF Slot!Fail, held, failed
<1>6. ASSUME NEW u \in Updates, Gathered(u) PROVE [Slot!Next]_(Slot!vars)
  <2>1. CASE fetch[u] = "matched"
    <3>1. seen[u] \notin served /\ seen[u] # 0
      BY <1>6, <2>1 DEF Gathered, Asked, Taken
    <3>2. served' = served \cup {seen[u]} /\ UNCHANGED <<expected, made, fetch, seen>>
      BY <1>6, <2>1 DEF Gathered
    <3>3. held[u] = seen[u] /\ u \notin failed /\ failed' = failed
      BY <2>1, <3>1, <3>2 DEF held, failed
    <3>4. \A v \in Updates : v # u /\ fetch[v] = "matched" => seen[v] # seen[u]
      BY <1>6, <2>1 DEF Gathered, Taken
    <3>5. held' = [held EXCEPT ![u] = 0]
      BY <2>1, <3>2, <3>4 DEF held
    <3> QED  BY <3>1, <3>2, <3>3, <3>5 DEF Slot!Serve, Slot!Next, Slot!Kept
  <2>2. CASE fetch[u] # "matched"
    BY <1>1, <1>2, <1>6, <2>2 DEF Gathered
  <2> QED  BY <2>1, <2>2
<1>7. ASSUME NEW u \in Updates, Wait(u) PROVE Slot!Wait
  BY <1>7 DEF Wait, Slot!Wait, held, failed
<1>8. ASSUME NEW u \in Updates, Variable(u) \/ VariableDone(u) PROVE Same
  <2>1. expected' = expected
    BY <1>8 DEF Variable, VariableDone, Exclusive, Alone
  <2> QED  BY <1>2, <1>8, <2>1 DEF Variable, VariableDone
<1>9. ASSUME NEW u \in Updates, OthersEnd(u) \/ GatherRaises(u) \/ FlowEnds(u) PROVE Same
  BY <1>2, <1>9 DEF OthersEnd, GatherRaises, FlowEnds
<1>10. CASE Expire \/ UNCHANGED vars
  BY <1>1, <1>2, <1>10 DEF Expire, vars
<1>11. CASE Crash
  <2> DEFINE dead == {u \in Updates : Fetching(u)}
  <2>1. failed' = failed \cup dead
    BY <1>11 DEF Crash, failed, Fetching
  <2>2. held' = held
    BY <1>11 DEF Crash, held, Fetching
  <2>3. Slot!FailAll(dead)
    BY <1>11, <2>1, <2>2 DEF Crash, Slot!FailAll
  <2> QED  BY <2>3 DEF Slot!Next, Slot!Kept
<1> QED
  BY <1>1, <1>3, <1>4, <1>5, <1>6, <1>7, <1>8, <1>9, <1>10, <1>11
  DEF Next, Fetch, Gather, Flow, Slot!Next, Slot!Kept

\* Whenever no lease was outlived and updates do not overlap, waiting for a trigger
\* implements the abstract slot: a wait is served at most once and lost only to a failure
\* or to a newer wait; also after updates that overlapped.
THEOREM SlotCorrect == Spec => IsSlot
<1>1. IInv /\ Serial /\ [Next]_vars => [Slot!Next]_(Slot!vars)
  <2> SUFFICES ASSUME IInv, Serial, [Next]_vars PROVE [Slot!Next]_(Slot!vars)
    OBVIOUS
  <2>1. CASE Void'
    BY <2>1 DEF Void, Slot!Next
  <2>2. CASE ~Void /\ ~Void'
    BY <2>2, StepRefines DEF Serial
  <2>3. ASSUME Void, ~Void' PROVE Slot!Resume
    BY <2>3, VoidStays, ResumeRefines
  <2> QED  BY <2>1, <2>2, <2>3 DEF Slot!Next
<1> QED  BY <1>1, SerialCorrect, InitRefines, InvCorrect, PTL DEF Spec, IsSlot, Slot!Spec

-----------------------------------------------------------------------------
(* What the slot promises, said of the code's own state.                   *)

\* An update that starts a flow with a wait has cleared it itself, alone, and nobody has
\* served it before.
ServesOwn == \A u \in Updates : Gathered(u) /\ fetch[u] = "matched" =>
    /\ seen[u] \in consumed \ served /\ seen[u] # expected
    /\ \A v \in Updates : v # u /\ fetch[v] = "matched" => seen[v] # seen[u]

\* What is expected is no longer so only for a newer wait, or because an update that had
\* read this very wait has taken it, or has failed in doing so.
LosesNone == expected \notin {0, expected'} =>
    \/ expected' = made' /\ made < made'
    \/ \E u \in Updates : /\ fetch[u] = "clear" /\ seen[u] = expected
                          /\ fetch'[u] \in {"matched", "raised"} /\ expected \in consumed'

Promised == ~Void' => ServesOwn /\ LosesNone

\* Whenever no lease was outlived and updates do not overlap, no wait is served twice or by
\* two, and none is lost unnoticed, whatever else is written under the same key.
THEOREM PromisedCorrect == Spec => [][Promised]_vars
<1>1. ASSUME IInv, Serial, [Next]_vars PROVE Promised
  <2> SUFFICES ASSUME ~Void' PROVE ServesOwn /\ LosesNone
    BY DEF Promised
  <2>1. CASE Void
    <3>1. PICK u \in Updates : Arrive(u) /\ \A v \in Updates : ~Running(v)
      BY <1>1, <2>1, VoidStays
    <3> QED  BY <3>1 DEF ServesOwn, LosesNone, Arrive, Gathered, Running, storage
  <2> SUFFICES ASSUME ~Void PROVE ServesOwn /\ LosesNone
    BY <2>1
  <2>2. Alone /\ Taken
    BY <1>1 DEF Serial
  <2>3. ServesOwn
    BY <1>1, <2>2 DEF ServesOwn, Gathered, Taken, IInv, Exclusive, Void
  <2>4. ASSUME NEW u \in Updates, Clear(u) \/ FetchFails(u) PROVE LosesNone
    BY <1>1, <2>2, <2>4 DEF LosesNone, Clear, FetchFails, Cleared, Taken, IInv, TypeOK, storage
  <2>5. ASSUME NEW u \in Updates, Wait(u) PROVE LosesNone
    BY <1>1, <2>5 DEF LosesNone, Wait, IInv, TypeOK
  <2>6. ASSUME NEW u \in Updates, Variable(u) \/ VariableDone(u) PROVE LosesNone
    BY <1>1, <2>2, <2>6 DEF LosesNone, Variable, VariableDone, IInv, Exclusive, Void
  <2>7. expected' = expected => LosesNone
    BY DEF LosesNone
  <2>8. ASSUME NEW u \in Updates, \/ Arrive(u) \/ Read(u) \/ GotTrigger(u) \/ Compare(u)
                                 \/ OthersEnd(u) \/ Gathered(u) \/ GatherRaises(u) \/ FlowEnds(u)
        PROVE  LosesNone
    BY <2>7, <2>8 DEF Arrive, Read, GotTrigger, Compare, OthersEnd, Gathered, GatherRaises,
       FlowEnds, storage
  <2>9. Expire \/ Crash \/ UNCHANGED vars => LosesNone
    BY <2>7 DEF Expire, Crash, vars, storage
  <2> QED  BY <1>1, <2>3, <2>4, <2>5, <2>6, <2>8, <2>9 DEF Next, Fetch, Gather, Flow
<1>2. IInv /\ Serial /\ [Next]_vars => [Promised]_vars
  BY <1>1
<1> QED  BY <1>2, SerialCorrect, InvCorrect, PTL DEF Spec
=============================================================================
