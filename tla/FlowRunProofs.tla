--------------------------- MODULE FlowRunProofs ---------------------------
(***************************************************************************)
(* What holds for every flow, of any size: FlowRun's safety properties.    *)
(* The tasks that have begun are closed upwards (Reached); the answers are *)
(* the nearest ones (Answers); every other task is below a task that stands*)
(* before its connections or has ended without them (Frontier).            *)
(***************************************************************************)
EXTENDS FlowRun, Integers, FiniteSets, FiniteSetTheorems, WellFoundedInduction, TLAPS

Reached == \A t \in Tasks : pc[t] # "none" =>
    \A a \in Above[t] : pc[a] \in {"wait", "served"}

Frontier == \A t \in Tasks : pc[t] = "none" =>
    \E a \in Above[t] : pc[a] \in (Active \cup Ended) \ {"wait", "served"}

\* r is the nearest request on the way to t.
Nearest(r, t) ==
    /\ r \in Above[t]
    /\ \A a \in Above[t] : a # Start /\ Kind[a] = "api" => a = r \/ a \in Above[r]
    /\ r # Start => Kind[r] = "api"

Answers ==
    /\ response[Start] = Start
    /\ \A t \in Tasks \ {Start} :
          /\ pc[t] \in {"fetch", "handle", "create"} => Nearest(response[t], t)
          /\ pc[t] \in {"wait", "served"} =>
                IF Kind[t] = "api" THEN response[t] = t ELSE Nearest(response[t], t)
          /\ pc[t] \in {"create", "wait", "served"} => Nearest(read[t], t)
          /\ pc[t] = "create" => Kind[t] = "upsert"

\* The invariant that is inductive.
IInv ==
    /\ TypeOK
    /\ pc[Start] \in {"wait", "served"}
    /\ Reached /\ Frontier /\ EndsLast /\ Answers

-----------------------------------------------------------------------------

\* The way of a task is that of its parent, and the parent.
LEMMA Tree ==
    /\ Start \in Tasks /\ Above[Start] = {}
    /\ \A t \in Tasks \ {Start} :
          /\ Parent[t] \in Tasks /\ Above[t] = Above[Parent[t]] \cup {Parent[t]}
          /\ Start \in Above[t]
    /\ \A t \in Tasks : Above[t] \subseteq Tasks /\ t \notin Above[t]
    /\ \A t \in Tasks : \A a \in Above[t] :
          \E u \in (Above[t] \cup {t}) \ {Start} : Parent[u] = a
  BY TreeAssumption

\* In the beginning only the tasks of the first connections are under way.
LEMMA InitIInv == Init => IInv
<1> SUFFICES ASSUME Init PROVE IInv
  OBVIOUS
<1> USE Tree DEF Init
<1>1. TypeOK
  BY DEF TypeOK, Active, Ended
<1>2. pc[Start] = "wait"
  OBVIOUS
<1>3. Reached
  BY <1>2 DEF Reached
<1>4. Frontier
  <2> SUFFICES ASSUME NEW t \in Tasks, pc[t] = "none"
               PROVE  \E a \in Above[t] : pc[a] \in (Active \cup Ended) \ {"wait", "served"}
    BY DEF Frontier
  <2>1. t # Start /\ Parent[t] # Start
    OBVIOUS
  <2>2. PICK u \in (Above[t] \cup {t}) \ {Start} : Parent[u] = Start
    BY <2>1
  <2>3. u \in Above[t] /\ pc[u] = "ready"
    BY <2>1, <2>2
  <2> QED BY <2>3 DEF Active
<1>5. EndsLast
  BY DEF EndsLast, Ended
<1>6. Answers
  BY DEF Answers
<1> QED BY <1>1, <1>2, <1>3, <1>4, <1>5, <1>6 DEF IInv

\* A step that leaves the connections of t alone: t goes from one state in which it has not
\* reached them to another, or ends.
LEMMA Moves ==
    ASSUME IInv, NEW t \in Tasks \ {Start},
           pc[t] \in {"ready", "fetch", "handle", "create"},
           \E next \in {"fetch", "handle", "create", "stopped", "failed"} :
               pc' = [pc EXCEPT ![t] = next]
    PROVE  /\ pc'[Start] \in {"wait", "served"}
           /\ pc' \in [Tasks -> Active \cup Ended \cup {"none"}]
           /\ Reached' /\ Frontier' /\ EndsLast'
<1> USE Tree DEF IInv, TypeOK
<1> PICK next \in {"fetch", "handle", "create", "stopped", "failed"} :
        pc' = [pc EXCEPT ![t] = next]
  OBVIOUS
<1>1. \A u \in Tasks : pc'[u] = IF u = t THEN next ELSE pc[u]
  OBVIOUS
<1>2. pc'[Start] \in {"wait", "served"} /\ pc' \in [Tasks -> Active \cup Ended \cup {"none"}]
  BY DEF Active, Ended
<1>3. \A u \in Tasks : t \in Above[u] => pc[u] = "none"
  BY DEF Reached
<1>4. Reached'
  BY <1>1, <1>3 DEF Reached
<1>5. Frontier'
  BY <1>1 DEF Frontier, Active, Ended
<1>6. EndsLast'
  BY <1>1, <1>3 DEF EndsLast, Reached, Active, Ended
<1> QED BY <1>2, <1>4, <1>5, <1>6

\* A step with which t reaches its connections.
LEMMA GoesOn ==
    ASSUME IInv, NEW t \in Tasks \ {Start}, pc[t] \in {"handle", "create"}, GoOn(t)
    PROVE  /\ pc'[Start] \in {"wait", "served"}
           /\ pc' \in [Tasks -> Active \cup Ended \cup {"none"}]
           /\ \A u \in Children(t) : pc[u] = "none"
           /\ Reached' /\ Frontier' /\ EndsLast'
<1> USE Tree DEF IInv, TypeOK
<1>1. \A u \in Tasks : pc'[u] = IF u = t THEN "wait"
                                ELSE IF u \in Children(t) THEN "ready" ELSE pc[u]
  BY DEF GoOn
<1>2. \A u \in Children(t) : pc[u] = "none" /\ u # Start /\ Above[u] = Above[t] \cup {t}
  BY DEF Children, Reached
<1>3. pc'[Start] \in {"wait", "served"} /\ pc' \in [Tasks -> Active \cup Ended \cup {"none"}]
  BY <1>2 DEF Active, Ended, GoOn
<1>4. \A u \in Tasks : t \in Above[u] => pc[u] = "none"
  BY DEF Reached
<1>5. Reached'
  <2> SUFFICES ASSUME NEW u \in Tasks, pc'[u] # "none", NEW a \in Above[u]
               PROVE  pc'[a] \in {"wait", "served"}
    BY DEF Reached
  <2>1. CASE u \in Children(t)
    BY <1>1, <1>2, <2>1 DEF Reached
  <2>2. CASE u \notin Children(t)
    BY <1>1, <1>2, <1>4, <2>2 DEF Reached
  <2> QED BY <2>1, <2>2
<1>6. Frontier'
  <2> SUFFICES ASSUME NEW u \in Tasks, pc'[u] = "none"
               PROVE  \E a \in Above[u] : pc'[a] \in (Active \cup Ended) \ {"wait", "served"}
    BY DEF Frontier
  <2>1. pc[u] = "none" /\ u \notin Children(t) /\ u # t
    BY <1>1
  <2>2. PICK a \in Above[u] : pc[a] \in (Active \cup Ended) \ {"wait", "served"}
    BY <2>1 DEF Frontier
  <2>3. CASE a # t
    BY <1>1, <2>2, <2>3, <1>2 DEF Active, Ended
  <2>4. CASE a = t
    <3>1. PICK v \in (Above[u] \cup {u}) \ {Start} : Parent[v] = t
      BY <2>4
    <3>2. v \in Children(t) /\ v \in Above[u]
      BY <3>1, <2>1 DEF Children
    <3> QED BY <3>2, <1>1, <1>2 DEF Active, Ended
  <2> QED BY <2>3, <2>4
<1>7. EndsLast'
  <2> SUFFICES ASSUME NEW u \in Tasks, NEW a \in Above[u], pc'[a] \in Ended
               PROVE  pc'[u] \in Ended \cup {"none"}
    BY DEF EndsLast
  <2>1. a # t /\ a \notin Children(t) /\ pc[a] \in Ended
    BY <1>1 DEF Ended
  <2>2. CASE u = t \/ u \in Children(t)
    <3>1. a \in Above[t]
      BY <2>1, <2>2, <1>2
    <3> QED BY <3>1, <2>1 DEF EndsLast, Ended
  <2>3. CASE u # t /\ u \notin Children(t)
    BY <2>1, <2>3, <1>1 DEF EndsLast, Ended
  <2> QED BY <2>2, <2>3
<1> QED BY <1>2, <1>3, <1>5, <1>6, <1>7

\* What a task read stays read, and the answers of the others stay where they are: all that
\* is left to show of Answers is what holds for the task that steps.
LEMMA AnswersOf ==
    ASSUME IInv, NEW t \in Tasks \ {Start},
           \A u \in Tasks \ {t} : response'[u] = response[u] /\ read'[u] = read[u],
           \A u \in Tasks \ {t} : pc'[u] = pc[u] \/ pc'[u] \in {"none", "ready"},
           pc'[t] \in {"fetch", "handle", "create"} => Nearest(response'[t], t),
           pc'[t] \in {"wait", "served"} =>
               IF Kind[t] = "api" THEN response'[t] = t ELSE Nearest(response'[t], t),
           pc'[t] \in {"create", "wait", "served"} => Nearest(read'[t], t),
           pc'[t] = "create" => Kind[t] = "upsert"
    PROVE  Answers'
<1> USE Tree DEF IInv, Answers, Nearest
<1>1. response'[Start] = Start
  OBVIOUS
<1>2. ASSUME NEW u \in Tasks \ {Start, t}
      PROVE  /\ pc'[u] \in {"fetch", "handle", "create"} => Nearest(response'[u], u)
             /\ pc'[u] \in {"wait", "served"} =>
                   IF Kind[u] = "api" THEN response'[u] = u ELSE Nearest(response'[u], u)
             /\ pc'[u] \in {"create", "wait", "served"} => Nearest(read'[u], u)
             /\ pc'[u] = "create" => Kind[u] = "upsert"
  <2>1. response'[u] = response[u] /\ read'[u] = read[u]
    OBVIOUS
  <2>2. CASE pc'[u] = pc[u]
    BY <2>1, <2>2
  <2>3. CASE pc'[u] \in {"none", "ready"}
    BY <2>3
  <2> QED BY <2>2, <2>3
<1> QED BY <1>1, <1>2

\* One case per action.
LEMMA StepIInv == IInv /\ [Next]_vars => IInv'
<1> SUFFICES ASSUME IInv, [Next]_vars PROVE IInv'
  OBVIOUS
<1> USE Tree
<1>1. ASSUME NEW t \in Tasks \ {Start}, Begin(t) PROVE IInv'
  <2> USE <1>1 DEF Begin
  <2>1. /\ pc'[Start] \in {"wait", "served"} /\ pc' \in [Tasks -> Active \cup Ended \cup {"none"}]
        /\ Reached' /\ Frontier' /\ EndsLast'
    BY Moves DEF IInv, TypeOK
  <2>2. TypeOK'
    BY <2>1 DEF IInv, TypeOK, Context
  <2>3. Nearest(response[Parent[t]], t)
    <3> DEFINE p == Parent[t]
    <3>1. p \in Tasks /\ Above[t] = Above[p] \cup {p} /\ pc[p] \in {"wait", "served"}
      BY DEF IInv, Reached
    <3>2. CASE p = Start
      BY <3>1, <3>2 DEF IInv, Answers, Nearest
    <3>3. CASE p # Start /\ Kind[p] = "api"
      BY <3>1, <3>3 DEF IInv, Answers, Nearest
    <3>4. CASE p # Start /\ Kind[p] # "api"
      <4>1. Nearest(response[p], p)
        BY <3>1, <3>4 DEF IInv, Answers
      <4> QED BY <4>1, <3>1, <3>4 DEF Nearest
    <3> QED BY <3>2, <3>3, <3>4
  <2>4. Answers'
    BY <2>3, AnswersOf DEF IInv, TypeOK, Context
  <2> QED BY <2>1, <2>2, <2>4 DEF IInv
<1>2. ASSUME NEW t \in Tasks \ {Start}, Fetch(t) \/ Fail(t) PROVE IInv'
  <2> USE <1>2 DEF Fetch, Fail
  <2>1. /\ pc'[Start] \in {"wait", "served"} /\ pc' \in [Tasks -> Active \cup Ended \cup {"none"}]
        /\ Reached' /\ Frontier' /\ EndsLast'
    BY Moves
  <2>2. TypeOK'
    BY <2>1 DEF IInv, TypeOK
  <2>3. Answers'
    BY AnswersOf DEF IInv, TypeOK, Answers
  <2> QED BY <2>1, <2>2, <2>3 DEF IInv
<1>3. ASSUME NEW t \in Tasks \ {Start}, Stop(t) PROVE IInv'
  <2> USE <1>3 DEF Stop, Handling, Context
  <2>1. /\ pc'[Start] \in {"wait", "served"} /\ pc' \in [Tasks -> Active \cup Ended \cup {"none"}]
        /\ Reached' /\ Frontier' /\ EndsLast'
    BY Moves
  <2>2. TypeOK'
    BY <2>1 DEF IInv, TypeOK
  <2>3. Answers'
    BY AnswersOf DEF IInv, TypeOK
  <2> QED BY <2>1, <2>2, <2>3 DEF IInv
<1>4. ASSUME NEW t \in Tasks \ {Start}, Act(t) \/ Answer(t) PROVE IInv'
  <2> USE <1>4 DEF Act, Answer, Handling, Context
  <2>1. /\ pc'[Start] \in {"wait", "served"} /\ pc' \in [Tasks -> Active \cup Ended \cup {"none"}]
        /\ \A u \in Children(t) : pc[u] = "none"
        /\ Reached' /\ Frontier' /\ EndsLast'
    BY GoesOn
  <2>2. TypeOK'
    BY <2>1 DEF IInv, TypeOK
  <2>3. \A u \in Tasks \ {t} : pc'[u] = pc[u] \/ pc'[u] = "ready"
    BY DEF GoOn
  <2>4. pc'[t] = "wait" /\ Nearest(read'[t], t)
    BY DEF IInv, TypeOK, Answers, GoOn
  <2>5. IF Kind[t] = "api" THEN response'[t] = t ELSE Nearest(response'[t], t)
    BY DEF IInv, TypeOK, Answers
  <2>6. Answers'
    BY <2>3, <2>4, <2>5, AnswersOf DEF IInv, TypeOK
  <2> QED BY <2>1, <2>2, <2>6 DEF IInv
<1>5. ASSUME NEW t \in Tasks \ {Start}, Create(t) \/ CreateMissing(t) PROVE IInv'
  <2> USE <1>5 DEF Create, CreateMissing, Handling, Context
  <2>1. /\ pc'[Start] \in {"wait", "served"} /\ pc' \in [Tasks -> Active \cup Ended \cup {"none"}]
        /\ Reached' /\ Frontier' /\ EndsLast'
    BY GoesOn, Moves
  <2>2. TypeOK'
    BY <2>1 DEF IInv, TypeOK
  <2>3. /\ pc'[t] \in {"wait", "failed"}
        /\ \A u \in Tasks \ {t} : pc'[u] = pc[u] \/ (pc'[u] = "ready" /\ pc[u] = "none")
    BY GoesOn DEF IInv, TypeOK, GoOn
  <2>4. Kind[t] # "api" /\ Nearest(response'[t], t) /\ Nearest(read'[t], t)
    BY DEF IInv, TypeOK, Answers
  <2>5. Answers'
    BY <2>3, <2>4, AnswersOf DEF IInv, TypeOK
  <2> QED BY <2>1, <2>2, <2>5 DEF IInv
<1>6. ASSUME NEW t \in Tasks \ {Start}, Update(t) PROVE IInv'
  <2> USE <1>6 DEF Update, Handling, Context
  <2>1. /\ pc'[Start] \in {"wait", "served"} /\ pc' \in [Tasks -> Active \cup Ended \cup {"none"}]
        /\ Reached' /\ Frontier' /\ EndsLast'
    BY GoesOn, Moves
  <2>2. TypeOK'
    BY <2>1 DEF IInv, TypeOK
  <2>3. /\ pc'[t] \in {"wait", "create"}
        /\ \A u \in Tasks \ {t} : pc'[u] = pc[u] \/ (pc'[u] = "ready" /\ pc[u] = "none")
    BY GoesOn DEF IInv, TypeOK, GoOn
  <2>4. Kind[t] # "api" /\ Nearest(response'[t], t) /\ Nearest(read'[t], t)
    BY DEF IInv, TypeOK, Answers
  <2>5. pc'[t] = "create" => Kind[t] = "upsert"
    BY DEF IInv, TypeOK, GoOn
  <2>6. Answers'
    BY <2>3, <2>4, <2>5, AnswersOf DEF IInv, TypeOK
  <2> QED BY <2>1, <2>2, <2>6 DEF IInv
<1>7. ASSUME NEW t \in Tasks, Return(t) PROVE IInv'
  <2> USE <1>7 DEF Return
  <2>1. \A u \in Tasks : pc'[u] = IF u = t THEN "served" ELSE pc[u]
    BY DEF IInv, TypeOK
  <2>2. TypeOK' /\ pc'[Start] \in {"wait", "served"}
    BY <2>1 DEF IInv, TypeOK, Ended
  <2>3. Reached' /\ Frontier'
    BY <2>1 DEF IInv, Reached, Frontier
  <2>4. EndsLast'
    <3> SUFFICES ASSUME NEW u \in Tasks, t \in Above[u]
                 PROVE  pc[u] \in Ended \cup {"none"}
      BY <2>1 DEF IInv, EndsLast, Ended
    <3>1. PICK v \in (Above[u] \cup {u}) \ {Start} : Parent[v] = t
      OBVIOUS
    <3>2. v \in Tasks /\ pc[v] \in Ended
      BY <3>1 DEF Children
    <3> QED BY <3>1, <3>2 DEF IInv, EndsLast
  <2>5. Answers'
    BY <2>1 DEF IInv, Answers, Nearest
  <2> QED BY <2>2, <2>3, <2>4, <2>5 DEF IInv
<1>8. CASE UNCHANGED vars
  BY <1>8 DEF vars, IInv, TypeOK, Reached, Frontier, EndsLast, Answers, Nearest
<1> QED BY <1>1, <1>2, <1>3, <1>4, <1>5, <1>6, <1>7, <1>8 DEF Next, Step

\* The invariant holds in every reachable state, whatever the flow.
THEOREM InvCorrect == Spec => []IInv
<1> QED BY InitIInv, StepIInv, PTL DEF Spec

\* Every variable keeps its type.
THEOREM TypeCorrect == Spec => []TypeOK
<1>1. IInv => TypeOK
  BY DEF IInv
<1> QED BY <1>1, InvCorrect, PTL

\* No part of a flow is reported as ended while a task below it is at work.
THEOREM EndsLastCorrect == Spec => []EndsLast
<1>1. IInv => EndsLast
  BY DEF IInv
<1> QED BY <1>1, InvCorrect, PTL

\* When the flow has ended, every task was run but those below one that stopped or failed.
THEOREM IsolatedCorrect == Spec => []Isolated
<1>1. ASSUME IInv PROVE Isolated
  <2> SUFFICES ASSUME pc[Start] = "served", NEW t \in Tasks
               PROVE  pc[t] = "none" <=> \E a \in Above[t] : pc[a] \in {"stopped", "failed"}
    BY DEF Isolated
  <2>1. \A u \in Tasks : pc[u] \in Ended \cup {"none"}
    BY <1>1, Tree DEF IInv, EndsLast, Ended
  <2>2. ASSUME pc[t] = "none" PROVE \E a \in Above[t] : pc[a] \in {"stopped", "failed"}
    BY <1>1, <2>1, <2>2, Tree DEF IInv, Frontier, Active, Ended
  <2>3. ASSUME pc[t] # "none" PROVE \A a \in Above[t] : pc[a] \notin {"stopped", "failed"}
    BY <1>1, <2>3 DEF IInv, Reached
  <2> QED BY <2>2, <2>3
<1> QED BY <1>1, InvCorrect, PTL

\* A handler reads the answer of the nearest request on its own way.
THEOREM OwnAnswerCorrect == Spec => []OwnAnswer
<1>1. IInv => OwnAnswer
  BY DEF IInv, Answers, Nearest, OwnAnswer
<1> QED BY <1>1, InvCorrect, PTL

-----------------------------------------------------------------------------
(* Nobody waits for ever for somebody who waits.  The prover knows neither *)
(* liveness nor ENABLED, but the two facts that FlowEnds rests on are      *)
(* about states and steps: below whoever waits there is a task that can go *)
(* on, and every step brings tasks forward and none back.                  *)

\* The guard of some action of the task holds, whatever its kind.
CanGoOn(t) ==
    \/ t # Start /\ pc[t] \in {"ready", "fetch", "handle", "create"}
    \/ pc[t] = "wait" /\ \A u \in Children(t) : pc[u] \in Ended

NeverStuck == \A t \in Tasks : pc[t] = "wait" =>
    \E u \in Tasks : (u = t \/ t \in Above[u]) /\ CanGoOn(u)

\* A flow may be infinite as far as the theorems go; what has begun is not.
Waiting == {t \in Tasks : pc[t] = "wait"}
FewWait == IsFiniteSet(Waiting)

\* A set of numbers that is not empty has a smallest one.
LEMMA SmallestNat ==
    ASSUME NEW N \in SUBSET Nat, N # {}
    PROVE  \E n \in N : \A m \in N : n <= m
<1> DEFINE L == OpToRel(<, Nat)
<1>1. IsWellFoundedOn(L, Nat)
  BY NatLessThanWellFounded
<1> HIDE DEF L
<1>2. PICK n \in N : \A m \in N : <<m, n>> \notin L
  BY <1>1, WFMin, Zenon
<1>3. \A m \in N : ~(m < n)
  BY <1>2 DEF L, OpToRel
<1> QED  BY <1>3

\* With each step at most one task begins to wait.
LEMMA WaitingStep ==
    ASSUME IInv, FewWait, [Next]_vars
    PROVE  FewWait'
<1>1. \E t \in Tasks : Waiting' \subseteq Waiting \cup {t}
  <2>1. ASSUME NEW t \in Tasks \ {Start}, Step(t)
        PROVE  \A u \in Tasks \ {t} : pc'[u] \in {pc[u], "ready"}
    BY <2>1 DEF Step, Begin, Fetch, Fail, Stop, Act, Answer, Create, Update, CreateMissing,
       GoOn, IInv, TypeOK
  <2>2. ASSUME NEW t \in Tasks, Return(t)
        PROVE  \A u \in Tasks \ {t} : pc'[u] = pc[u]
    BY <2>2 DEF Return, IInv, TypeOK
  <2>3. CASE UNCHANGED vars
    BY <2>3, Tree DEF vars, Waiting
  <2> QED  BY <2>1, <2>2, <2>3 DEF Next, Waiting
<1>2. PICK t \in Tasks : Waiting' \subseteq Waiting \cup {t}
  BY <1>1
<1>3. IsFiniteSet(Waiting \cup {t})
  BY FS_AddElement DEF FewWait
<1> QED  BY <1>2, <1>3, FS_Subset DEF FewWait

\* Among those that wait at t or below it, take one with the fewest others left beside the
\* way to it: nobody waits directly below, as there would be one fewer for that one.
LEMMA WaitsForWork ==
    ASSUME IInv, FewWait, NEW t \in Tasks, pc[t] = "wait"
    PROVE  \E u \in Tasks : (u = t \/ t \in Above[u]) /\ CanGoOn(u)
<1> USE Tree
<1> DEFINE W == {w \in Waiting : w = t \/ t \in Above[w]}
           left == [w \in W |-> Cardinality(Waiting \ Above[w])]
           N == {left[w] : w \in W}
<1>1. t \in W
  BY DEF Waiting
<1>2. \A w \in W : IsFiniteSet(Waiting \ Above[w]) /\ left[w] \in Nat
  BY FS_Subset, FS_CardinalityType DEF FewWait
<1>3. N \in SUBSET Nat /\ N # {}
  <2>1. \A v \in W : left[v] \in Nat
    BY <1>2
  <2> HIDE DEF left, W
  <2> QED  BY <1>1, <2>1
<1>4. PICK w \in W : \A v \in W : left[w] <= left[v]
  <2> HIDE DEF left, W
  <2>1. PICK n \in N : \A m \in N : n <= m
    <3> HIDE DEF N
    <3> QED  BY <1>3, SmallestNat
  <2> QED  BY <2>1
<1>5. w \in Tasks /\ pc[w] = "wait" /\ (w = t \/ t \in Above[w])
  BY DEF Waiting
<1>6. ASSUME NEW u \in Children(w) PROVE pc[u] \notin {"wait", "none"}
  <2>1. u \in Tasks \ {Start} /\ Above[u] = Above[w] \cup {w}
    BY DEF Children
  <2>2. pc[u] # "none"
    BY <1>5, <2>1 DEF IInv, Frontier, Reached
  <2>3. ASSUME pc[u] = "wait" PROVE FALSE
    <3>1. u \in W
      BY <1>5, <2>1, <2>3 DEF Waiting
    <3>2. Waiting \ Above[u] = (Waiting \ Above[w]) \ {w} /\ w \in Waiting \ Above[w]
      BY <1>5, <2>1 DEF Waiting
    <3>3. Cardinality((Waiting \ Above[w]) \ {w}) = Cardinality(Waiting \ Above[w]) - 1
      <4>1. IsFiniteSet(Waiting \ Above[w])
        BY <1>2
      <4> HIDE DEF left, W
      <4> QED  BY <3>2, <4>1, FS_RemoveElement
    <3>5. left[u] = left[w] - 1
      BY <3>1, <3>2, <3>3
    <3>4. left[w] <= left[u] /\ left[w] \in Nat
      BY <1>2, <1>4, <3>1
    <3> HIDE DEF left
    <3> QED  BY <3>4, <3>5
  <2> QED  BY <2>2, <2>3
<1>7. CASE \E u \in Children(w) : pc[u] \notin Ended
  <2>1. PICK u \in Children(w) : pc[u] \notin Ended
    BY <1>7
  <2>2. u \in Tasks \ {Start} /\ Above[u] = Above[w] \cup {w}
    BY DEF Children
  <2>3. pc[u] \in {"ready", "fetch", "handle", "create"}
    BY <1>6, <2>1, <2>2 DEF IInv, TypeOK, Active, Ended
  <2> QED  BY <1>5, <2>2, <2>3 DEF CanGoOn
<1>8. CASE \A u \in Children(w) : pc[u] \in Ended
  BY <1>5, <1>8 DEF CanGoOn
<1> QED  BY <1>7, <1>8

\* Whoever waits for a part of the flow has somebody at or below it that can go on, for a
\* flow of any size and any interleaving: handle_many never waits for itself.
THEOREM NeverStuckCorrect == Spec => []NeverStuck
<1>1. Init => FewWait
  <2>1. Init => Waiting \subseteq {Start}
    BY DEF Init, Waiting
  <2> QED  BY <2>1, FS_EmptySet, FS_AddElement, FS_Subset DEF FewWait
<1>2. IInv /\ FewWait /\ [Next]_vars => FewWait'
  BY WaitingStep
<1>3. IInv /\ FewWait => NeverStuck
  BY WaitsForWork DEF NeverStuck
<1> QED  BY <1>1, <1>2, <1>3, InvCorrect, PTL DEF Spec

\* How far a task has come.
Stage == [none |-> 0, ready |-> 1, fetch |-> 2, handle |-> 3, create |-> 4, wait |-> 5,
          served |-> 6, stopped |-> 6, failed |-> 6]
Forward ==
    /\ \A t \in Tasks : Stage[pc[t]] <= Stage[pc'[t]]
    /\ \E t \in Tasks : Stage[pc[t]] < Stage[pc'[t]]

\* Every step brings a task forward and none back, so that no connection is handled twice,
\* and a flow of n tasks has ended after 6n steps at the latest.
THEOREM ForwardCorrect == Spec => [][Forward]_vars
<1>1. ASSUME IInv, Next PROVE Forward
  <2> USE Tree DEF IInv, TypeOK
  <2>0. \A place \in Active \cup Ended \cup {"none"} : Stage[place] \in 0 .. 6
    BY DEF Stage, Active, Ended
  <2>1. \A u \in Tasks : Stage[pc[u]] \in 0 .. 6 /\ Stage[pc'[u]] \in 0 .. 6
    <3>1. TypeOK'
      BY <1>1, StepIInv DEF IInv
    <3>2. \A u \in Tasks : /\ pc[u] \in Active \cup Ended \cup {"none"}
                          /\ pc'[u] \in Active \cup Ended \cup {"none"}
      BY <1>1, <3>1
    <3> QED  BY <2>0, <3>2
  <2>2. ASSUME NEW t \in Tasks, Stage[pc[t]] < Stage[pc'[t]],
               \A u \in Tasks \ {t} : pc'[u] = pc[u] \/ (pc[u] = "none" /\ pc'[u] = "ready")
        PROVE  Forward
    <3>1. Stage["none"] = 0 /\ Stage["ready"] = 1
      BY DEF Stage
    <3>2. ASSUME NEW u \in Tasks PROVE Stage[pc[u]] <= Stage[pc'[u]]
      <4>1. CASE u = t
        BY <2>1, <2>2, <4>1
      <4>2. CASE pc'[u] = pc[u]
        BY <2>1, <4>2
      <4>3. CASE pc[u] = "none" /\ pc'[u] = "ready"
        BY <3>1, <4>3
      <4> QED  BY <2>2, <4>1, <4>2, <4>3
    <3> QED  BY <2>2, <3>2 DEF Forward
  <2>3. ASSUME NEW t \in Tasks, NEW next \in {"fetch", "handle", "create", "stopped", "failed", "served"},
               pc' = [pc EXCEPT ![t] = next], Stage[pc[t]] < Stage[next]
        PROVE  Forward
    <3>1. Stage[pc[t]] < Stage[pc'[t]] /\ \A u \in Tasks \ {t} : pc'[u] = pc[u]
      BY <1>1, <2>3
    <3> QED  BY <2>2, <3>1
  <2>4. ASSUME NEW t \in Tasks \ {Start}, pc[t] \in {"handle", "create"}, GoOn(t)
        PROVE  Forward
    <3>1. pc'[t] = "wait" /\ Stage[pc[t]] < Stage[pc'[t]]
      BY <2>4 DEF GoOn, Stage
    <3>2. \A u \in Tasks \ {t} : pc'[u] = pc[u] \/ (pc[u] = "none" /\ pc'[u] = "ready")
      BY <1>1, <2>4, GoesOn DEF GoOn
    <3> QED  BY <2>2, <3>1, <3>2
  <2>5. ASSUME NEW t \in Tasks \ {Start}, Step(t) PROVE Forward
    <3>1. CASE Begin(t) \/ Fetch(t) \/ Fail(t) \/ Stop(t)
      BY <2>3, <3>1 DEF Begin, Fetch, Fail, Stop, Handling, Stage
    <3>2. CASE Act(t) \/ Answer(t)
      BY <2>4, <3>2 DEF Act, Answer, Handling
    <3>3. CASE Create(t) \/ CreateMissing(t)
      BY <2>3, <2>4, <3>3 DEF Create, CreateMissing, Handling, Stage
    <3>4. CASE Update(t)
      BY <2>3, <2>4, <3>4 DEF Update, Handling, Stage
    <3> QED  BY <2>5, <3>1, <3>2, <3>3, <3>4 DEF Step
  <2>6. ASSUME NEW t \in Tasks, Return(t) PROVE Forward
    <3>1. pc' = [pc EXCEPT ![t] = "served"] /\ Stage[pc[t]] < Stage["served"]
      BY <2>6 DEF Return, Stage
    <3> QED  BY <2>3, <3>1
  <2> QED  BY <1>1, <2>5, <2>6 DEF Next
<1>2. IInv /\ [Next]_vars => [Forward]_vars
  BY <1>1
<1> QED  BY <1>2, InvCorrect, PTL DEF Spec
=============================================================================
