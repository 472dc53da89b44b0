-------------------------- MODULE ServiceTasksProofs --------------------------
(***************************************************************************)
(* The periodic tasks keep their interval and reach the chats once, for    *)
(* any tasks, intervals, page and batch sizes, failures, and chats that    *)
(* come and go.                                                            *)
(***************************************************************************)
EXTENDS ServiceTasks, TLAPS

USE DEF None, Age, service, page, locals, shifts, history

\* No two chats have the same place.
Apart == \A c, d \in Chats : place[c] = place[d] /\ place[c] > 0 => c = d

\* The clock stops at the longest interval only.
LEMMA ClockEnds ==
    ASSUME NEW b \in Nat, b + 1 \notin Ages
    PROVE  \A t \in Tasks : Interval[t] <= b
<1> SUFFICES ASSUME NEW t \in Tasks, b < Interval[t] PROVE b + 1 \in 0 .. Interval[t]
  BY IntervalAssumption DEF Ages
<1> QED  BY IntervalAssumption

LEMMA OlderTypes ==
    ASSUME NEW ages \in [Tasks -> Int], \A t \in Tasks : ages[t] \in Age(t)
    PROVE  /\ Older(ages) \in [Tasks -> Int]
           /\ \A t \in Tasks : Older(ages)[t] \in Age(t)
BY IntervalAssumption DEF Older

\* The date a run gives to the tasks it carried out, or to one it has begun.
LEMMA BegunTypes ==
    ASSUME TypeOK, NEW t \in Tasks
    PROVE  (IF begun < Interval[t] THEN begun ELSE Interval[t]) \in Age(t) \cap Nat
BY IntervalAssumption DEF TypeOK

LEMMA NotedTypes ==
    ASSUME TypeOK
    PROVE  /\ Noted \in [Tasks -> Int]
           /\ \A t \in Tasks : Noted[t] \in Age(t)
BY DEF TypeOK, Noted

LEMMA RecordedTypes ==
    ASSUME TypeOK
    PROVE  /\ Recorded \in [Tasks -> Int]
           /\ \A t \in Tasks : Recorded[t] \in Age(t)
BY IntervalAssumption DEF TypeOK, Recorded

\* The places after a chat has come or gone.
LEMMA PlacesKept ==
    ASSUME TypeOK, Apart, ChatComes \/ ChatGoes
    PROVE  count' \in Nat /\ place' \in [Chats -> 0 .. count'] /\ Apart'
<1>1. count \in Nat /\ place \in [Chats -> 0 .. count]
  BY DEF TypeOK
<1>2. CASE ChatComes
  <2>1. PICK c \in Chats, k \in 1 .. count + 1 :
          place' = [d \in Chats |-> IF d = c THEN k ELSE IF place[d] >= k THEN place[d] + 1 ELSE place[d]]
    BY <1>2 DEF ChatComes
  <2>2. count' = count + 1
    BY <1>2 DEF ChatComes
  <2>3. place' \in [Chats -> 0 .. count']
    BY <1>1, <2>1, <2>2
  <2>4. Apart'
    <3> SUFFICES ASSUME NEW d \in Chats, NEW e \in Chats, NEW n \in Nat \ {0},
                        n = place'[d], n = place'[e]
                 PROVE  d = e
      BY <2>2, <2>3 DEF Apart
    <3>1. /\ place[d] \in Nat /\ place[e] \in Nat /\ k \in Nat /\ k > 0
          /\ n = IF d = c THEN k ELSE IF place[d] >= k THEN place[d] + 1 ELSE place[d]
          /\ n = IF e = c THEN k ELSE IF place[e] >= k THEN place[e] + 1 ELSE place[e]
      <4>1. place[d] \in Nat /\ place[e] \in Nat /\ k \in Nat /\ k > 0
        BY <1>1, <2>1
      <4>2. n = IF d = c THEN k ELSE IF place[d] >= k THEN place[d] + 1 ELSE place[d]
        BY <2>1
      <4>3. n = IF e = c THEN k ELSE IF place[e] >= k THEN place[e] + 1 ELSE place[e]
        BY <2>1
      <4> QED  BY <4>1, <4>2, <4>3
    <3>2. place[d] = place[e] /\ place[d] > 0 => d = e
      BY DEF Apart
    <3> HIDE DEF Apart
    <3>3. ASSUME d # c, e # c PROVE place[d] = place[e] /\ place[d] > 0
      <4>1. place[d] = place[e]
        BY <3>1, <3>3
      <4>2. place[d] > 0
        BY <3>1, <3>3
      <4> QED  BY <4>1, <4>2
    <3>4. ASSUME d = c PROVE e = c
      BY <3>1, <3>4
    <3>5. ASSUME e = c PROVE d = c
      BY <3>1, <3>5
    <3> QED  BY <3>2, <3>3, <3>4, <3>5
  <2> QED  BY <1>1, <2>2, <2>3, <2>4
<1>3. CASE ChatGoes
  <2>1. PICK c \in Chats :
          /\ place[c] > 0
          /\ place' = [d \in Chats |-> IF d = c THEN 0 ELSE IF place[d] > place[c] THEN place[d] - 1 ELSE place[d]]
    BY <1>3 DEF ChatGoes
  <2>2. count' = count - 1 /\ count' \in Nat
    BY <1>1, <1>3, <2>1 DEF ChatGoes
  <2>3. \A d \in Chats : d # c => place[d] # place[c]
    BY <2>1 DEF Apart
  <2>4. place' \in [Chats -> 0 .. count']
    BY <1>1, <2>1, <2>2, <2>3
  <2>5. Apart'
    <3> SUFFICES ASSUME NEW d \in Chats, NEW e \in Chats, NEW n \in Nat \ {0},
                        n = place'[d], n = place'[e]
                 PROVE  d = e
      BY <2>2, <2>4 DEF Apart
    <3>1. /\ place[c] \in Nat /\ place[d] \in Nat /\ place[e] \in Nat
          /\ n = IF d = c THEN 0 ELSE IF place[d] > place[c] THEN place[d] - 1 ELSE place[d]
          /\ n = IF e = c THEN 0 ELSE IF place[e] > place[c] THEN place[e] - 1 ELSE place[e]
      <4>1. place[c] \in Nat /\ place[d] \in Nat /\ place[e] \in Nat
        BY <1>1
      <4>2. n = IF d = c THEN 0 ELSE IF place[d] > place[c] THEN place[d] - 1 ELSE place[d]
        BY <2>1
      <4>3. n = IF e = c THEN 0 ELSE IF place[e] > place[c] THEN place[e] - 1 ELSE place[e]
        BY <2>1
      <4> QED  BY <4>1, <4>2, <4>3
    <3>2. d # c
      BY <3>1
    <3>3. e # c
      BY <3>1
    <3>4. place[d] # place[c] /\ place[e] # place[c]
      BY <2>3, <3>2, <3>3
    <3>5. place[d] > 0
      BY <3>1, <3>2
    <3>6. place[d] = place[e]
      BY <3>1, <3>2, <3>3, <3>4
    <3> QED  BY <3>5, <3>6 DEF Apart
  <2> QED  BY <2>2, <2>4, <2>5
<1> QED  BY <1>2, <1>3

LEMMA TypeInit == Init => TypeOK /\ Apart
BY SizesAssumption, IntervalAssumption DEF Init, TypeOK, Apart, NoDates, NoPage, Chats

LEMMA TypeStep == TypeOK /\ Apart /\ [Next]_vars => TypeOK' /\ Apart'
<1> SUFFICES ASSUME TypeOK, Apart, [Next]_vars PROVE TypeOK' /\ Apart'
  OBVIOUS
<1>14. UNCHANGED place => Apart'
  BY DEF Apart
<1>15. ASSUME ChatComes \/ ChatGoes PROVE TypeOK' /\ Apart'
  <2>1. count' \in Nat /\ place' \in [Chats -> 0 .. count'] /\ Apart'
    BY <1>15, PlacesKept
  <2>2. since' \subseteq {c \in Chats : place'[c] > 0}
    <3> SUFFICES ASSUME NEW c \in since' PROVE c \in Chats /\ place'[c] > 0
      OBVIOUS
    <3>1. c \in Chats /\ place[c] \in Nat /\ place[c] > 0
      BY <1>15 DEF ChatComes, ChatGoes, TypeOK
    <3>2. CASE ChatComes
      BY <3>1, <3>2 DEF ChatComes, TypeOK
    <3>3. CASE ChatGoes
      <4>1. PICK d \in Chats :
              /\ place[d] > 0 /\ since' = since \ {d}
              /\ place' = [e \in Chats |-> IF e = d THEN 0
                                          ELSE IF place[e] > place[d] THEN place[e] - 1 ELSE place[e]]
        BY <3>3 DEF ChatGoes
      <4>2. c # d /\ place[d] \in Nat
        BY <4>1 DEF TypeOK
      <4> QED  BY <3>1, <4>1, <4>2
    <3> QED  BY <1>15, <3>2, <3>3
  <2>3. moved' \subseteq {"on", "back"}
    BY <1>15 DEF ChatComes, ChatGoes, TypeOK
  <2>4. changes < MaxChanges /\ changes' = changes + 1 /\ changes \in 0 .. MaxChanges
    BY <1>15 DEF ChatComes, ChatGoes, TypeOK
  <2>5. changes' \in 0 .. MaxChanges
    BY <2>4, SizesAssumption
  <2>6. UNCHANGED <<listed, stored, pc, locals, handled, fired, cut, failures>>
    BY <1>15 DEF ChatComes, ChatGoes
  <2> QED  BY <2>1, <2>2, <2>3, <2>5, <2>6 DEF TypeOK
<1> SUFFICES ASSUME ~ChatComes, ~ChatGoes PROVE TypeOK' /\ Apart'
  BY <1>15
<1>16. UNCHANGED place
  BY DEF Next, Run, Tick, ListChanges, Wake, List, Split, Note, GotBot, Page, Deliver, PageDone, Record,
     Fail, vars
<1> SUFFICES TypeOK'
  BY <1>14, <1>16
<1>1. CASE Tick
  <2>1. begun' \in Nat
    BY <1>1 DEF Tick, TypeOK
  <2> QED  BY <1>1, <2>1, OlderTypes DEF Tick, TypeOK
<1>2. CASE ListChanges
  BY <1>2 DEF ListChanges, TypeOK
<1>3. CASE Wake
  BY <1>3 DEF Wake, TypeOK
<1>4. CASE List
  BY <1>4 DEF List, TypeOK
<1>5. CASE Split
  <2>1. /\ skipped' \in [Tasks -> Int]
        /\ \A t \in Tasks : skipped'[t] \in Age(t)
    BY <1>5, IntervalAssumption DEF Split, TypeOK
  <2> QED  BY <1>5, <2>1 DEF Split, TypeOK
<1>6. CASE Note
  BY <1>6, NotedTypes DEF Note, TypeOK
<1>7. CASE GotBot
  BY <1>7 DEF GotBot, TypeOK
<1>8. CASE Page
  <2>1. results' \in [Chats -> 0 .. Limit] /\ found' \in Nat
    BY <1>8, SizesAssumption DEF Page, TypeOK
  <2> QED  BY <1>8, <2>1 DEF Page, TypeOK
<1>9. CASE Deliver
  <2>1. turn \in todo /\ turn \in Tasks
    BY <1>9 DEF Deliver, TypeOK
  <2>2. handled' \in [Tasks -> [Chats -> Nat]]
    BY <1>9, <2>1 DEF Deliver, TypeOK
  <2>3. /\ fired' \in [Tasks -> Int]
        /\ \A t \in Tasks : fired'[t] \in Age(t)
    BY <1>9, <2>1, BegunTypes DEF Deliver, TypeOK
  <2>4. done' \in Nat /\ todo' \subseteq active /\ (todo' # {} => turn' \in todo')
    BY <1>9, <2>1, SizesAssumption DEF Deliver, TypeOK
  <2>5. /\ UNCHANGED <<service, stored, pc, skipped, active, begun, offset, results, found, shifts,
                       failures>>
        /\ cut' \subseteq Tasks
    BY <1>9, <2>1 DEF Deliver, TypeOK
  <2>6. \A t \in Tasks : {stored'[t], skipped'[t], fired'[t]} \subseteq Age(t)
    BY <2>3, <2>5 DEF TypeOK
  <2>7. /\ stored' \in [Tasks -> Int] /\ skipped' \in [Tasks -> Int]
        /\ begun' \in Nat /\ offset' \in Nat /\ failures' \in 0 .. MaxFailures
        /\ count' \in Nat /\ place' \in [Chats -> 0 .. count']
        /\ results' \in [Chats -> 0 .. Limit] /\ found' \in Nat
        /\ since' \subseteq {c \in Chats : place'[c] > 0} /\ moved' \subseteq {"on", "back"}
        /\ changes' \in 0 .. MaxChanges
    BY <2>5 DEF TypeOK
  <2> HIDE DEF None, Age
  <2> QED  BY <2>2, <2>3, <2>4, <2>5, <2>6, <2>7 DEF TypeOK
<1>10. CASE PageDone
  BY <1>10, SizesAssumption DEF PageDone, TypeOK, NoPage
<1>11. CASE Record
  BY <1>11, RecordedTypes DEF Record, TypeOK
<1>12. CASE Fail
  <2>1. stored' \in {stored, Noted, Recorded}
    BY <1>12 DEF Fail
  <2>2. stored' \in [Tasks -> Int] /\ \A t \in Tasks : stored'[t] \in Age(t)
    <3> HIDE DEF None, Age
    <3> QED  BY <2>1, NotedTypes, RecordedTypes DEF TypeOK
  <2>3. failures' \in 0 .. MaxFailures
    BY <1>12, SizesAssumption DEF Fail, TypeOK
  <2> QED  BY <1>12, <2>2, <2>3 DEF Fail, TypeOK
<1>13. CASE UNCHANGED vars
  BY <1>13 DEF vars, TypeOK
<1> QED
  BY <1>1, <1>2, <1>3, <1>4, <1>5, <1>6, <1>7, <1>8, <1>9, <1>10, <1>11, <1>12, <1>13
     DEF Next, Run

\* Dates stay dates, no two chats get the same place, a page has no more chats than its
\* size, the tasks of a page are active ones.
THEOREM TypeCorrect == Spec => [](TypeOK /\ Apart)
<1>1. (TypeOK /\ Apart) /\ [Next]_vars => (TypeOK /\ Apart)'
  BY TypeStep
<1> QED  BY <1>1, TypeInit, PTL DEF Spec

-----------------------------------------------------------------------------
(* Spacing.  No date that is kept, or that a run under way will write, is  *)
(* older than the run that last carried the task out: the clock ages both, *)
(* and a run dates what it does by its own beginning.                      *)

Current(t) == IF begun < Interval[t] THEN begun ELSE Interval[t]
NotOlder(date, t) == fired[t] # None /\ t \notin cut => date <= fired[t]

StoredFits == \A t \in Tasks : NotOlder(stored[t], t)

\* Of the run under way, once it has split its tasks.
Begun == pc \in {"note", "bot", "page", "deliver", "record"}
RunFits == Begun => \A t \in Tasks :
    /\ NotOlder(skipped[t], t)
    /\ t \in active => skipped[t] = None
    /\ fired[t] # None => Current(t) <= fired[t]

SpacedInv == TypeOK /\ Apart /\ StoredFits /\ RunFits

LEMMA OlderKeeps ==
    ASSUME NEW date \in [Tasks -> Int], NEW last \in [Tasks -> Int], NEW t \in Tasks,
           date[t] \in Age(t), last[t] \in Age(t), last[t] # None, date[t] <= last[t]
    PROVE  Older(date)[t] <= Older(last)[t]
BY IntervalAssumption DEF Older

LEMMA SpacedStep == SpacedInv /\ [Next]_vars => SpacedInv'
<1> SUFFICES ASSUME SpacedInv, [Next]_vars PROVE StoredFits' /\ RunFits'
  BY TypeStep DEF SpacedInv
<1> USE DEF Begun, NotOlder
<1>1. CASE Tick
  <2>1. ASSUME NEW t \in Tasks, fired'[t] # None PROVE fired[t] # None
    BY <1>1, <2>1 DEF Tick, Older, SpacedInv, TypeOK
  <2>2. StoredFits'
    <3>1. ASSUME NEW t \in Tasks, fired[t] # None, stored[t] <= fired[t]
          PROVE  stored'[t] <= fired'[t]
      BY <1>1, <3>1, OlderKeeps DEF Tick, SpacedInv, TypeOK
    <3> QED  BY <1>1, <2>1, <3>1 DEF Tick, SpacedInv, StoredFits
  <2>3. ASSUME NEW t \in Tasks, fired[t] # None, Current(t) <= fired[t]
        PROVE  Current(t)' <= fired'[t]
    <3>1. /\ fired[t] \in 0 .. Interval[t] /\ Interval[t] \in Nat \ {0} /\ begun \in Nat
          /\ fired'[t] = IF fired[t] = Interval[t] THEN fired[t] ELSE fired[t] + 1
      BY <1>1, <2>3, IntervalAssumption DEF Tick, Older, SpacedInv, TypeOK
    <3>2. CASE begun' = begun + 1
      BY <2>3, <3>1, <3>2 DEF Current
    <3>3. CASE begun' = begun /\ Interval[t] <= begun
      BY <2>3, <3>1, <3>3 DEF Current
    <3> QED  BY <1>1, <3>1, <3>2, <3>3, ClockEnds DEF Tick
  <2>4. ASSUME NEW t \in Tasks, fired[t] # None, skipped[t] <= fired[t]
        PROVE  skipped'[t] <= fired'[t]
    BY <1>1, <2>4, OlderKeeps DEF Tick, SpacedInv, TypeOK
  <2>5. \A t \in Tasks : skipped[t] = None => skipped'[t] = None
    BY <1>1 DEF Tick, Older
  <2>6. RunFits'
    BY <1>1, <2>1, <2>3, <2>4, <2>5 DEF Tick, SpacedInv, RunFits
  <2> QED  BY <2>2, <2>6
<1>2. CASE ListChanges \/ ChatComes \/ ChatGoes \/ Wake \/ List \/ UNCHANGED vars
  BY <1>2 DEF ListChanges, ChatComes, ChatGoes, Wake, List, vars, SpacedInv, StoredFits, RunFits, Current
<1>3. CASE Split
  <2>1. ASSUME NEW t \in Tasks
        PROVE  /\ skipped'[t] \in {None, 0, stored[t]}
               /\ t \in active' => skipped'[t] = None
    BY <1>3 DEF Split
  <2>2. \A t \in Tasks : Current(t)' = 0 /\ (fired[t] # None => 0 <= fired[t])
    BY <1>3, IntervalAssumption DEF Split, Current, SpacedInv, TypeOK
  <2> QED  BY <1>3, <2>1, <2>2 DEF Split, SpacedInv, TypeOK, StoredFits, RunFits
<1>4. CASE Note
  BY <1>4 DEF Note, Noted, SpacedInv, StoredFits, RunFits
<1>5. CASE GotBot \/ Page \/ PageDone
  BY <1>5 DEF GotBot, Page, PageDone, SpacedInv, StoredFits, RunFits, Current
<1>6. CASE Deliver
  <2>1. turn \in active /\ turn \in Tasks
    BY <1>6 DEF Deliver, SpacedInv, TypeOK
  <2>2. /\ fired' = [fired EXCEPT ![turn] = Current(turn)] /\ cut' = cut \cup {turn}
        /\ UNCHANGED <<stored, pc, skipped, active, begun>>
    BY <1>6 DEF Deliver, Current
  <2>3. \A t \in Tasks : t # turn => fired'[t] = fired[t]
    BY <2>2 DEF SpacedInv, TypeOK
  <2>4. fired'[turn] = Current(turn) /\ Current(turn) \in Int
    BY <2>1, <2>2, BegunTypes DEF SpacedInv, TypeOK, Current
  <2>5. Begun
    BY <1>6 DEF Deliver
  <2>6. StoredFits'
    BY <2>2, <2>3 DEF SpacedInv, StoredFits
  <2>7. RunFits'
    BY <2>1, <2>2, <2>3, <2>4, <2>5 DEF SpacedInv, RunFits, Current
  <2> QED  BY <2>6, <2>7
<1>7. CASE Record
  <2>1. ASSUME NEW t \in Tasks, fired'[t] # None, t \notin cut' PROVE stored'[t] <= fired'[t]
    BY <1>7, <2>1 DEF Record, Recorded, SpacedInv, RunFits, Current
  <2> QED  BY <1>7, <2>1 DEF Record, StoredFits, RunFits
<1>8. CASE Fail
  <2>1. ASSUME NEW t \in Tasks, fired[t] # None, t \notin cut PROVE stored'[t] <= fired[t]
    BY <1>8, <2>1 DEF Fail, Noted, Recorded, SpacedInv, StoredFits, RunFits, Current
  <2> QED  BY <1>8, <2>1 DEF Fail, StoredFits, RunFits
<1> QED  BY <1>1, <1>2, <1>3, <1>4, <1>5, <1>6, <1>7, <1>8 DEF Next, Run

\* What a run takes to be due has not been carried out for its whole interval.
LEMMA DueStep == SpacedInv /\ Spaced /\ [Next]_vars => Spaced'
<1> SUFFICES ASSUME SpacedInv, Spaced, [Next]_vars PROVE Spaced'
  OBVIOUS
<1>1. CASE Split
  <2>1. ASSUME NEW t \in active', fired[t] # None, t \notin cut PROVE fired[t] = Interval[t]
    <3>1. t \in Tasks /\ stored[t] = Interval[t] /\ fired[t] \in Age(t) /\ Interval[t] \in Nat
      BY <1>1, <2>1, IntervalAssumption DEF Split, Due, SpacedInv, TypeOK
    <3> QED  BY <2>1, <3>1 DEF SpacedInv, StoredFits, NotOlder
  <2> QED  BY <1>1, <2>1 DEF Split, Spaced
<1>2. CASE Tick
  BY <1>2 DEF Tick, Older, Spaced, SpacedInv, TypeOK
<1>3. CASE ListChanges \/ ChatComes \/ ChatGoes \/ UNCHANGED vars
  BY <1>3 DEF ListChanges, ChatComes, ChatGoes, vars, Spaced
<1>4. CASE Wake \/ List \/ Note \/ GotBot \/ Page \/ Deliver \/ PageDone \/ Record \/ Fail
  BY <1>4 DEF Wake, List, Note, GotBot, Page, Deliver, PageDone, Record, Fail, Spaced
<1> QED  BY <1>1, <1>2, <1>3, <1>4 DEF Next, Run

\* A task is not carried out before its interval has passed since the last run that
\* did so, unless that run was cut off before its record.
THEOREM SpacedCorrect == Spec => []Spaced
<1>1. Init => SpacedInv /\ Spaced
  BY TypeInit DEF Init, NoDates, SpacedInv, StoredFits, RunFits, Begun, NotOlder, Spaced
<1>2. SpacedInv /\ Spaced /\ [Next]_vars => (SpacedInv /\ Spaced)'
  BY SpacedStep, DueStep
<1> QED  BY <1>1, <1>2, PTL DEF Spec

-----------------------------------------------------------------------------
(* The chats once.  Where a chat lies now and how far its page is done for *)
(* a task tell whether the task has met it: as long as no chat was moved   *)
(* on, one that was met lies before what is still to come, and as long as  *)
(* none was moved back, one that was not met is still to come.             *)

\* How much of the page is done for a task that is not done with it.
Done(t) == IF t = turn THEN done ELSE 0

AtMostOnce(t, c) ==
    /\ pc = "page" => /\ handled[t][c] <= 1
                      /\ handled[t][c] = 1 => place[c] <= offset
    /\ pc = "deliver" =>
          /\ handled[t][c] <= 1
          /\ results[c] > 0 => place[c] <= offset + results[c]
          /\ handled[t][c] = 1 => /\ place[c] <= offset + Limit
                                  /\ t \in todo => results[c] <= Done(t)
    /\ pc = "record" => handled[t][c] <= 1

AtLeastOnce(t, c) ==
    /\ pc = "page" => handled[t][c] >= 1 \/ place[c] > offset
    /\ pc = "deliver" => \/ handled[t][c] >= 1
                         \/ t \in todo /\ results[c] > Done(t)
                         \/ place[c] > offset + Limit /\ found > offset + Limit
    /\ pc = "record" => handled[t][c] >= 1

Met == \A t \in Tasks, c \in Chats :
    /\ pc \in {"list", "read", "note", "bot"} => handled[t][c] = 0
    /\ pc \in {"page", "deliver", "record"} /\ t \notin active => handled[t][c] = 0

OnceEach == \A t \in active : \A c \in since :
    /\ "on" \notin moved => AtMostOnce(t, c)
    /\ "back" \notin moved => AtLeastOnce(t, c)

PageFits ==
    /\ pc = "bot" => offset = 0
    /\ pc = "deliver" => \A c \in Chats : results[c] > 0 => results[c] <= found - offset

ChatsInv == TypeOK /\ Apart /\ Met /\ OnceEach /\ PageFits

\* What the arithmetic below is about.
LEMMA Numbers ==
    ASSUME ChatsInv
    PROVE  /\ Limit \in Nat \ {0} /\ Batch \in Nat \ {0}
           /\ offset \in Nat /\ done \in Nat /\ found \in Nat /\ count \in Nat
           /\ active \subseteq Tasks /\ todo \subseteq active /\ since \subseteq Chats
           /\ handled \in [Tasks -> [Chats -> Nat]]
           /\ \A c \in Chats : place[c] \in Nat /\ place[c] <= count
                               /\ results[c] \in Nat /\ results[c] <= Limit
           /\ \A c \in since : place[c] > 0
BY SizesAssumption DEF ChatsInv, TypeOK

\* A chat that comes moves others on, one that goes moves others back.
LEMMA ChatsMove ==
    ASSUME ChatsInv, ChatComes \/ ChatGoes
    PROVE  OnceEach'
<1>1. UNCHANGED <<pc, active, offset, results, found, todo, turn, done, handled>>
  BY DEF ChatComes, ChatGoes
<1> SUFFICES ASSUME NEW t \in active, NEW c \in since', c \in since
             PROVE  /\ "on" \notin moved' => AtMostOnce(t, c)'
                    /\ "back" \notin moved' => AtLeastOnce(t, c)'
  BY <1>1 DEF OnceEach, ChatComes, ChatGoes
<1>2. /\ "on" \notin moved => AtMostOnce(t, c)
      /\ "back" \notin moved => AtLeastOnce(t, c)
  BY DEF ChatsInv, OnceEach
<1>3. c \in Chats /\ place[c] \in Nat /\ place[c] > 0 /\ place[c] <= count /\ count \in Nat
  BY Numbers
<1>4. CASE pc \notin {"page", "deliver"}
  BY <1>1, <1>2, <1>4 DEF AtMostOnce, AtLeastOnce, ChatComes, ChatGoes, Moving
<1>5. CASE pc \in {"page", "deliver"} /\ ChatComes
  <2>1. PICK d \in Chats, k \in 1 .. count + 1 :
          /\ place[d] = 0
          /\ place' = [e \in Chats |-> IF e = d THEN k ELSE IF place[e] >= k THEN place[e] + 1 ELSE place[e]]
          /\ moved' = IF Moving /\ k <= count THEN moved \cup {"on"} ELSE moved
    BY <1>5 DEF ChatComes
  <2>2. c # d /\ place'[c] = IF place[c] >= k THEN place[c] + 1 ELSE place[c]
    BY <1>3, <2>1
  <2>3. /\ "on" \notin moved' => "on" \notin moved /\ place'[c] = place[c]
        /\ "back" \notin moved' => "back" \notin moved
        /\ place'[c] \in Nat /\ place'[c] >= place[c]
    BY <1>3, <1>5, <2>1, <2>2 DEF Moving
  <2>4. "on" \notin moved' => AtMostOnce(t, c)'
    BY <1>1, <1>2, <2>3 DEF AtMostOnce, Done
  <2>5. "back" \notin moved' => AtLeastOnce(t, c)'
    <3>1. offset \in Nat /\ Limit \in Nat
      BY Numbers
    <3> QED  BY <1>1, <1>2, <1>3, <2>3, <3>1 DEF AtLeastOnce, Done
  <2> QED  BY <2>4, <2>5
<1>6. CASE pc \in {"page", "deliver"} /\ ChatGoes
  <2>1. PICK d \in Chats :
          /\ place[d] > 0 /\ since' = since \ {d}
          /\ place' = [e \in Chats |-> IF e = d THEN 0 ELSE IF place[e] > place[d] THEN place[e] - 1 ELSE place[e]]
          /\ moved' = IF Moving /\ place[d] < count THEN moved \cup {"back"} ELSE moved
    BY <1>6 DEF ChatGoes
  <2>2. /\ c # d /\ place[d] \in Nat /\ place[d] <= count
        /\ place'[c] = IF place[c] > place[d] THEN place[c] - 1 ELSE place[c]
    BY <1>3, <2>1, Numbers
  <2>3. /\ "back" \notin moved' => "back" \notin moved /\ place'[c] = place[c]
        /\ "on" \notin moved' => "on" \notin moved
        /\ place'[c] \in Nat /\ place'[c] <= place[c]
    BY <1>3, <1>6, <2>1, <2>2 DEF Moving
  <2>4. "back" \notin moved' => AtLeastOnce(t, c)'
    BY <1>1, <1>2, <2>3 DEF AtLeastOnce, Done
  <2>5. "on" \notin moved' => AtMostOnce(t, c)'
    <3>1. offset \in Nat /\ Limit \in Nat /\ results[c] \in Nat
      BY <1>3, Numbers
    <3> QED  BY <1>1, <1>2, <1>3, <2>3, <3>1 DEF AtMostOnce, Done
  <2> QED  BY <2>4, <2>5
<1> QED  BY <1>4, <1>5, <1>6

\* A batch meets those of its page that it has, and only those.
LEMMA BatchMeets ==
    ASSUME ChatsInv, Deliver
    PROVE  Met' /\ OnceEach' /\ PageFits'
<1>1. /\ turn \in todo /\ turn \in active /\ turn \in Tasks
      /\ pc = "deliver" /\ pc' = "deliver"
      /\ UNCHANGED <<active, place, offset, results, found, since, moved>>
  BY DEF Deliver, ChatsInv, TypeOK
<1>2. /\ \A t \in Tasks : t # turn => handled'[t] = handled[t]
      /\ \A c \in Chats : handled'[turn][c] =
            handled[turn][c] + IF results[c] \in done + 1 .. done + Batch THEN 1 ELSE 0
  BY <1>1, Numbers DEF Deliver
<1>3. PageFits'
  BY <1>1 DEF ChatsInv, PageFits
<1>4. Met'
  BY <1>1, <1>2 DEF ChatsInv, Met
<1>5. \/ /\ done + Batch >= Least(Limit, found - offset)
         /\ todo' = todo \ {turn} /\ done' = 0
         /\ turn' \in IF todo' = {} THEN {turn} ELSE todo'
      \/ /\ ~(done + Batch >= Least(Limit, found - offset))
         /\ todo' = todo /\ turn' = turn /\ done' = done + Batch
  BY DEF Deliver
<1>6. ASSUME NEW t \in active, NEW c \in since
      PROVE  /\ "on" \notin moved => AtMostOnce(t, c)'
             /\ "back" \notin moved => AtLeastOnce(t, c)'
  <2>1. /\ "on" \notin moved => AtMostOnce(t, c)
        /\ "back" \notin moved => AtLeastOnce(t, c)
        /\ t \in Tasks /\ c \in Chats
    BY Numbers DEF ChatsInv, OnceEach
  <2>2. CASE t # turn
    <3>1. handled'[t][c] = handled[t][c] /\ (t \in todo' <=> t \in todo)
      BY <1>2, <1>5, <2>1, <2>2
    <3>2. t \in todo => Done(t)' = Done(t)
      BY <1>5, <2>2 DEF Done
    <3> QED  BY <1>1, <2>1, <3>1, <3>2 DEF AtMostOnce, AtLeastOnce
  <2>3. CASE t = turn
    <3> DEFINE h == handled[turn][c]
    <3>1. /\ h \in Nat /\ offset \in Nat /\ done \in Nat /\ found \in Nat /\ Limit \in Nat
          /\ Batch \in Nat /\ place[c] \in Nat /\ results[c] \in Nat /\ results[c] <= Limit
          /\ results[c] > 0 => results[c] <= found - offset
      BY <1>1, <2>1, Numbers DEF ChatsInv, PageFits
    <3>2. /\ handled'[t][c] = h + (IF done < results[c] /\ results[c] <= done + Batch THEN 1 ELSE 0)
          /\ Done(t) = done
      BY <1>2, <2>1, <2>3, <3>1 DEF Done
    <3> HIDE DEF h
    <3>3. "on" \notin moved => AtMostOnce(t, c)'
      <4> SUFFICES ASSUME "on" \notin moved PROVE AtMostOnce(t, c)'
        OBVIOUS
      <4>1. /\ h <= 1 /\ (results[c] > 0 => place[c] <= offset + results[c])
            /\ h = 1 => place[c] <= offset + Limit /\ results[c] <= done
        BY <1>1, <2>1, <2>3, <3>2 DEF AtMostOnce, h
      <4>2. /\ handled'[t][c] <= 1
            /\ handled'[t][c] = 1 => place[c] <= offset + Limit /\ results[c] <= done + Batch
        BY <3>1, <3>2, <4>1
      <4>3. t \in todo' => Done(t)' = done + Batch
        BY <1>5, <2>3 DEF Done
      <4> QED  BY <1>1, <4>1, <4>2, <4>3 DEF AtMostOnce
    <3>4. "back" \notin moved => AtLeastOnce(t, c)'
      <4> SUFFICES ASSUME "back" \notin moved PROVE AtLeastOnce(t, c)'
        OBVIOUS
      <4>1. \/ h >= 1 \/ results[c] > done
            \/ place[c] > offset + Limit /\ found > offset + Limit
        BY <1>1, <2>1, <2>3, <3>2 DEF AtLeastOnce, h
      <4>2. \/ handled'[t][c] >= 1 \/ results[c] > done + Batch
            \/ place[c] > offset + Limit /\ found > offset + Limit
        BY <3>1, <3>2, <4>1
      <4>3. ASSUME results[c] > done + Batch PROVE t \in todo' /\ Done(t)' = done + Batch
        <5>1. results[c] <= Least(Limit, found - offset)
          BY <3>1, <4>3 DEF Least
        <5>2. ~(done + Batch >= Least(Limit, found - offset))
          BY <3>1, <4>3, <5>1 DEF Least
        <5> QED  BY <1>1, <1>5, <2>3, <5>2 DEF Done
      <4> QED  BY <1>1, <4>2, <4>3 DEF AtLeastOnce
    <3> QED  BY <3>3, <3>4
  <2> QED  BY <2>2, <2>3
<1>7. OnceEach'
  BY <1>1, <1>6 DEF OnceEach
<1> QED  BY <1>3, <1>4, <1>7

LEMMA ChatsStep == ChatsInv /\ [Next]_vars => ChatsInv'
<1> SUFFICES ASSUME ChatsInv, [Next]_vars PROVE Met' /\ OnceEach' /\ PageFits'
  BY TypeStep DEF ChatsInv
<1>0. Met /\ OnceEach /\ PageFits
  BY DEF ChatsInv
<1>1. CASE Tick \/ ListChanges \/ UNCHANGED vars
  BY <1>0, <1>1 DEF Tick, ListChanges, vars, Met, OnceEach, AtMostOnce, AtLeastOnce, Done, PageFits
<1>2. CASE ChatComes \/ ChatGoes
  <2>1. OnceEach'
    BY <1>2, ChatsMove
  <2> QED  BY <1>0, <1>2, <2>1 DEF ChatComes, ChatGoes, Met, PageFits
<1>3. CASE Wake
  BY <1>0, <1>3 DEF Wake, Met, OnceEach, AtMostOnce, AtLeastOnce, PageFits
<1>4. CASE List \/ Split \/ Note \/ Fail
  BY <1>0, <1>4 DEF List, Split, Note, Fail, Met, OnceEach, AtMostOnce, AtLeastOnce, PageFits
<1>5. CASE GotBot
  <2>1. \A t \in Tasks, c \in Chats : handled'[t][c] = 0
    BY <1>0, <1>5 DEF GotBot, Met
  <2>2. pc' = "page" /\ offset' = 0 /\ active' \subseteq Tasks /\ since' \subseteq Chats
        /\ \A c \in since' : place'[c] > 0
    BY <1>0, <1>5, Numbers DEF GotBot, PageFits
  <2> QED  BY <2>1, <2>2 DEF Met, OnceEach, AtMostOnce, AtLeastOnce, PageFits
<1>6. CASE Page
  <2>0. /\ pc = "page" /\ UNCHANGED <<active, place, offset, handled, since, moved>>
    BY <1>6 DEF Page
  <2>1. CASE count <= offset
    <3>1. pc' = "record"
      BY <1>6, <2>1 DEF Page
    <3>2. \A c \in since : ~(place[c] > offset)
      BY <2>1, Numbers
    <3> QED  BY <1>0, <2>0, <3>1, <3>2 DEF Met, OnceEach, AtMostOnce, AtLeastOnce, PageFits
  <2>2. CASE ~(count <= offset)
    <3>1. /\ pc' = "deliver" /\ found' = count /\ todo' = active /\ done' = 0
          /\ \A c \in Chats : results'[c] = IF place[c] \in offset + 1 .. offset + Limit
                                            THEN place[c] - offset ELSE 0
      BY <1>6, <2>2 DEF Page
    <3>2. PageFits'
      BY <2>0, <3>1, Numbers DEF PageFits
    <3>3. Met'
      BY <1>0, <2>0, <3>1 DEF Met
    <3>4. ASSUME NEW t \in active, NEW c \in since
          PROVE  /\ "on" \notin moved => AtMostOnce(t, c)'
                 /\ "back" \notin moved => AtLeastOnce(t, c)'
      <4>1. /\ "on" \notin moved => handled[t][c] <= 1 /\ (handled[t][c] = 1 => place[c] <= offset)
            /\ "back" \notin moved => handled[t][c] >= 1 \/ place[c] > offset
        BY <1>0, <2>0 DEF OnceEach, AtMostOnce, AtLeastOnce
      <4>2. /\ handled[t][c] \in Nat /\ place[c] \in Nat /\ place[c] <= count /\ offset \in Nat
            /\ Limit \in Nat /\ count \in Nat
        BY Numbers
      <4>3. Done(t)' = 0
        BY <3>1 DEF Done
      <4>4. results'[c] = IF offset < place[c] /\ place[c] <= offset + Limit THEN place[c] - offset ELSE 0
        BY <3>1, <4>2, Numbers
      <4> QED  BY <2>0, <3>1, <4>1, <4>2, <4>3, <4>4 DEF AtMostOnce, AtLeastOnce
    <3> QED  BY <2>0, <3>2, <3>3, <3>4 DEF OnceEach
  <2> QED  BY <2>1, <2>2
<1>7. CASE Deliver
  BY <1>7, BatchMeets
<1>8. CASE PageDone
  <2>1. /\ pc = "deliver" /\ todo = {} /\ offset' = offset + Limit
        /\ pc' = IF found - (offset + Limit) <= 0 THEN "record" ELSE "page"
        /\ UNCHANGED <<active, place, handled, since, moved>>
    BY <1>8 DEF PageDone
  <2>2. ASSUME NEW t \in active, NEW c \in since
        PROVE  /\ "on" \notin moved => AtMostOnce(t, c)'
               /\ "back" \notin moved => AtLeastOnce(t, c)'
    <3>1. /\ "on" \notin moved => handled[t][c] <= 1 /\ (handled[t][c] = 1 => place[c] <= offset + Limit)
          /\ "back" \notin moved => \/ handled[t][c] >= 1
                                    \/ place[c] > offset + Limit /\ found > offset + Limit
      BY <1>0, <2>1 DEF OnceEach, AtMostOnce, AtLeastOnce
    <3>2. found \in Nat /\ offset \in Nat /\ Limit \in Nat
      BY Numbers
    <3>3. pc' = "record" => ~(found > offset + Limit)
      BY <2>1, <3>2
    <3>4. pc' \in {"record", "page"}
      BY <2>1
    <3> QED  BY <2>1, <3>1, <3>3, <3>4 DEF AtMostOnce, AtLeastOnce
  <2>3. Met' /\ PageFits'
    BY <1>0, <2>1 DEF Met, PageFits
  <2> QED  BY <2>1, <2>2, <2>3 DEF OnceEach
<1>9. CASE Record
  BY <1>0, <1>9 DEF Record, Met, OnceEach, AtMostOnce, AtLeastOnce, PageFits
<1> QED  BY <1>1, <1>2, <1>3, <1>4, <1>5, <1>6, <1>7, <1>8, <1>9 DEF Next, Run

\* However chats come and go, a run that gets to its record has handled no chat for other
\* tasks than those it records as done, and for these each chat that was there all the time at
\* least once, unless chats in front of others went, and at most once, unless chats came there.
THEOREM ChatsOnceCorrect == Spec => []ChatsOnce
<1>1. Init => ChatsInv
  BY TypeInit DEF Init, ChatsInv, Met, OnceEach, AtMostOnce, AtLeastOnce, PageFits
<1>2. ChatsInv => ChatsOnce
  <2> SUFFICES ASSUME ChatsInv, pc = "record", NEW t \in Tasks
               PROVE  IF t \notin active THEN \A c \in Chats : handled[t][c] = 0
                      ELSE \A c \in since : /\ "back" \notin moved => handled[t][c] >= 1
                                            /\ "on" \notin moved => handled[t][c] <= 1
    BY DEF ChatsOnce
  <2> QED  BY DEF ChatsInv, Met, OnceEach, AtMostOnce, AtLeastOnce
<1> QED  BY <1>1, <1>2, ChatsStep, PTL DEF Spec
=============================================================================
