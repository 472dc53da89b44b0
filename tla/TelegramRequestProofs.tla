------------------------ MODULE TelegramRequestProofs ------------------------
(***************************************************************************)
(* The rates of TelegramRequest, for any number of requests, limiters and  *)
(* ticks.                                                                  *)
(***************************************************************************)
EXTENDS TelegramRequest, FiniteSetTheorems, TLAPS

\* A request is within reach of Telegram only once before it is answered for good.
Unanswered == {"unmade", "new", "chat", "asleep"}
OnceInv == \A r \in Requests :
    /\ pc[r] \in Unanswered \cup {"posted"} => carriedOut[r] = 0
    /\ pc[r] = "returned" => carriedOut[r] = 1
    /\ carriedOut[r] <= 1

\* Nothing is posted in ticks to come.
Flat == \A l \in Limiters : \A tick \in Ticks : tick >= now => poured[l][tick] = poured[l][now]

\* What the bucket of the bot holds, and what it has lost since a tick, is what was posted.
GlobalFlow == \A from \in 0 .. now :
    poured[Global][now] - Before(Global, from) <= level[Global] + Bucket[Global].drain * (now - from)

\* The requests that passed the limiter of a chat and wait for that of the bot.
Between(l) == {r \in Requests : pc[r] = "chat" /\ Chat[r] = l}
ChatFlow == \A l \in Limiters \ {Global} :
    poured[l][now] + Bucket[l].cost * Cardinality(Between(l)) <= level[l] + Bucket[l].drain * now

IInv == TypeOK /\ OnceInv /\ Flat /\ GlobalFlow /\ ChatFlow

USE BucketAssumption, BoundsAssumption

\* A product grows with its factor, and by the other factor with each one.
LEMMA ProductGrows == ASSUME NEW d \in Nat, NEW a \in Int, NEW b \in Int, a <= b PROVE d * a <= d * b
<1>1. PICK c \in Nat : b = a + c
  <2>1. b - a \in Nat /\ b = a + (b - a)
    OBVIOUS
  <2> QED  BY <2>1
<1>2. d * b = d * a + d * c
  BY <1>1
<1>3. d * c \in Nat
  OBVIOUS
<1> QED  BY <1>2, <1>3

LEMMA ProductNext == ASSUME NEW d \in Nat, NEW a \in Int PROVE d * (a + 1) = d * a + d
  OBVIOUS

LEMMA InvInit == Init => IInv
<1> SUFFICES ASSUME Init PROVE IInv
  OBVIOUS
<1>1. TypeOK
  BY DEF Init, TypeOK, Ticks
<1>2. OnceInv /\ Flat
  BY DEF Init, OnceInv, Flat, Unanswered, Ticks
<1>3. GlobalFlow
  BY DEF Init, GlobalFlow, Before, Ticks
<1>4. ChatFlow
  <2> SUFFICES ASSUME NEW l \in Limiters \ {Global}
               PROVE poured[l][now] + Bucket[l].cost * Cardinality(Between(l)) <= level[l] + Bucket[l].drain * now
    BY DEF ChatFlow
  <2>1. Between(l) = {}
    BY DEF Init, Between
  <2> QED  BY <2>1, FS_EmptySet DEF Init, Ticks
<1> QED  BY <1>1, <1>2, <1>3, <1>4 DEF IInv

-----------------------------------------------------------------------------

\* What is let through keeps the bucket within its capacity.
LEMMA AcquireType ==
    ASSUME TypeOK, NEW l \in Limiters, Acquire(l)
    PROVE  level' \in [Limiters -> Nat] /\ \A m \in Limiters : level'[m] <= Bucket[m].capacity
<1>1. level[l] + Bucket[l].cost \in Nat
  BY DEF TypeOK
<1> QED  BY <1>1 DEF Acquire, Fits, TypeOK

LEMMA PourType ==
    ASSUME TypeOK, NEW limiters, Pour(limiters) PROVE poured' \in [Limiters -> [Ticks -> Nat]]
<1>1. ASSUME NEW l \in Limiters, NEW tick \in Ticks
      PROVE  poured[l][tick] + (IF l \in limiters /\ tick >= now THEN Bucket[l].cost ELSE 0) \in Nat
  <2>1. poured[l][tick] \in Nat /\ Bucket[l].cost \in Nat
    BY DEF TypeOK
  <2> QED  BY <2>1
<1> QED  BY <1>1 DEF Pour

LEMMA TypeStep == TypeOK /\ OnceInv /\ [Next]_vars => TypeOK'
<1> SUFFICES ASSUME TypeOK, OnceInv, [Next]_vars PROVE TypeOK'
  OBVIOUS
<1> USE DEF TypeOK, Ticks, Goto
<1>1. ASSUME NEW r \in Requests, Make(r) PROVE TypeOK'
  BY <1>1 DEF Make
<1>2. ASSUME NEW r \in Requests, AcquireChat(r) PROVE TypeOK'
  <2>1. Chat[r] \in Limiters
    BY <1>2 DEF AcquireChat
  <2> QED  BY <1>2, <2>1, AcquireType DEF AcquireChat
<1>3. ASSUME NEW r \in Requests, Post(r) PROVE TypeOK'
  <2>1. Acquire(Global) /\ Pour({Global, Chat[r]})
    BY <1>3 DEF Post
  <2> QED  BY <1>3, <2>1, AcquireType, PourType DEF Post
<1>4. ASSUME NEW r \in Requests, Return(r) \/ Raise(r) PROVE TypeOK'
  <2>1. PICK done \in {0, 1} : carriedOut' = [carriedOut EXCEPT ![r] = @ + done]
    BY <1>4 DEF Return, Raise
  <2>2. carriedOut[r] + done \in Nat
    OBVIOUS
  <2> QED  BY <1>4, <2>1, <2>2 DEF Return, Raise
<1>5. ASSUME NEW r \in Requests, RetryAfter(r) PROVE TypeOK'
  BY <1>5 DEF RetryAfter
<1>6. ASSUME NEW r \in Requests, Wake(r) PROVE TypeOK'
  BY <1>6 DEF Wake
<1>7. ASSUME Tick PROVE TypeOK'
  <2>1. \A l \in Limiters : Drained(l) \in Nat /\ Drained(l) <= level[l]
    BY DEF Drained
  <2> QED  BY <1>7, <2>1 DEF Tick
<1>8. CASE UNCHANGED vars
  BY <1>8 DEF vars
<1> QED  BY <1>1, <1>2, <1>3, <1>4, <1>5, <1>6, <1>7, <1>8 DEF Next

LEMMA OnceStep == TypeOK /\ OnceInv /\ [Next]_vars => OnceInv'
<1> SUFFICES ASSUME TypeOK, OnceInv, [Next]_vars PROVE OnceInv'
  OBVIOUS
<1> USE DEF TypeOK, OnceInv, Unanswered, Goto
<1>1. ASSUME NEW r \in Requests, Make(r) \/ AcquireChat(r) \/ Post(r) PROVE OnceInv'
  BY <1>1 DEF Make, AcquireChat, Post
<1>2. ASSUME NEW r \in Requests, Return(r) \/ Raise(r) PROVE OnceInv'
  <2>1. carriedOut[r] = 0
    BY <1>2 DEF Return, Raise
  <2>2. PICK done \in {0, 1} : /\ carriedOut' = [carriedOut EXCEPT ![r] = done]
                               /\ done = 1 \/ pc' = [pc EXCEPT ![r] = "raised"]
                               /\ pc'[r] \in {"returned", "raised"}
    BY <1>2, <2>1 DEF Return, Raise
  <2> QED  BY <1>2, <2>1, <2>2 DEF Return, Raise
<1>3. ASSUME NEW r \in Requests, RetryAfter(r) \/ Wake(r) PROVE OnceInv'
  BY <1>3 DEF RetryAfter, Wake
<1>4. CASE Tick \/ UNCHANGED vars
  BY <1>4 DEF Tick, vars
<1> QED  BY <1>1, <1>2, <1>3, <1>4 DEF Next

\* What a step may do to the histories and the buckets: nothing, one post, or a tick.
LEMMA Steps ==
    ASSUME TypeOK, [Next]_vars
    PROVE  \/ /\ poured' = poured /\ now' = now
              /\ \/ level' = level
                 \/ \E r \in Requests : AcquireChat(r)
           \/ \E r \in Requests : Post(r)
           \/ Tick
<1>1. ASSUME NEW r \in Requests, Make(r) \/ Return(r) \/ Raise(r) \/ RetryAfter(r) \/ Wake(r)
      PROVE poured' = poured /\ now' = now /\ level' = level
  BY <1>1 DEF Make, Return, Raise, RetryAfter, Wake
<1>2. ASSUME NEW r \in Requests, AcquireChat(r) PROVE poured' = poured /\ now' = now
  BY <1>2 DEF AcquireChat
<1> QED  BY <1>1, <1>2 DEF Next, vars

LEMMA FlatStep == TypeOK /\ Flat /\ [Next]_vars => Flat'
<1> SUFFICES ASSUME TypeOK, Flat, [Next]_vars PROVE Flat'
  OBVIOUS
<1>1. CASE poured' = poured /\ now' = now
  BY <1>1 DEF Flat
<1>2. ASSUME NEW r \in Requests, Post(r) PROVE Flat'
  BY <1>2 DEF Flat, Post, Pour, TypeOK, Ticks
<1>3. CASE Tick
  <2>1. now' = now + 1 /\ now \in Ticks /\ now' \in Ticks /\ poured' = poured
    BY <1>3 DEF Tick, TypeOK, Ticks
  <2>2. ASSUME NEW l \in Limiters, NEW tick \in Ticks, tick >= now + 1
        PROVE  poured[l][tick] = poured[l][now + 1]
    BY <2>1, <2>2 DEF Flat, Ticks
  <2> QED  BY <2>1, <2>2 DEF Flat
<1> QED  BY <1>1, <1>2, <1>3, Steps

LEMMA GlobalFlowStep == TypeOK /\ Flat /\ GlobalFlow /\ [Next]_vars => GlobalFlow'
<1> SUFFICES ASSUME TypeOK, Flat, GlobalFlow, [Next]_vars PROVE GlobalFlow'
  OBVIOUS
<1>1. CASE poured' = poured /\ now' = now /\ level' = level
  BY <1>1 DEF GlobalFlow, Before
<1>2. ASSUME NEW r \in Requests, AcquireChat(r) PROVE GlobalFlow'
  <2>1. Chat[r] # Global /\ Chat[r] \in Limiters
    BY <1>2 DEF AcquireChat
  <2>2. poured' = poured /\ now' = now /\ level'[Global] = level[Global]
    BY <1>2, <2>1 DEF AcquireChat, Acquire, TypeOK
  <2> QED  BY <2>2 DEF GlobalFlow, Before
<1>3. ASSUME NEW r \in Requests, Post(r) PROVE GlobalFlow'
  <2>1. /\ now' = now /\ level'[Global] = level[Global] + Bucket[Global].cost
        /\ poured'[Global][now] = poured[Global][now] + Bucket[Global].cost
        /\ \A tick \in Ticks : tick < now => poured'[Global][tick] = poured[Global][tick]
    BY <1>3 DEF Post, Acquire, Pour, TypeOK, Ticks
  <2> SUFFICES ASSUME NEW from \in 0 .. now
               PROVE poured'[Global][now] - Before(Global, from)' <= level'[Global] + Bucket[Global].drain * (now - from)
    BY <2>1 DEF GlobalFlow
  <2>2. Before(Global, from)' = Before(Global, from) /\ Before(Global, from) \in Nat
    BY <2>1 DEF Before, TypeOK, Ticks
  <2>3. Bucket[Global].drain * (now - from) \in Nat
    BY DEF TypeOK, Ticks
  <2>4. poured[Global][now] - Before(Global, from) <= level[Global] + Bucket[Global].drain * (now - from)
    BY DEF GlobalFlow
  <2>5. poured[Global][now] \in Nat /\ level[Global] \in Nat /\ Bucket[Global].cost \in Nat
    BY DEF TypeOK
  <2> QED  BY <2>1, <2>2, <2>3, <2>4, <2>5
<1>4. CASE Tick
  <2>1. /\ now' = now + 1 /\ now' \in Ticks /\ poured' = poured
        /\ level'[Global] \in Nat /\ level[Global] <= level'[Global] + Bucket[Global].drain
        /\ poured[Global][now + 1] = poured[Global][now]
    BY <1>4 DEF Tick, Drained, TypeOK, Ticks, Flat
  <2>5. \A from : Before(Global, from)' = Before(Global, from)
    BY <2>1 DEF Before
  <2>6. poured'[Global][now'] = poured[Global][now + 1] /\ now' = now + 1
    BY <2>1
  <2> SUFFICES \A from \in 0 .. now + 1 :
                   poured[Global][now + 1] - Before(Global, from)
                        <= level'[Global] + Bucket[Global].drain * (now + 1 - from)
    <3>1. ASSUME NEW from \in 0 .. now'
          PROVE  poured'[Global][now'] - Before(Global, from)'
                        <= level'[Global] + Bucket[Global].drain * (now' - from)
      <4>1. from \in 0 .. now + 1
        BY <2>6
      <4>2. poured[Global][now + 1] - Before(Global, from)
                        <= level'[Global] + Bucket[Global].drain * (now + 1 - from)
        BY <4>1
      <4>3. Bucket[Global].drain * (now' - from) = Bucket[Global].drain * (now + 1 - from)
        <5>1. now' = now + 1 /\ now \in Int /\ Bucket[Global].drain \in Int
          BY <2>6 DEF TypeOK, Ticks
        <5>2. now' - from = now + 1 - from
          BY <5>1
        <5> QED  BY <5>2, Zenon
      <4>4. Before(Global, from)' = Before(Global, from)
        BY <2>5
      <4> QED  BY <4>2, <4>3, <4>4, <2>6, Zenon
    <3> QED  BY <3>1 DEF GlobalFlow
  <2> TAKE from \in 0 .. now + 1
  <2>2. now \in Nat /\ poured[Global][now] \in Nat /\ level[Global] \in Nat /\ Bucket[Global].drain \in Nat
    BY DEF TypeOK, Ticks
  <2>3. CASE from = now + 1
    <3>1. Before(Global, from) = poured[Global][now]
      BY <2>2, <2>3 DEF Before
    <3>2. Bucket[Global].drain * (now + 1 - from) = 0
      BY <2>2, <2>3
    <3> QED  BY <3>1, <3>2, <2>1, <2>2
  <2>4. CASE from \in 0 .. now
    <3>1. Bucket[Global].drain * ((now - from) + 1) = Bucket[Global].drain * (now - from) + Bucket[Global].drain
      BY <2>2, ProductNext
    <3>2. now + 1 - from = (now - from) + 1
      BY <2>2
    <3>3. poured[Global][now] - Before(Global, from) <= level[Global] + Bucket[Global].drain * (now - from)
      BY <2>4 DEF GlobalFlow
    <3>4. Before(Global, from) \in Nat
      BY <2>4 DEF Before, TypeOK, Ticks
    <3>5. Bucket[Global].drain * (now - from) \in Nat
      BY <2>2, <2>4
    <3> QED  BY <3>1, <3>2, <3>3, <3>4, <3>5, <2>1, <2>2
  <2> QED  BY <2>1, <2>2, <2>3, <2>4
<1> QED  BY <1>1, <1>2, <1>3, <1>4, Steps

LEMMA ChatFlowStep == TypeOK /\ Flat /\ ChatFlow /\ [Next]_vars => ChatFlow'
<1> SUFFICES ASSUME TypeOK, Flat, ChatFlow, [Next]_vars, NEW l \in Limiters \ {Global}
             PROVE poured'[l][now'] + Bucket[l].cost * Cardinality(Between(l)')
                      <= level'[l] + Bucket[l].drain * now'
  BY DEF ChatFlow
<1> DEFINE n == Cardinality(Between(l))
<1>1. /\ now \in Nat /\ poured[l][now] \in Nat /\ level[l] \in Nat
      /\ Bucket[l].cost \in Nat /\ Bucket[l].drain \in Nat
  BY DEF TypeOK, Ticks
<1>2. IsFiniteSet(Between(l)) /\ n \in Nat
  BY RequestsAssumption, FS_Subset, FS_CardinalityType DEF Between
<1>3. poured[l][now] + Bucket[l].cost * n <= level[l] + Bucket[l].drain * now
  BY DEF ChatFlow
<1>4. /\ Bucket[l].cost * n \in Nat /\ Bucket[l].drain * now \in Nat
      /\ Bucket[l].cost * (n + 1) = Bucket[l].cost * n + Bucket[l].cost
      /\ Bucket[l].drain * (now + 1) = Bucket[l].drain * now + Bucket[l].drain
  BY <1>1, <1>2
<1> HIDE DEF n
<1>5. ASSUME UNCHANGED <<poured, now, level>>, Between(l)' = Between(l)
      PROVE poured'[l][now'] + Bucket[l].cost * Cardinality(Between(l)')
                      <= level'[l] + Bucket[l].drain * now'
  BY <1>5, <1>3 DEF n
<1>6. ASSUME NEW r \in Requests, Make(r) \/ Return(r) \/ Raise(r) \/ RetryAfter(r) \/ Wake(r)
      PROVE poured'[l][now'] + Bucket[l].cost * Cardinality(Between(l)')
                      <= level'[l] + Bucket[l].drain * now'
  <2>1. Between(l)' = Between(l)
    <3>1. pc[r] # "chat" /\ pc'[r] # "chat"
      BY <1>6 DEF TypeOK, Make, Return, Raise, RetryAfter, Wake, Goto
    <3>2. \A other \in Requests \ {r} : pc'[other] = pc[other]
      BY <1>6 DEF TypeOK, Make, Return, Raise, RetryAfter, Wake, Goto
    <3> QED  BY <3>1, <3>2 DEF Between
  <2>2. UNCHANGED <<poured, now, level>>
    BY <1>6 DEF Make, Return, Raise, RetryAfter, Wake
  <2> QED  BY <1>5, <2>1, <2>2
<1>7. ASSUME NEW r \in Requests, AcquireChat(r)
      PROVE poured'[l][now'] + Bucket[l].cost * Cardinality(Between(l)')
                      <= level'[l] + Bucket[l].drain * now'
  <2>1. /\ UNCHANGED <<poured, now>> /\ r \notin Between(l) /\ Chat[r] \in Limiters
        /\ level'[l] = level[l] + (IF Chat[r] = l THEN Bucket[l].cost ELSE 0)
    BY <1>7 DEF AcquireChat, Acquire, TypeOK, Between
  <2>2. CASE Chat[r] = l
    <3>1. Between(l)' = Between(l) \cup {r}
      BY <1>7, <2>2 DEF AcquireChat, Goto, TypeOK, Between
    <3>2. Cardinality(Between(l)') = n + 1
      BY <1>2, <2>1, <3>1, FS_AddElement DEF n
    <3> QED  BY <1>1, <1>2, <1>3, <1>4, <2>1, <2>2, <3>2
  <2>3. CASE Chat[r] # l
    <3>1. Between(l)' = Between(l)
      BY <1>7, <2>3 DEF AcquireChat, Goto, TypeOK, Between
    <3> QED  BY <1>1, <1>3, <2>1, <2>3, <3>1 DEF n
  <2> QED  BY <2>2, <2>3
<1>8. ASSUME NEW r \in Requests, Post(r)
      PROVE poured'[l][now'] + Bucket[l].cost * Cardinality(Between(l)')
                      <= level'[l] + Bucket[l].drain * now'
  <2>1. /\ now' = now /\ level'[l] = level[l]
        /\ poured'[l][now] = poured[l][now] + (IF Chat[r] = l THEN Bucket[l].cost ELSE 0)
    <3>1. now' = now /\ Acquire(Global) /\ Pour({Global, Chat[r]}) /\ now \in Ticks /\ now >= now
      BY <1>8 DEF Post, TypeOK, Ticks
    <3>2. level'[l] = level[l]
      BY <3>1 DEF Acquire, TypeOK
    <3>3. poured'[l][now] = poured[l][now] + (IF l \in {Global, Chat[r]} THEN Bucket[l].cost ELSE 0)
      BY <3>1 DEF Pour
    <3> QED  BY <3>1, <3>2, <3>3
  <2>2. CASE Chat[r] = l
    <3>1. r \in Between(l) /\ Between(l)' = Between(l) \ {r}
      BY <1>8, <2>2 DEF Post, Goto, TypeOK, Between
    <3>2. Cardinality(Between(l)') = n - 1
      BY <1>2, <3>1, FS_RemoveElement DEF n
    <3>3. Bucket[l].cost * (n - 1) = Bucket[l].cost * n - Bucket[l].cost
      BY <1>1, <1>2
    <3> QED  BY <1>1, <1>2, <1>3, <1>4, <2>1, <2>2, <3>2, <3>3
  <2>3. CASE Chat[r] # l
    <3>1. Between(l)' = Between(l)
      BY <1>8, <2>3 DEF Post, Goto, TypeOK, Between
    <3> QED  BY <1>1, <1>3, <2>1, <2>3, <3>1 DEF n
  <2> QED  BY <2>2, <2>3
<1>9. CASE Tick
  <2>1. /\ now' = now + 1 /\ poured' = poured /\ poured[l][now + 1] = poured[l][now]
        /\ level'[l] \in Nat /\ level[l] <= level'[l] + Bucket[l].drain
    <3>1. now' = now + 1 /\ now + 1 \in Ticks /\ now \in Ticks /\ poured' = poured /\ level'[l] = Drained(l)
      BY <1>9 DEF Tick, TypeOK, Ticks
    <3>2. poured[l][now + 1] = poured[l][now]
      BY <1>1, <3>1 DEF Flat
    <3>3. Drained(l) \in Nat /\ level[l] <= Drained(l) + Bucket[l].drain
      BY <1>1 DEF Drained
    <3> QED  BY <3>1, <3>2, <3>3
  <2>2. Between(l)' = Between(l)
    BY <1>9 DEF Tick, Between
  <2>3. poured[l][now + 1] + Bucket[l].cost * n <= level'[l] + Bucket[l].drain * (now + 1)
    BY <1>1, <1>3, <1>4, <2>1
  <2> QED  BY <2>1, <2>2, <2>3 DEF n
<1>10. CASE UNCHANGED vars
  BY <1>5, <1>10 DEF vars, Between
<1> QED  BY <1>6, <1>7, <1>8, <1>9, <1>10 DEF Next

LEMMA InvStep == IInv /\ [Next]_vars => IInv'
BY TypeStep, OnceStep, FlatStep, GlobalFlowStep, ChatFlowStep DEF IInv

LEMMA Invariant == Spec => []IInv
BY InvInit, InvStep, PTL DEF Spec

-----------------------------------------------------------------------------

\* No bucket holds more than its capacity, and time, retries and answers are counted.
THEOREM TypeCorrect == Spec => []TypeOK
BY Invariant, PTL DEF IInv

\* Whatever Telegram answers, and whichever answers are lost, _request never has a request
\* carried out twice.
THEOREM CarriedOutOnceHolds == Spec => []CarriedOutOnce
<1>1. IInv => CarriedOutOnce
  BY DEF IInv, OnceInv, CarriedOutOnce
<1> QED  BY Invariant, <1>1, PTL

(* The rates: what was posted until a tick that is over stays as it is, and *)
(* from now on nothing is posted beyond what the buckets hold and lost.     *)

GlobalNow == \A to \in Ticks : \A from \in 0 .. to : to >= now => Within(Global, from, to)
ChatNow == \A l \in Limiters \ {Global} : \A to \in Ticks : to >= now => Within(l, 0, to)

LEMMA GlobalNowHolds == IInv => GlobalNow
<1> SUFFICES ASSUME IInv, NEW to \in Ticks, NEW from \in 0 .. to, to >= now
             PROVE  Within(Global, from, to)
  BY DEF GlobalNow
<1> DEFINE drain == Bucket[Global].drain
<1>1. /\ now \in Nat /\ to \in Nat /\ from \in Nat /\ drain \in Nat /\ Bucket[Global].capacity \in Nat
      /\ level[Global] \in Nat /\ level[Global] <= Bucket[Global].capacity
      /\ poured[Global][now] \in Nat /\ poured[Global][to] = poured[Global][now]
  BY DEF IInv, TypeOK, Ticks, Flat
<1> HIDE DEF drain
<1>2. CASE from <= now
  <2>1. poured[Global][now] - Before(Global, from) <= level[Global] + drain * (now - from)
    BY <1>1, <1>2 DEF IInv, GlobalFlow, drain
  <2>2. drain * (now - from) <= drain * (to - from)
    BY <1>1, <1>2, ProductGrows
  <2>3. drain * (now - from) \in Int /\ drain * (to - from) \in Int
    BY <1>1
  <2>4. Before(Global, from) \in Nat
    BY <1>1, <1>2 DEF Before, IInv, TypeOK, Ticks
  <2>5. poured[Global][to] - Before(Global, from) <= Bucket[Global].capacity + drain * (to - from)
    BY <1>1, <2>1, <2>2, <2>3, <2>4
  <2> QED  BY <2>5 DEF Within, drain
<1>3. CASE from > now
  <2>1. from - 1 \in Ticks /\ from - 1 >= now /\ from # 0
    BY <1>1, <1>3 DEF Ticks
  <2>2. Before(Global, from) = poured[Global][now]
    BY <2>1 DEF Before, IInv, Flat
  <2>3. drain * (to - from) \in Nat
    <3>1. to - from \in Nat
      BY <1>1
    <3> QED  BY <1>1, <3>1
  <2>4. poured[Global][to] - Before(Global, from) <= Bucket[Global].capacity + drain * (to - from)
    BY <1>1, <2>2, <2>3
  <2> QED  BY <2>4 DEF Within, drain
<1> QED  BY <1>1, <1>2, <1>3

LEMMA ChatNowHolds == IInv => ChatNow
<1> SUFFICES ASSUME IInv, NEW l \in Limiters \ {Global}, NEW to \in Ticks, to >= now
             PROVE  Within(l, 0, to)
  BY DEF ChatNow
<1> DEFINE drain == Bucket[l].drain
           between == Bucket[l].cost * Cardinality(Between(l))
<1>1. /\ now \in Nat /\ to \in Nat /\ drain \in Nat /\ Bucket[l].capacity \in Nat
      /\ level[l] \in Nat /\ level[l] <= Bucket[l].capacity
      /\ poured[l][now] \in Nat /\ poured[l][to] = poured[l][now]
  BY DEF IInv, TypeOK, Ticks, Flat
<1>2. between \in Nat
  <2>1. Cardinality(Between(l)) \in Nat /\ Bucket[l].cost \in Nat
    BY RequestsAssumption, FS_Subset, FS_CardinalityType DEF Between
  <2> QED  BY <2>1
<1>3. poured[l][now] + between <= level[l] + drain * now
  BY DEF IInv, ChatFlow
<1> HIDE DEF drain, between
<1>4. drain * now <= drain * to /\ drain * now \in Int /\ drain * to \in Int
  BY <1>1, ProductGrows
<1>5. poured[l][to] <= Bucket[l].capacity + drain * to
  BY <1>1, <1>2, <1>3, <1>4
<1>6. Before(l, 0) = 0 /\ to - 0 = to /\ poured[l][to] - 0 = poured[l][to]
  BY <1>1 DEF Before
<1> QED  BY <1>5, <1>6, Zenon DEF Within, drain

\* Only a post changes the history, and only from now on.
LEMMA PastKept ==
    ASSUME TypeOK, [Next]_vars
    PROVE  \/ poured' = poured
           \/ /\ now' = now
              /\ \A l \in Limiters : \A tick \in Ticks : tick < now => poured'[l][tick] = poured[l][tick]
<1>1. ASSUME NEW r \in Requests, Post(r)
      PROVE  /\ now' = now
             /\ \A l \in Limiters : \A tick \in Ticks : tick < now => poured'[l][tick] = poured[l][tick]
  <2>1. now' = now /\ Pour({Global, Chat[r]}) /\ now \in Int /\ poured \in [Limiters -> [Ticks -> Nat]]
    BY <1>1 DEF Post, TypeOK, Ticks
  <2> QED  BY <2>1 DEF Pour, Ticks
<1>2. CASE Tick
  BY <1>2 DEF Tick
<1> QED  BY <1>1, <1>2, Steps

LEMMA GlobalRateStep == IInv /\ GlobalRate /\ [Next]_vars => GlobalRate'
<1> SUFFICES ASSUME IInv, GlobalRate, [Next]_vars PROVE GlobalRate'
  OBVIOUS
<1>1. CASE poured' = poured
  BY <1>1 DEF GlobalRate, Within, Before
<1>2. CASE /\ now' = now
           /\ \A l \in Limiters : \A tick \in Ticks : tick < now => poured'[l][tick] = poured[l][tick]
  <2>1. IInv'
    BY InvStep
  <2>2. GlobalNow'
    BY <2>1, GlobalNowHolds, PTL
  <2> SUFFICES ASSUME NEW to \in Ticks, NEW from \in 0 .. to PROVE Within(Global, from, to)'
    BY DEF GlobalRate
  <2>3. CASE to >= now
    BY <1>2, <2>2, <2>3 DEF GlobalNow
  <2>4. CASE ~(to >= now)
    <3>1. now \in Nat /\ to < now
      BY <2>4 DEF IInv, TypeOK, Ticks
    <3>2. poured'[Global][to] = poured[Global][to]
      BY <1>2, <3>1
    <3>3. Before(Global, from)' = Before(Global, from)
      <4>1. from # 0 => from - 1 \in Ticks /\ from - 1 < now
        BY <3>1 DEF Ticks
      <4> QED  BY <1>2, <4>1 DEF Before
    <3> QED  BY <3>2, <3>3 DEF GlobalRate, Within
  <2> QED  BY <2>3, <2>4
<1> QED  BY <1>1, <1>2, PastKept DEF IInv

LEMMA ChatTotalStep == IInv /\ GlobalRate /\ ChatTotal /\ [Next]_vars => ChatTotal'
<1> SUFFICES ASSUME IInv, GlobalRate, ChatTotal, [Next]_vars PROVE ChatTotal'
  OBVIOUS
<1>1. CASE poured' = poured
  BY <1>1 DEF ChatTotal, Within, Before
<1>2. CASE /\ now' = now
           /\ \A l \in Limiters : \A tick \in Ticks : tick < now => poured'[l][tick] = poured[l][tick]
  <2>1. IInv'
    BY InvStep
  <2>2. ChatNow' /\ GlobalRate'
    BY <2>1, ChatNowHolds, GlobalRateStep, PTL
  <2> SUFFICES ASSUME NEW l \in Limiters, NEW to \in Ticks PROVE Within(l, 0, to)'
    BY DEF ChatTotal
  <2>3. CASE l = Global
    BY <2>2, <2>3 DEF GlobalRate, Ticks
  <2>4. CASE l # Global /\ to >= now
    BY <1>2, <2>2, <2>4 DEF ChatNow
  <2>5. CASE ~(to >= now)
    <3>1. to < now
      BY <2>5 DEF IInv, TypeOK, Ticks
    <3>2. poured'[l][to] = poured[l][to]
      BY <1>2, <3>1
    <3> QED  BY <3>2 DEF ChatTotal, Within, Before
  <2> QED  BY <2>3, <2>4, <2>5
<1> QED  BY <1>1, <1>2, PastKept DEF IInv

LEMMA RatesInit == Init => GlobalRate /\ ChatTotal
<1> SUFFICES ASSUME Init PROVE GlobalRate /\ ChatTotal
  OBVIOUS
<1>1. IInv /\ now = 0
  BY InvInit DEF Init
<1>2. GlobalNow /\ ChatNow
  BY <1>1, GlobalNowHolds, ChatNowHolds
<1>3. \A to \in Ticks : to >= 0 /\ 0 \in 0 .. to
  BY DEF Ticks
<1> QED  BY <1>1, <1>2, <1>3 DEF GlobalNow, ChatNow, GlobalRate, ChatTotal

\* In any stretch of time the bot posts no more than its limiter holds and loses, however
\* many requests there are and however often Telegram has them repeated.
THEOREM GlobalRateHolds == Spec => []GlobalRate
BY RatesInit, GlobalRateStep, Invariant, PTL DEF Spec

\* A chat gets no more requests than its limiter let through since the start.
THEOREM ChatTotalHolds == Spec => []ChatTotal
BY RatesInit, GlobalRateStep, ChatTotalStep, Invariant, PTL DEF Spec
=============================================================================
