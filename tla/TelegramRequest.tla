--------------------------- MODULE TelegramRequest ---------------------------
(***************************************************************************)
(* The requests of one bot to Telegram (TelegramClient in                  *)
(* src/telegram/client.py): each passes the limiter of its chat, then that *)
(* of the bot, is posted, and is repeated as long as Telegram asks for it. *)
(* A limiter is aiolimiter's leaky bucket: a request adds its cost, time   *)
(* drains it, and a request waits while it does not fit.                   *)
(***************************************************************************)
EXTENDS Integers, FiniteSets

CONSTANTS
    Requests,
    Chat,         \* request -> the chat_id of its data, or NoChat
    NoChat,
    Global,       \* the limiter of the bot; the others are those of chats
    Bucket,       \* limiter -> cost of a request, capacity, and drain per tick
    MaxTicks,     \* bound: ticks of the clock
    MaxRetries    \* bound: answers with retry_after

Limiters == DOMAIN Bucket
ASSUME BucketAssumption ==
    /\ Global \in Limiters
    /\ Chat \in [Requests -> (Limiters \ {Global}) \cup {NoChat}] /\ NoChat \notin Limiters
    /\ \A l \in Limiters : /\ Bucket[l] \in [cost : Nat \ {0}, capacity : Nat, drain : Nat \ {0}]
                           /\ Bucket[l].cost <= Bucket[l].capacity
ASSUME RequestsAssumption == IsFiniteSet(Requests)
ASSUME BoundsAssumption == MaxTicks \in Nat /\ MaxRetries \in Nat

VARIABLES
    pc,           \* request -> where it stands
    level,        \* limiter -> what is in the bucket
    now,          \* ticks so far
    until,        \* request -> the tick until which it sleeps
    retries,      \* answers with retry_after so far
    carriedOut,   \* history: request -> times Telegram carried it out
    poured        \* history: limiter -> tick -> cost of its requests posted until then

vars == <<pc, level, now, until, retries, carriedOut, poured>>

Ticks == 0 .. MaxTicks

\* A bucket never holds more than its capacity.
TypeOK ==
    /\ pc \in [Requests -> {"unmade", "new", "chat", "posted", "asleep", "returned", "raised"}]
    /\ level \in [Limiters -> Nat] /\ \A l \in Limiters : level[l] <= Bucket[l].capacity
    /\ now \in Ticks /\ until \in [Requests -> Ticks] /\ retries \in 0 .. MaxRetries
    /\ carriedOut \in [Requests -> Nat]
    /\ poured \in [Limiters -> [Ticks -> Nat]]

Init ==
    /\ pc = [r \in Requests |-> "unmade"]
    /\ level = [l \in Limiters |-> 0]
    /\ now = 0
    /\ until = [r \in Requests |-> 0]
    /\ retries = 0
    /\ carriedOut = [r \in Requests |-> 0]
    /\ poured = [l \in Limiters |-> [tick \in Ticks |-> 0]]

Fits(l) == level[l] + Bucket[l].cost <= Bucket[l].capacity

\* Mutant: every request has a limiter of its own.
AcquireAfresh(l) == level' = level

Acquire(l) == Fits(l) /\ level' = [level EXCEPT ![l] = @ + Bucket[l].cost]

\* A request is posted that falls under these limiters.
Pour(limiters) ==
    poured' = [l \in Limiters |-> [tick \in Ticks |->
                  poured[l][tick] + (IF l \in limiters /\ tick >= now THEN Bucket[l].cost ELSE 0)]]

Goto(r, where) == pc' = [pc EXCEPT ![r] = where]

Make(r) ==
    /\ pc[r] = "unmade"
    /\ Goto(r, "new")
    /\ UNCHANGED <<level, now, until, retries, carriedOut, poured>>

AcquireChat(r) ==
    /\ pc[r] = "new" /\ Chat[r] # NoChat
    /\ Acquire(Chat[r])
    /\ Goto(r, "chat")
    /\ UNCHANGED <<now, until, retries, carriedOut, poured>>

\* The limiter of the bot lets the request through, and it is posted.
Post(r) ==
    /\ pc[r] = "chat" \/ (pc[r] = "new" /\ Chat[r] = NoChat)
    /\ Acquire(Global)
    /\ Goto(r, "posted")
    /\ Pour({Global, Chat[r]})
    /\ UNCHANGED <<now, until, retries, carriedOut>>

\* Telegram carries the request out and its answer has a result.
Return(r) ==
    /\ pc[r] = "posted"
    /\ Goto(r, "returned")
    /\ carriedOut' = [carriedOut EXCEPT ![r] = @ + 1]
    /\ UNCHANGED <<level, now, until, retries, poured>>

\* Mutant: a request without an answer is made again.
RaiseRetry(r) ==
    /\ pc[r] = "posted"
    /\ \E done \in {0, 1} : carriedOut' = [carriedOut EXCEPT ![r] = @ + done]
    /\ retries < MaxRetries /\ retries' = retries + 1
    /\ Goto(r, "new")
    /\ UNCHANGED <<level, now, until, poured>>

\* An error of any kind, the answer lost on its way, or one without a result: raised,
\* whether the request was carried out or not.
Raise(r) ==
    /\ pc[r] = "posted"
    /\ \E done \in {0, 1} : carriedOut' = [carriedOut EXCEPT ![r] = @ + done]
    /\ Goto(r, "raised")
    /\ UNCHANGED <<level, now, until, retries, poured>>

\* Telegram refuses the request and says how long to wait.
RetryAfter(r) ==
    /\ pc[r] = "posted" /\ retries < MaxRetries
    /\ retries' = retries + 1
    /\ \E t \in now + 1 .. MaxTicks : until' = [until EXCEPT ![r] = t]
    /\ Goto(r, "asleep")
    /\ UNCHANGED <<level, now, carriedOut, poured>>

\* Mutant: a request that is repeated does not pass the limiters again.
WakePast(r) ==
    /\ pc[r] = "asleep" /\ now >= until[r]
    /\ Goto(r, "posted")
    /\ Pour({Global, Chat[r]})
    /\ UNCHANGED <<level, now, until, retries, carriedOut>>

\* _request calls itself, and passes the limiters again.
Wake(r) ==
    /\ pc[r] = "asleep" /\ now >= until[r]
    /\ Goto(r, "new")
    /\ UNCHANGED <<level, now, until, retries, carriedOut, poured>>

Drained(l) == IF level[l] >= Bucket[l].drain THEN level[l] - Bucket[l].drain ELSE 0

Queues(r, l) == \/ pc[r] = "new" /\ l = (IF Chat[r] = NoChat THEN Global ELSE Chat[r])
                \/ pc[r] = "chat" /\ l = Global

\* A limiter lets a request through as soon as it fits: time does not pass before.
Tick ==
    /\ now < MaxTicks /\ now' = now + 1
    /\ \A r \in Requests : \A l \in Limiters : ~(Queues(r, l) /\ Fits(l))
    /\ level' = [l \in Limiters |-> Drained(l)]
    /\ UNCHANGED <<pc, until, retries, carriedOut, poured>>

Next ==
    \/ \E r \in Requests : \/ Make(r) \/ AcquireChat(r) \/ Post(r) \/ Return(r)
                           \/ Raise(r) \/ RetryAfter(r) \/ Wake(r)
    \/ Tick

Spec == Init /\ [][Next]_vars

-----------------------------------------------------------------------------

Before(l, tick) == IF tick = 0 THEN 0 ELSE poured[l][tick - 1]
Within(l, from, to) ==
    poured[l][to] - Before(l, from) <= Bucket[l].capacity + Bucket[l].drain * (to - from)

\* The bot keeps to its rate in every stretch of time, repeated requests included.
GlobalRate == \A to \in Ticks : \A from \in 0 .. to : Within(Global, from, to)

\* Each chat gets no more requests than its limiter let through since the bot was started.
ChatTotal == \A l \in Limiters : \A to \in Ticks : Within(l, 0, to)

\* A request is carried out at most once, and once if it returns, however often it is
\* repeated and whichever answers are lost.
CarriedOutOnce == \A r \in Requests :
    carriedOut[r] <= 1 /\ (pc[r] = "returned" => carriedOut[r] = 1)
=============================================================================
