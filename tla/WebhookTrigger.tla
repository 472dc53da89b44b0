--------------------------- MODULE WebhookTrigger ---------------------------
(***************************************************************************)
(* Delivery of a webhook trigger (Bot.feed_webhook_trigger in              *)
(* src/bot/bot.py): to every chat of the bot, page by page, or, when the   *)
(* trigger waits somewhere in a flow (`targeted'), to those who subscribed *)
(* by reaching it (src/bot/handlers/trigger.py).  Subscribers live in the  *)
(* storage of the bot; a transaction on it is atomic here, as              *)
(* StorageTransaction shows it to be while leases hold.  What is done for  *)
(* one subject (the connections of the trigger) is one step; its exception *)
(* is returned by gather and goes no further.                              *)
(***************************************************************************)
EXTENDS Integers, Sequences, FiniteSets, SequencesExt, Filters

CONSTANTS
    Subjects,     \* chats (with the user that subscribed there, if any)
    Initially,    \* the chats of the bot, each once, as the service pages them
    Runs,         \* calls of feed_webhook_trigger for one trigger; bound on their number
    Limit,        \* page size (250 in the code)
    Batch,        \* handled concurrently (15 in the code)
    Debug,        \* MODE is DEBUG
    MaxGrants,    \* bound: times one subject subscribes
    MaxChanges    \* bound: changes to the chats of the bot

ASSUME SizesAssumption == {Limit, Batch} \subseteq Nat \ {0}
ASSUME OrderAssumption == Initially \in Seq(Subjects) /\ IsInjective(Initially)
ASSUME SubjectsAssumption == IsFiniteSet(Subjects) /\ IsFiniteSet(Runs)
ASSUME BoundsAssumption == {MaxGrants, MaxChanges} \subseteq Nat

VARIABLES
    chats,        \* main service: the chats of the bot
    allowed,      \* main service: those the bot may talk to
    changes,      \* history: changes to the chats so far
    subs,         \* storage: subscribers in expected_triggers[trigger.id]
    targeted,     \* run -> trigger_has_target_connections
    run,          \* run -> its local variables
    reached,      \* history: run -> subject -> times it was handled
    granted,      \* history: subject -> times it subscribed
    dropped       \* history: subject -> subscriptions that ended unhandled

service == <<chats, allowed, changes>>
vars == <<service, subs, targeted, run, reached, granted, dropped>>

Locals == [
    pc : {"idle", "bot", "page", "lookup", "deliver", "ended", "raised"},
    offset : Nat,
    taken : SUBSET Subjects,        \* removed from the storage, not yet looked up
    todo : Seq(SUBSET Subjects),    \* batches of this page that are to be handled
    unequal : BOOLEAN,              \* the strict zip will raise after these batches
    last : BOOLEAN,                 \* is_pagination_complete
    handled : BOOLEAN]              \* some batch was handled: `results' is bound

TypeOK ==
    /\ chats \in Seq(Subjects) /\ allowed \subseteq Subjects /\ changes \in 0 .. MaxChanges
    /\ subs \subseteq Subjects
    /\ targeted \in [Runs -> BOOLEAN]
    /\ run \in [Runs -> Locals]
    /\ reached \in [Runs -> [Subjects -> Nat]]
    /\ {granted, dropped} \subseteq [Subjects -> Nat]

Init ==
    /\ chats = Initially /\ allowed \in SUBSET Subjects /\ changes = 0
    /\ subs = {}
    /\ targeted \in [Runs -> BOOLEAN]
    /\ run = [r \in Runs |-> [pc |-> "idle", offset |-> 0, taken |-> {}, todo |-> <<>>,
                              unequal |-> FALSE, last |-> FALSE, handled |-> FALSE]]
    /\ reached = [r \in Runs |-> [s \in Subjects |-> 0]]
    /\ granted = [s \in Subjects |-> 0]
    /\ dropped = [s \in Subjects |-> 0]

Least(a, b) == IF a <= b THEN a ELSE b
Count(counts, S) == [s \in Subjects |-> counts[s] + IF s \in S THEN 1 ELSE 0]

\* The number of subscriptions of s that a run has taken and not yet settled.
Held(r, s) ==
    Cardinality({k \in DOMAIN run[r].todo : s \in run[r].todo[k]})
        + IF s \in run[r].taken THEN 1 ELSE 0

-----------------------------------------------------------------------------
(* The surroundings: the service and the flows that reach the trigger.      *)

\* TriggerHandler adds to a set: who waits already is not added again.
Subscribe(s) ==
    /\ granted[s] < MaxGrants
    /\ subs' = subs \cup {s}
    /\ granted' = IF s \in subs THEN granted ELSE Count(granted, {s})
    /\ UNCHANGED <<service, targeted, run, reached, dropped>>

ChatsChange ==
    /\ changes < MaxChanges
    /\ changes' = changes + 1
    /\ \/ \E k \in DOMAIN chats : chats' = RemoveAt(chats, k)
       \/ \E s \in Subjects \ ToSet(chats) : chats' = <<s>> \o chats
    /\ UNCHANGED <<allowed, subs, targeted, run, reached, granted, dropped>>

-----------------------------------------------------------------------------
(* A run.                                                                   *)

\* The trigger has connections (else the call returns at once); get_bot is asked.
Start(r) ==
    /\ run[r].pc = "idle"
    /\ run' = [run EXCEPT ![r].pc = "bot"]
    /\ UNCHANGED <<service, subs, targeted, reached, granted, dropped>>

GotBot(r) ==
    /\ run[r].pc = "bot"
    /\ run' = [run EXCEPT ![r].pc = "page"]
    /\ UNCHANGED <<service, subs, targeted, reached, granted, dropped>>

\* Mutant: batched() that loses an incomplete last batch.
FullChunks(s) == [k \in 1 .. (Len(s) \div Batch) |->
    ToSet(SubSeq(s, (k - 1) * Batch + 1, k * Batch))]

Chunks(s) == [k \in 1 .. ((Len(s) + Batch - 1) \div Batch) |->
    ToSet(SubSeq(s, (k - 1) * Batch + 1, Least(k * Batch, Len(s))))]

\* Those whom is_subject_allowed lets through, in their order.
Allowed(s) == Kept(s, allowed)

\* A page of all chats.  The chats are filtered, the `None's that are zipped with
\* them are not: when a chat was filtered out, only the batches that are full up to
\* there pass the strict zips.
Page(r) ==
    LET results == SubSeq(chats, run[r].offset + 1, Least(run[r].offset + Limit, Len(chats)))
        kept == Allowed(results)
        equal == Len(kept) = Len(results)
    IN
    /\ run[r].pc = "page" /\ ~targeted[r]
    /\ run' = [run EXCEPT ![r].pc = "deliver",
                          ![r].todo = IF equal THEN Chunks(kept)
                                      ELSE SubSeq(Chunks(kept), 1, Len(kept) \div Batch),
                          ![r].unequal = ~equal,
                          ![r].last = Len(chats) - (run[r].offset + Limit) <= 0]
    /\ UNCHANGED <<service, subs, targeted, reached, granted, dropped>>

\* Mutant: the subscribers are read, and deleted only later.
Peek(r) ==
    /\ run[r].pc = "page" /\ targeted[r] /\ subs # {}
    /\ \E some \in SUBSET subs :
        /\ Cardinality(some) = Least(Limit, Cardinality(subs))
        /\ run' = [run EXCEPT ![r].pc = "lookup", ![r].taken = some]
    /\ UNCHANGED <<service, subs, targeted, reached, granted, dropped>>

\* Up to Limit subscribers are removed from the storage, in one transaction; the
\* order of a set is arbitrary.
Take(r) ==
    /\ run[r].pc = "page" /\ targeted[r] /\ subs # {}
    /\ \E some \in SUBSET subs :
        /\ Cardinality(some) = Least(Limit, Cardinality(subs))
        /\ subs' = subs \ some
        /\ run' = [run EXCEPT ![r].pc = "lookup", ![r].taken = some]
    /\ UNCHANGED <<service, targeted, reached, granted, dropped>>

\* NoTriggerSubscribersError ends the loop.
TakeNone(r) ==
    /\ run[r].pc = "page" /\ targeted[r] /\ subs = {}
    /\ run' = [run EXCEPT ![r].pc = "ended"]
    /\ UNCHANGED <<service, subs, targeted, reached, granted, dropped>>

\* The transaction raises: its write may have been made all the same.
TakeFails(r) ==
    /\ run[r].pc = "page" /\ targeted[r]
    /\ run' = [run EXCEPT ![r].pc = "raised"]
    /\ \E some \in SUBSET subs :
        /\ Cardinality(some) \in {0, Least(Limit, Cardinality(subs))}
        /\ subs' = subs \ some
        /\ dropped' = Count(dropped, some)
    /\ UNCHANGED <<service, targeted, reached, granted>>

\* Mutant: the loop goes on while there are subscribers.
LookupWhileAny(r) ==
    LET known == run[r].taken \cap ToSet(chats)
        beyond == Cardinality(known) - run[r].offset
    IN
    /\ run[r].pc = "lookup"
    /\ \E page \in SUBSET known :
        /\ Cardinality(page) = Least(Limit, IF beyond > 0 THEN beyond ELSE 0)
        /\ run' = [run EXCEPT ![r].pc = "deliver", ![r].taken = {},
                              ![r].todo = Chunks(SetToSeq(page \cap allowed)),
                              ![r].last = subs = {}]
        /\ dropped' = Count(dropped, run[r].taken \ (page \cap allowed))
    /\ UNCHANGED <<service, subs, targeted, reached, granted>>

\* The taken are looked up by their ids, but with the offset of the loop; who is
\* unknown to the service or not allowed is passed over.
Lookup(r) ==
    LET known == run[r].taken \cap ToSet(chats)
        beyond == Cardinality(known) - run[r].offset
    IN
    /\ run[r].pc = "lookup"
    /\ \E page \in SUBSET known :
        /\ Cardinality(page) = Least(Limit, IF beyond > 0 THEN beyond ELSE 0)
        /\ run' = [run EXCEPT ![r].pc = "deliver", ![r].taken = {},
                              ![r].todo = Chunks(SetToSeq(page \cap allowed)),
                              ![r].unequal = FALSE,
                              ![r].last = beyond - Limit <= 0]
        /\ dropped' = Count(dropped, run[r].taken \ (page \cap allowed))
    /\ UNCHANGED <<service, subs, targeted, reached, granted>>

Deliver(r) ==
    /\ run[r].pc = "deliver" /\ run[r].todo # <<>>
    /\ reached' = [reached EXCEPT ![r] = Count(@, Head(run[r].todo))]
    /\ run' = [run EXCEPT ![r].todo = Tail(@), ![r].handled = TRUE]
    /\ UNCHANGED <<service, subs, targeted, granted, dropped>>

\* Mutant: the offset goes back.
PageBack(r) ==
    /\ run[r].pc = "deliver" /\ run[r].todo = <<>>
    /\ run' = [run EXCEPT ![r].pc = IF run[r].last THEN "ended" ELSE "page",
                          ![r].offset = @ - Limit]
    /\ UNCHANGED <<service, subs, targeted, reached, granted, dropped>>

\* After the last batch: the zip raises, or the debug log reads `results' that no
\* batch has bound, or the loop ends, or it goes on to the next page.
PageDone(r) ==
    LET place == IF run[r].unequal \/ (Debug /\ ~run[r].handled) THEN "raised"
                 ELSE IF run[r].last THEN "ended" ELSE "page"
    IN
    /\ run[r].pc = "deliver" /\ run[r].todo = <<>>
    /\ run' = [run EXCEPT ![r].pc = place,
                          ![r].offset = IF place = "page" THEN @ + Limit ELSE @]
    /\ UNCHANGED <<service, subs, targeted, reached, granted, dropped>>

\* A call of the service raises, or the process dies in one of these places: what
\* was taken is in no storage any more.
Fail(r) ==
    /\ run[r].pc \in {"bot", "page", "lookup", "deliver"}
    /\ run' = [run EXCEPT ![r].pc = "raised", ![r].taken = {}, ![r].todo = <<>>]
    /\ dropped' = IF targeted[r] THEN [s \in Subjects |-> dropped[s] + Held(r, s)] ELSE dropped
    /\ UNCHANGED <<service, subs, targeted, reached, granted>>

RunStep(r) == GotBot(r) \/ Page(r) \/ Take(r) \/ TakeNone(r) \/ Lookup(r) \/ Deliver(r) \/ PageDone(r)

Next ==
    \/ \E s \in Subjects : Subscribe(s)
    \/ ChatsChange
    \/ \E r \in Runs : Start(r) \/ RunStep(r) \/ TakeFails(r) \/ Fail(r)

Spec == Init /\ [][Next]_vars

-----------------------------------------------------------------------------

\* No subscription is served twice or forgotten: each is still waiting, held by one
\* run, was handled by one targeted run, or was dropped on a failure or because its
\* chat is unknown or not allowed; runs that overlap do not share one.
Conservation == \A s \in Subjects :
    granted[s] = (IF s \in subs THEN 1 ELSE 0) + dropped[s]
        + SumFunctionOnSet([r \in Runs |-> Held(r, s) + reached[r][s]], {r \in Runs : targeted[r]})

\* A run for all chats that ends without an exception has handled each allowed chat
\* exactly once and no other, if the chats did not change under the pagination.
AllChatsOnce == \A r \in Runs :
    ~targeted[r] /\ run[r].pc = "ended" /\ changes = 0 =>
        \A s \in Subjects : reached[r][s] = IF s \in ToSet(chats) \cap allowed THEN 1 ELSE 0

\* Those whom a targeted run handles are exactly those it took who are known to the
\* service and allowed: the offset of the loop, which is also applied to the lookup of the taken,
\* skips none of them (there is never a second page).
NoneSkipped == [][\A r \in Runs :
    run[r].pc = "lookup" /\ run'[r].pc = "deliver" =>
        run[r].taken \cap ToSet(chats) \cap allowed = UNION ToSet(run'[r].todo)]_vars

\* src/bot/bot.py:296 and 304 zip chats with users with strict=True: the two are
\* asserted to have the same length.
ZipsAgree == \A r \in Runs : ~run[r].unequal
=============================================================================
