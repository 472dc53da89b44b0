-------------------------- MODULE MCTelegramRequest --------------------------
EXTENDS TelegramRequest, TLC

CONSTANTS group, r1, r2, r3, r4

\* Three requests to a group and one, as getMe, to no chat.
Targets == [r \in {r1, r2, r3} |-> group] @@ (r4 :> NoChat)

\* One request a tick for the bot; two every four ticks for the group.
TightBuckets == (Global :> [cost |-> 1, capacity |-> 1, drain |-> 1])
             @@ (group :> [cost |-> 2, capacity |-> 4, drain |-> 1])
=============================================================================
