-------------------------- MODULE MCWebhookTrigger --------------------------
EXTENDS WebhookTrigger

CONSTANTS c1, c2, c3, c4

FourChats == {c1, c2, c3, c4}
FourInOrder == <<c1, c2, c3, c4>>
ThreeChats == {c1, c2, c3}
ThreeInOrder == <<c1, c2, c3>>

\* Runs are interchangeable.
RunSymmetry == Permutations(Runs)
=============================================================================
