--------------------------- MODULE MCWaitTrigger ---------------------------
EXTENDS WaitTriggerProofs, TLC

\* Updates are interchangeable.  Used in the runs that check invariants only.
UpdateSymmetry == Permutations(Updates)
=============================================================================
