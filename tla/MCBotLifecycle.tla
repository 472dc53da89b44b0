--------------------------- MODULE MCBotLifecycle ---------------------------
EXTENDS BotLifecycle, TLC

\* Jobs are interchangeable.
JobSymmetry == Permutations(Jobs)
=============================================================================
