--------------------------- MODULE MCServiceTasks ---------------------------
EXTENDS ServiceTasks, TLC

CONSTANTS a, b

\* A task of one tick and one of two.
TwoIntervals == (a :> 1) @@ (b :> 2)
=============================================================================
