--------------------------- MODULE MCUpdateIntake ---------------------------
EXTENDS UpdateIntake
CONSTANTS s1, j1, j2, u1
=============================================================================
