----------------------------- MODULE MCHandsets -----------------------------
EXTENDS Handsets, TLC

CONSTANTS z1, z2, t1, u1, u2, k1, k2, r1
=============================================================================
