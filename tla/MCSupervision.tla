--------------------------- MODULE MCSupervision ---------------------------
EXTENDS Supervision, TLC

CONSTANTS l1, l2, s1, p1, p2
=============================================================================
