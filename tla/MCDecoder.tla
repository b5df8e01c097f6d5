------------------------------ MODULE MCDecoder -----------------------------
EXTENDS Decoder, TLC

CONSTANTS horn, light, h1, h2, q1, q2

MCAddress == {<<FALSE, 0, 3>>, <<TRUE, 5, 6>>}
=============================================================================
