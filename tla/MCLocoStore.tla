---------------------------- MODULE MCLocoStore -----------------------------
(***************************************************************************)
(* One locomotive, one or two handlers and the flush loop.                 *)
(***************************************************************************)
EXTENDS LocoStore

CONSTANTS a1, w1, w2, loop

=============================================================================
