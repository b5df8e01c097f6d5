---------------------------- MODULE MCRadioStop ----------------------------
(***************************************************************************)
(* Radio Stop asked for again after it could not be sent.                  *)
(***************************************************************************)
EXTENDS Signalbox
=============================================================================
