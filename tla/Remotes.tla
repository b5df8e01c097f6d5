------------------------------ MODULE Remotes ------------------------------
(***************************************************************************)
(* What the modules about handsets have in common (Handsets, Throttles).   *)
(***************************************************************************)
CONSTANTS MaxCalls,      \* bound on requests, commands, expiries, failures, restarts
          None
=============================================================================
