------------------------------ MODULE Layouts ------------------------------
(***************************************************************************)
(* What the modules about the server's layouts have in common (Catalogue,  *)
(* Supervision): the layouts, the command stations they are attached to,   *)
(* and the requests.                                                       *)
(***************************************************************************)
CONSTANTS Layout, Station,
          Proc,          \* requests that may be served at the same time
          MaxCalls,      \* bound on the requests, edits and faults
          None
=============================================================================
