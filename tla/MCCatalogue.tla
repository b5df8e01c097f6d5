---------------------------- MODULE MCCatalogue ----------------------------
(* Instance of Catalogue for TLC. *)
EXTENDS Catalogue, TLC

Symmetry == Permutations(Proc) \cup Permutations(Addr) \cup Permutations(Vehicle)
              \cup Permutations(Station) \cup Permutations(Layout)
=============================================================================
