----------------------------- MODULE MCLending ------------------------------
(***************************************************************************)
(* A vehicle, a train that contains it, and two users besides the owner.   *)
(***************************************************************************)
EXTENDS Lending, TLC

CONSTANTS v1, k1, owner, u1, u2, p1, p2

Symmetry == Permutations(User) \cup Permutations(Proc)

MCMember == [k \in Train |-> Vehicle]

=============================================================================
