--------------------------- MODULE MCConsignment ---------------------------
(* Opids are told apart by nothing but their name when no call is refused. *)
EXTENDS Consignment, TLC

Symmetry == Permutations(Ops)
=============================================================================
