-------------------------- MODULE MCAnchorTracker --------------------------
(***************************************************************************)
(* TLC instance of AnchorTracker: two operations and two witnesses, enough *)
(* for a shared witness (batching) and for a replaced one (RBF).           *)
(***************************************************************************)
EXTENDS AnchorTracker, TLC

Symmetry == Permutations(Opids) \cup Permutations(Wids)
=============================================================================
