----------------------------- MODULE MCSmartStore -----------------------------
EXTENDS SmartStore, TLC
(* One product, in the last slot of the database. *)
MCProducts == {1}
MCQuantities == {1}
MCMids == {0, 1}
MCSymmetry == Permutations(Motes)
=============================================================================
