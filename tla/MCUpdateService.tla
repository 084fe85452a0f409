---------------------------- MODULE MCUpdateService ----------------------------
EXTENDS UpdateService, TLC
(* "1" goes on to "10". *)
MCProducts == {1, 10}

(* Prices are only compared. *)
MCSymmetry == Permutations(Prices)
=============================================================================
