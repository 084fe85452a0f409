---------------------------- MODULE MCProductUpdate ----------------------------
EXTENDS ProductUpdate
(* One token more than registrations, observers and notifications can hold. *)
MCTokens == 1 .. 7
=============================================================================
