---------------------------- MODULE MCCoapClient ----------------------------
(* Small clusters for TLC. *)
EXTENDS CoapClient

MCInterval == {3}

(* The loop index survives the wait, or it does not. *)
MCIndexKept  == {0}
MCIndexStale == {-1, 0}
=============================================================================
