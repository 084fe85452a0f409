--------------------------- MODULE MCVirtualCANBus ---------------------------
(* Small buses for TLC. *)
EXTENDS VirtualCANBus

(* Seconds are short and scans frequent, so that frames collide. *)
MCIntervals == {3, 4}
MCTags      == NodeIds
=============================================================================
