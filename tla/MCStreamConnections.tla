------------------------- MODULE MCStreamConnections -------------------------
(* StreamConnections with a panel of each mode and two connects. *)
EXTENDS StreamConnections, TLC
=============================================================================
