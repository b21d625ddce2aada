--------------------------- MODULE MCDesktopRunner ---------------------------
(* DesktopRunner with two runs of two requests and a small loop guard. *)
EXTENDS DesktopRunner, TLC
=============================================================================
