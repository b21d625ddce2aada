---------------------------- MODULE MCDesktopSave ----------------------------
(* DesktopSave on small instances: the configurations give the constants.    *)
EXTENDS DesktopSave
=============================================================================
