--------------------------- MODULE MCProjectSession ---------------------------
(* ProjectSession with the app-data storage, two projects and two commands. *)
EXTENDS ProjectSession

\* crossed is never reset, and the properties but TypeOK are claimed only without it.
Uncrossed == ~crossed
=============================================================================
