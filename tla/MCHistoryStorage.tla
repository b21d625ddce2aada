--------------------------- MODULE MCHistoryStorage ---------------------------
(* HistoryStorage with two entries, the append queue and one other call. *)
EXTENDS HistoryStorage, TLC
=============================================================================
