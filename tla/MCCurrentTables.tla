--------------------------- MODULE MCCurrentTables ---------------------------
(* The incidents of UK Power Networks and one request to /current, for TLC. *)
EXTENDS CurrentTables
=============================================================================
