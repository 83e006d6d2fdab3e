--------------------------- MODULE MCIndexFanOut ----------------------------
(* Values for the constant of IndexFanOut, for TLC. *)
EXTENDS IndexFanOut
=============================================================================
