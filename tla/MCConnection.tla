--------------------------- MODULE MCConnection ----------------------------
(***************************************************************************)
(* Connection with four messages of 3, 2, 4 and 3 bytes.                   *)
(***************************************************************************)
EXTENDS Connection

MCStart == <<0, 3, 5, 9, 12>>
=============================================================================
