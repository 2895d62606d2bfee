--------------------------- MODULE MCRecvReorder ---------------------------
(***************************************************************************)
(* RecvReorder with a number space of 12 and a window of 3, over frames    *)
(* whose numbers wrap: 10, 11, 0, 1.                                       *)
(***************************************************************************)
EXTENDS RecvReorder
============================================================================
