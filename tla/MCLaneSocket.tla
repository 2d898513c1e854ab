----------------------------- MODULE MCLaneSocket -----------------------------
(***************************************************************************)
(* The overlay's two sides, two lanes, and the board.                      *)
(***************************************************************************)
EXTENDS LaneSocket
=============================================================================
