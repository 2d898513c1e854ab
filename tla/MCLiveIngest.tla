----------------------------- MODULE MCLiveIngest -----------------------------
(***************************************************************************)
(* Two clips, before and after a capture that is skipped and one that      *)
(* aborts its batch; and two cars.                                         *)
(***************************************************************************)
EXTENDS LiveIngest

MCCaptures == <<"box", "garbled", "untexted", "push">>
MCMalformed == {"garbled"}
MCUntexted == {"untexted"}
=============================================================================
