------------------------------- MODULE MCRail -------------------------------
(***************************************************************************)
(* Two lanes, whose Revs are apart. The threshold is two seconds, so a     *)
(* stall takes several ticks of the interval.                              *)
(***************************************************************************)
EXTENDS Rail, TLC

CONSTANTS replay, live

MCLanes == {replay, live}
MCFirstRev == replay :> 0 @@ live :> 10
=============================================================================
