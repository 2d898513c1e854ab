------------------------------- MODULE MCComms -------------------------------
(***************************************************************************)
(* Two clips on the recorded lane, the second of a foreign origin, and one *)
(* on the live lane.                                                       *)
(***************************************************************************)
EXTENDS Comms

Clip(name, timeMs, allowed) == [name |-> name, timeMs |-> timeMs, allowed |-> allowed]

MCRecorded == <<Clip("box", 1, TRUE), Clip("spoof", 1, FALSE), Clip("push", 2, TRUE)>>
MCTransmitted == <<Clip("rain", 2, TRUE)>>
=============================================================================
