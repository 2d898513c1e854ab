------------------------------ MODULE LaneBoard ------------------------------
(***************************************************************************)
(* What a board promises, without goroutines, channels or locks: it shows  *)
(* one lane at a Rev the lane has stored, moves forward while it stays on  *)
(* that lane, and jumps, possibly to a lower Rev, only by changing lanes,  *)
(* or when the gateway itself is started anew.                             *)
(***************************************************************************)
EXTENDS Naturals

CONSTANTS Sessions, Nil

VARIABLES
  lane,    \* the lane on show, Nil at first
  shown,   \* the Rev on show
  latest   \* [Sessions -> Nat]: the Rev of each lane's stored snapshot

boardVars == <<lane, shown, latest>>

Init ==
  /\ lane = Nil
  /\ shown = 0
  /\ latest = [s \in Sessions |-> 0]

Store(s) ==
  /\ latest'[s] \in Nat /\ latest'[s] > latest[s]
  /\ latest' = [latest EXCEPT ![s] = latest'[s]]
  /\ UNCHANGED <<lane, shown>>

Advance ==
  /\ lane # Nil
  /\ shown' \in (shown + 1) .. latest[lane]
  /\ UNCHANGED <<lane, latest>>

Change(s) ==
  /\ s # lane
  /\ lane' = s
  /\ shown' \in 0 .. latest[s]
  /\ UNCHANGED latest

\* The gateway is started anew.
Restart ==
  /\ lane' = Nil
  /\ shown' = 0
  /\ UNCHANGED latest

Next == Advance \/ Restart \/ \E s \in Sessions : Store(s) \/ Change(s)

Spec == Init /\ [][Next]_boardVars
=============================================================================
