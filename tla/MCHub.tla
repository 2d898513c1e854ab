-------------------------------- MODULE MCHub --------------------------------
(***************************************************************************)
(* One lane on show and one to switch to. The lane's two frame bodies are  *)
(* further apart than LoopRewind, so publishing the second before the      *)
(* first is a loop restart for the hub and for the browser.                *)
(***************************************************************************)
EXTENDS Hub

CONSTANTS replay, live, d1, d2, b1, c1, c2

MCData == {"head", "a", "b", "flag", "rain", "other"}

MCBodies ==
  {[timeMs |-> 0, cars |-> (d1 :> "a" @@ d2 :> "b"), messages |-> <<"flag">>,
    radio |-> <<>>, weather |-> Nil],
   [timeMs |-> 10, cars |-> (d2 :> "a"), messages |-> <<>>,
    radio |-> <<>>, weather |-> "rain"]}

MCInitial ==
  [NewSnapshot(replay) EXCEPT !.header = "head", !.rev = 1, !.cars = (d1 :> "b")]

\* The lane to switch to: at a lower Rev, and with no message.
MCOthers ==
  {[NewSnapshot(live) EXCEPT !.header = "other", !.cars = (d1 :> "other")]}
=============================================================================
