------------------------------ MODULE MCRegistry ------------------------------
(***************************************************************************)
(* Two lanes and up to three requests. The replay clip is two lines long,  *)
(* so that its third frame is a loop restart.                              *)
(***************************************************************************)
EXTENDS Registry

CONSTANTS replay, live, d1, d2

MCData == {"r.head", "r.1", "r.2", "r.flag", "l.head", "l.1", "l.radio"}

MCClip ==
  (replay :> [header |-> "r.head", radio |-> <<>>,
              lines |->
                <<[radio |-> <<>>, timeMs |-> 0, cars |-> (d1 :> "r.1" @@ d2 :> "r.2"),
                   messages |-> <<"r.flag">>, weather |-> Nil],
                  [radio |-> <<>>, timeMs |-> 1, cars |-> (d1 :> "r.2"),
                   messages |-> <<>>, weather |-> Nil]>>])
  @@
  (live :> [header |-> "l.head", radio |-> <<>>,
            lines |->
              <<[radio |-> <<"l.radio">>, timeMs |-> 0, cars |-> (d1 :> "l.1"),
                 messages |-> <<>>, weather |-> Nil]>>])
=============================================================================
