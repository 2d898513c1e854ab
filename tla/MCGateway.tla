------------------------------ MODULE MCGateway ------------------------------
(***************************************************************************)
(* Two lanes for TLC. Each clip is two lines long, so the third frame is a *)
(* loop restart, and one line leaves a car, the weather or the messages    *)
(* unmentioned. No payload of one lane occurs in the other's clip.         *)
(***************************************************************************)
EXTENDS Gateway

CONSTANTS replay, live, d1, d2

MCData == {"r.head", "r.1", "r.2", "r.3", "r.flag", "r.rain", "r.radio",
           "l.head", "l.1", "l.2", "l.flag", "l.radio"}

MCClip ==
  (replay :> [header |-> "r.head", radio |-> <<"r.radio">>,
              lines |->
                <<[radio |-> <<>>, timeMs |-> 0, cars |-> (d1 :> "r.1" @@ d2 :> "r.2"),
                   messages |-> <<"r.flag">>, weather |-> Nil],
                  [radio |-> <<>>, timeMs |-> 1, cars |-> (d1 :> "r.3"),
                   messages |-> <<>>, weather |-> "r.rain"]>>])
  @@
  (live :> [header |-> "l.head", radio |-> <<>>,
            lines |->
              <<[radio |-> <<>>, timeMs |-> 0, cars |-> (d1 :> "l.1"),
                 messages |-> <<"l.flag">>, weather |-> Nil],
                [radio |-> <<"l.radio">>, timeMs |-> 1, cars |-> (d1 :> "l.2"),
                 messages |-> <<"l.flag">>, weather |-> Nil]>>])
=============================================================================
