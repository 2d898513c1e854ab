----------------------------- MODULE MCDemoBoard -----------------------------
(***************************************************************************)
(* A clip of a snapshot and four frames: one of its cars appears only in   *)
(* the last, and it is longer than LoopRewind, so that a lap is a loop.    *)
(***************************************************************************)
EXTENDS DemoBoard

CONSTANTS replay, d1, d2

MCData == {"head", "a", "b", "flag", "green"}

Frame(rev, timeMs, cars, messages) ==
  FrameMsg([rev |-> rev, timeMs |-> timeMs, cars |-> cars, messages |-> messages,
            session |-> replay, radio |-> <<>>, weather |-> Nil])

MCClip ==
  << SnapshotMsg([NewSnapshot(replay) EXCEPT !.header = "head"]),
     Frame(1, 10, d1 :> "a", <<"green">>),
     Frame(2, 11, d1 :> "b", <<>>),
     Frame(3, 13, d1 :> "a", <<"flag">>),
     Frame(4, 14, d1 :> "b" @@ d2 :> "b", <<"green">>) >>
=============================================================================
