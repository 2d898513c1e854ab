------------------------------- MODULE MCTower -------------------------------
(***************************************************************************)
(* A race whose gaps hop, whose order lags behind them and whose feed      *)
(* repeats a position; and a practice session, which has no gaps.          *)
(***************************************************************************)
EXTENDS Tower, TLC

CONSTANTS race, practice

Car(d, place, n, ms, gap, int, s1) ==
  [driverNum |-> d, pos |-> place, lap |-> n, status |-> "OnTrack",
   lastLapMs |-> ms, bestLapMs |-> ms, gapMs |-> gap, gapLaps |-> 0, intMs |-> int,
   sectors |-> <<s1, 0, 0>>]

Map(a, b, c) == 1 :> a @@ 2 :> b @@ 3 :> c

MCFeed ==
  race :> { \* settled; car 2 hops; the order lags: 3 is closer than 2; a repeated position
      Map(Car(1, 1, 3, 90, Nil, Nil, 30), Car(2, 2, 3, 91, 1000, 1000, 31), Car(3, 3, 3, 92, 1200, 200, 32)),
      Map(Car(1, 1, 3, 90, Nil, Nil, 30), Car(2, 2, 3, 91, 2000, 2000, 33), [Car(3, 3, 3, 92, 1220, 200, 31) EXCEPT !.gapLaps = 1]),
      Map(Car(1, 2, 4, 90, 300, 300, 30), Car(2, 1, 4, 90, Nil, Nil, 30), [Car(3, 2, 3, 92, 1000, 700, 32) EXCEPT !.status = "Pit"]),
      3 :> Car(3, 1, 4, 93, 980, 980, 30) }
  @@ practice :>
    { 1 :> Car(1, 2, 1, 80, Nil, Nil, 25) @@ 2 :> Car(2, 1, Nil, 81, Nil, Nil, 0),
      3 :> Car(3, 3, Nil, 0, Nil, Nil, 0) }

MCStints == race :> {1, 2, 3} @@ practice :> {}
=============================================================================
