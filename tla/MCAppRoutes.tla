---------------------------- MODULE MCAppRoutes ----------------------------
(***************************************************************************)
(* Two drivers of which one has a lap in both seasons, a longer one in the *)
(* second, whose outline is shorter; boards that differ in who is there.   *)
(***************************************************************************)
EXTENDS AppRoutes, TLC

MCUpper == "VER" :> "VER" @@ "ver" :> "VER" @@ "LEC" :> "LEC" @@ "SAI" :> "SAI" @@ "?" :> "?"
MCWellFormed == {"VER", "LEC", "SAI"}
MCSessions == <<"monza-2024", "monza-2023">>

MCTrace == "monza-2024" :> (1 :> <<0, 1, 2>> @@ 16 :> <<0, 2, 2>>)
        @@ "monza-2023" :> (16 :> <<0, 1>>)
MCCode == "monza-2024" :> (1 :> "VER" @@ 16 :> "LEC") @@ "monza-2023" :> (16 :> "LEC")
MCOutline == "monza-2024" :> 3 @@ "monza-2023" :> 2

BoardCar(n, place, name) == [driverNum |-> n, pos |-> place, lap |-> 1, code |-> name]
MCBoardCars ==
  { 1 :> BoardCar(1, 1, "VER") @@ 16 :> BoardCar(16, 2, "LEC"),
    16 :> BoardCar(16, 1, "LEC") }

H(name, car, a, b) == [name |-> name, car |-> car, a |-> a, b |-> b]
S(session, car) == [car |-> car, session |-> session]
MCHashes ==
  { H("", Nil, Nil, Nil), H("board", "ver", Nil, Nil), H("board", "LEC", Nil, Nil),
    H("ghost", Nil, Nil, Nil),
    H("compare", Nil, S("monza-2024", "LEC"), S("monza-2024", "ver")),
    H("ghost", Nil, S("monza-2024", "SAI"), S("spa-1998", "VER")) }
=============================================================================
