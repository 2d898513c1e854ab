------------------------------- MODULE Routing -------------------------------
(***************************************************************************)
(* Hash routing (web/src/routing.ts), the overlay's catalogue              *)
(* (state/sessions.ts) and the resolution of a shared code                 *)
(* (state/ghost.ts). A hash is its parts: [name, car, a, b], a side        *)
(* [session, car]. A driver code is a name; some are not well formed       *)
(* (CAR_CODE wants two to four characters), some not in upper case.        *)
(***************************************************************************)
EXTENDS RunningOrder

CONSTANTS Upper,           \* from each code to its upper case
          WellFormed,      \* the codes in upper case that CAR_CODE admits
          SESSIONS         \* the slugs of the catalogue, the default first

\* A side that is open: the slug is in the catalogue, the driver may be left open.
Sides == [session : Range(SESSIONS), car : WellFormed \cup {Nil}]

ASSUME CatalogueAssumption == SESSIONS \in Seq(Range(SESSIONS)) /\ SESSIONS # <<>>
ASSUME CodesAssumption == Nil \notin WellFormed \cup Sides /\ \A c \in WellFormed : Upper[c] = c

ROUTES == {"board", "ghost", "settings"}

parseCode(c) == IF c # Nil /\ Upper[c] \in WellFormed THEN Upper[c] ELSE Nil

\* Both halves of a side, or nothing.
parseSide(v) ==
  IF v = Nil \/ parseCode(v.car) = Nil THEN Nil
  ELSE [session |-> v.session, car |-> parseCode(v.car)]

\* #compare is answered by the overlay, an unknown name by the board.
parseHash(h) ==
  [route |-> IF h.name \in ROUTES THEN h.name
             ELSE IF h.name = "compare" THEN "ghost" ELSE "board",
   car |-> parseCode(h.car), a |-> parseSide(h.a), b |-> parseSide(h.b)]

\* The shortest hash: the board without a car is bare, and one side is none.
buildHash(route, car, a, b) ==
  LET both == a # Nil /\ b # Nil
  IN  [name |-> IF route = "board" /\ car = Nil /\ ~both THEN "" ELSE route,
       car  |-> car,
       a    |-> IF both THEN a ELSE Nil,
       b    |-> IF both THEN b ELSE Nil]

Rebuilt(h) == LET p == parseHash(h) IN buildHash(p.route, p.car, p.a, p.b)

-----------------------------------------------------------------------------
DEFAULT_SESSION == SESSIONS[1]

Other(slug) ==
  IF \E s \in Range(SESSIONS) : s # slug
  THEN SESSIONS[CHOOSE i \in DOMAIN SESSIONS :
                  SESSIONS[i] # slug /\ \A j \in 1 .. i - 1 : SESSIONS[j] = slug]
  ELSE slug

\* defaultSides and sideFromHash: a slug that is not in the catalogue falls back.
Opens(side, fallback) ==
  IF side # Nil /\ side.session \in Range(SESSIONS)
  THEN side ELSE [session |-> fallback, car |-> Nil]

OpensA(p) == Opens(p.a, DEFAULT_SESSION)
OpensB(p) == Opens(p.b, Other(DEFAULT_SESSION))

\* findByCode: the first of these drivers with this code; `codes` is driverCode.
findByCode(codes, drivers, code) ==
  LET named == {n \in drivers : Upper[codes[n]] = Upper[code]}
  IN  IF code = Nil \/ named = {} THEN Nil ELSE Min(named)
=============================================================================
