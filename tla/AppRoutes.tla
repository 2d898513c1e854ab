------------------------------ MODULE AppRoutes ------------------------------
(***************************************************************************)
(* App's routes and selection (web/src/App.tsx): the hash that decides the *)
(* view, the reference car that the panels of the board share, the seed    *)
(* that picks the leader once, and the URL, which is read on a hash change *)
(* and written whenever the selection moves. The overlay is a route.       *)
(* history.replaceState fires no hashchange, so `hash`, what App last      *)
(* read, lags behind `location`.                                           *)
(***************************************************************************)
EXTENDS Ghost

CONSTANTS BoardCars,   \* the car maps the board may show; a car has pos, lap and code
          Hashes       \* what a link, a bookmark or the address bar may name

ASSUME BoardCodesAssumption == \A cs \in BoardCars : \A d \in DOMAIN cs : cs[d].code \in WellFormed

VARIABLES hash,
          opened,        \* connectedRef: the board has been on screen
          cars, selected, leaderSeeded

boardVars == <<opened, cars, selected, leaderSeeded>>
vars == <<location, hash, boardVars, ghostVars>>

route == parseHash(hash).route

linked(code, cs) ==
  LET named == {d \in DOMAIN cs : Upper[cs[d].code] = code}
  IN  IF code = Nil \/ named = {} THEN Nil ELSE Min(named)

selectedCode(sel, cs) == IF sel \in DOMAIN cs THEN cs[sel].code ELSE Nil

BoardLink(sel, cs) == buildHash("board", selectedCode(sel, cs), Nil, Nil)

-----------------------------------------------------------------------------
Seed_WithoutFlag(h, cs, sel) ==
  IF sel = Nil /\ cs # <<>> THEN leaderOf(cs).driverNum ELSE sel

\* The first frame with cars seeds the selection, once: the car that the URL
\* names, or else the leader.
Seed(h, cs, sel) ==
  IF leaderSeeded \/ cs = <<>> THEN sel
  ELSE LET named == linked(parseHash(h).car, cs)
       IN  IF named # Nil THEN named
           ELSE IF sel = Nil THEN leaderOf(cs).driverNum ELSE sel

FromUrl_SeedOnly(h, cs, sel) == sel

\* A hash that names another car than the last one moves the selection.
FromUrl(h, cs, sel) ==
  LET code == parseHash(h).car
      named == linked(code, cs)
  IN  IF code # parseHash(hash).car /\ named # Nil THEN named ELSE sel

Written_BeforeSeed(loc, h, cs, sel) ==
  IF parseHash(h).route = "board" /\ Rebuilt(loc) # BoardLink(sel, cs)
  THEN BoardLink(sel, cs) ELSE loc

\* The board's URL is written when the selected code, the seed or the hash has
\* changed, and only on the board.
Written(loc, h, cs, sel) ==
  IF /\ parseHash(h).route = "board" /\ (leaderSeeded \/ cs # <<>>)
     /\ \/ selectedCode(sel, cs) # selectedCode(selected, cars) \/ h # hash
        \/ ~leaderSeeded
     /\ Rebuilt(loc) # BoardLink(sel, cs)
  THEN BoardLink(sel, cs) ELSE loc

\* App renders with hash h, the cars cs, and the selection an event has left.
Render(loc, h, cs, sel) ==
  LET now == FromUrl(h, cs, Seed(h, cs, sel))
  IN  /\ hash' = h /\ cars' = cs /\ selected' = now
      /\ opened' = (opened \/ parseHash(h).route = "board")
      /\ leaderSeeded' = (leaderSeeded \/ cs # <<>>)
      /\ location' = Written(loc, h, cs, now)

\* The page is opened on a link.
Init ==
  /\ location \in Hashes /\ hash = location /\ opened = (route = "board")
  /\ cars = <<>> /\ selected = Nil /\ leaderSeeded = FALSE
  /\ reducedMotion \in BOOLEAN
  /\ tMs = 0
  /\ IF route = "ghost"
     THEN /\ sideA = OpensA(parseHash(hash)) /\ sideB = OpensB(parseHash(hash))
          /\ lanes = [s \in {sideA.session, sideB.session} |-> FALSE]
          /\ paused = reducedMotion
     ELSE sideA = Nil /\ sideB = Nil /\ lanes = <<>> /\ paused = FALSE

\* The board's state moves, whatever the route, once the board has been opened.
Board(cs) ==
  /\ opened /\ cs # cars
  /\ Render(location, hash, cs, selected)
  /\ UNCHANGED ghostVars

Select(d) ==
  /\ route = "board" /\ d \in DOMAIN cars
  /\ Render(location, hash, cars, IF selected = d THEN Nil ELSE d)
  /\ UNCHANGED ghostVars

\* Escape, on any route, unless a form control has the focus.
Escape ==
  /\ selected # Nil
  /\ Render(location, hash, cars, Nil)
  /\ UNCHANGED ghostVars

\* The overlay is remounted when the sides that the hash names change.
SidesOf(h) == <<parseHash(h).route, parseHash(h).a, parseHash(h).b>>

\* A link is followed. The browser reports a change of the hash against the
\* location, React only one against what App last read.
Navigate(h) ==
  /\ h # location
  /\ IF h = hash
     THEN /\ location' = h
          /\ UNCHANGED <<hash, boardVars, ghostVars>>
     ELSE /\ Render(h, h, cars, selected)
          /\ CASE parseHash(h).route = "ghost" /\ SidesOf(h) # SidesOf(hash) -> Mount(parseHash(h), h)
               [] parseHash(h).route # "ghost" -> Unmounted
               [] OTHER -> UNCHANGED ghostVars

GhostStep ==
  /\ \/ \E s \in Range(SESSIONS) : LaneLoads(s) \/ PickSession(s)
     \/ PickCar \/ SameDriverTwoYears \/ TwoDriversOneRace
     \/ TogglePaused \/ TimePasses
     \/ \E v \in 0 .. loopMs(thePair) - 1 : ScrubTo(v)
  /\ UNCHANGED <<hash, boardVars>>

Next ==
  \/ \E cs \in BoardCars : Board(cs)
  \/ \E d \in UNION {DOMAIN c : c \in BoardCars} : Select(d)
  \/ Escape
  \/ \E h \in Hashes : Navigate(h)
  \/ GhostStep

Spec == Init /\ [][Next]_vars

-----------------------------------------------------------------------------
\* What a page opened on h shows of the overlay, once its lanes have loaded.
Reopened(h) ==
  pair(OpensA(parseHash(h)), OpensB(parseHash(h)), [s \in Range(SESSIONS) |-> TRUE])

\* A copied overlay link opens the two laps that it was copied from, whatever was
\* picked, and in which order the two lanes came.
SharedPair ==
  Shown /\ theLink # Nil /\ location = theLink => Reopened(location) = thePair

\* Both markers and the cursor are on the outline and the bars that are drawn, also
\* where two seasons' laps and outlines have different lengths.
OnTheTrack ==
  Shown /\ ready(thePair) =>
    LET p == thePair
        bars == deltaSeries(Lap(p[1], p[2]), Lap(p[3], p[4]))
    IN  /\ {Marker(p, 1, tMs), Marker(p, 3, tMs)} \subseteq 1 .. Outline[p[1]]
        /\ Cursor(p, tMs) \in DOMAIN bars

\* "a user who clears the selection later must not have the leader pushed back at
\* them on the very next frame": after the seed, frames, Escape and the overlay
\* leave the reference car alone or clear it; only a click or a link sets one.
SelectionStands ==
  [][leaderSeeded /\ selected' \notin {Nil, selected} =>
       (\E d \in DOMAIN cars : Select(d)) \/ (\E h \in Hashes : Navigate(h))]_vars

\* Whoever follows a link to a car sees it selected: at once on a board that has
\* it, also one whose URL has moved on, and else on the first frame.
LinkMoves ==
  [][/\ ~leaderSeeded /\ leaderSeeded' /\ linked(parseHash(hash).car, cars') # Nil =>
          selected' = linked(parseHash(hash).car, cars')
     /\ parseHash(hash').car # parseHash(hash).car /\ linked(parseHash(hash').car, cars') # Nil =>
          selected' = linked(parseHash(hash').car, cars')]_vars

\* The board's URL names the selected car, unless the link that was read last has
\* been followed again; and before the first frame it is still that link.
UrlNamesSelection ==
  route = "board" =>
    IF leaderSeeded THEN Rebuilt(location) = BoardLink(selected, cars) \/ location = hash
    ELSE location = hash
=============================================================================
