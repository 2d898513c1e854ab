-------------------------------- MODULE Ghost --------------------------------
(***************************************************************************)
(* The lap overlay (web/src/components/Ghost.tsx and state/ghost.ts): two  *)
(* sides, each a session and a driver code resolved against its own lane,  *)
(* the pair's looping clock, and the URL that names the pair.              *)
(*                                                                         *)
(* What a change renders and runs (the reset during render, the effects)   *)
(* is part of the step that makes the change. A lane's traces come with    *)
(* its snapshot; a lane that no side names is closed, and starts afresh.   *)
(***************************************************************************)
EXTENDS Routing

CONSTANTS Trace,       \* Trace[s][n]: driver n's lap in session s
          Code,        \* Code[s][n]: the code of every driver with a trace
          Outline,     \* Outline[s]: the length of the track of session s
          LoopTail     \* what the loop adds to the longer lap

\* No two drivers of a session share a code; a driver without a lap has no trace.
ASSUME TraceAssumption ==
  \A s \in Range(SESSIONS) :
    /\ DOMAIN Trace[s] \subseteq Nat
    /\ \A n \in DOMAIN Trace[s] :
         Code[s][n] \in WellFormed /\ \A m \in DOMAIN Trace[s] : Code[s][m] = Code[s][n] => m = n
    /\ \A n \in DOMAIN Trace[s] : Trace[s][n] \in Seq(Int) \ {<<>>}
    /\ Outline[s] \in Nat

VARIABLES
  location,            \* location.hash
  sideA, sideB,        \* Nil while the overlay is not on screen
  lanes,               \* per subscribed session: has its snapshot come?
  tMs, paused,
  reducedMotion

ghostVars == <<sideA, sideB, lanes, tMs, paused, reducedMotion>>

Shown == sideA # Nil

-----------------------------------------------------------------------------
drivers(side, ls) ==
  IF side # Nil /\ ls[side.session] THEN DOMAIN Trace[side.session] ELSE {}

First(S) == IF S = {} THEN Nil ELSE Min(S)

numA(a, ls) ==
  LET ds == drivers(a, ls)
      named == IF a = Nil \/ ds = {} THEN Nil ELSE findByCode(Code[a.session], ds, a.car)
  IN  IF named # Nil THEN named ELSE First(ds)

\* Unnamed: another driver of the same session, the same one of another.
numB(a, b, ls) ==
  LET ds == drivers(b, ls)
      first == numA(a, ls)
      named == IF b = Nil \/ ds = {} THEN Nil ELSE findByCode(Code[b.session], ds, b.car)
  IN  CASE named # Nil -> named
        [] named = Nil /\ b # Nil /\ a.session = b.session ->
             IF ds \ {first} # {} THEN Min(ds \ {first}) ELSE First(ds)
        [] OTHER -> IF first \in ds THEN first ELSE First(ds)

pair(a, b, ls) ==
  IF a = Nil THEN Nil ELSE <<a.session, numA(a, ls), b.session, numB(a, b, ls)>>

samePair(p) == p[1] = p[3] /\ p[2] # Nil /\ p[2] = p[4]

Lap(session, n) == Trace[session][n]

loopMs(p) ==
  IF p = Nil \/ samePair(p) \/ p[2] = Nil \/ p[4] = Nil THEN 0
  ELSE Max({Last(Lap(p[1], p[2])), Last(Lap(p[3], p[4]))}) + LoopTail

ready(p) == loopMs(p) > 0 /\ Outline[p[1]] > 0

Link_AsPicked(a, b, p) == IF p = Nil THEN Nil ELSE buildHash("ghost", Nil, a, b)

\* What the effect that keeps the URL writes, once both sides have a code.
Link(a, b, p) ==
  IF p = Nil \/ p[2] = Nil \/ p[4] = Nil THEN Nil
  ELSE buildHash("ghost", Nil, [session |-> a.session, car |-> Code[p[1]][p[2]]],
                               [session |-> b.session, car |-> Code[p[3]][p[4]]])

thePair == pair(sideA, sideB, lanes)
theLink == Link(sideA, sideB, thePair)

-----------------------------------------------------------------------------
indexAtTime(trace, t) ==
  LET reached == {i \in DOMAIN trace : \A j \in 1 .. i : trace[j] <= t}
  IN  IF reached = {} THEN 1 ELSE Max(reached)

deltaSeries(a, b) == [i \in 1 .. Min({Len(a), Len(b)}) |-> a[i] - b[i]]

\* The index of each marker on side A's outline, and of the bar under the cursor.
Marker_Unclamped(p, n, t) == indexAtTime(Lap(p[n], p[n + 1]), t)

Marker(p, n, t) == Min({indexAtTime(Lap(p[n], p[n + 1]), t), Outline[p[1]]})

Cursor(p, t) ==
  Min({indexAtTime(Lap(p[1], p[2]), t), Len(deltaSeries(Lap(p[1], p[2]), Lap(p[3], p[4])))})

-----------------------------------------------------------------------------
Running(p, halted) == loopMs(p) > 0 /\ ~halted /\ ~reducedMotion

\* The sides are now a and b, and ls their lanes: another pair restarts the
\* clock but not playback, and a pair that is complete is written to the URL.
Settle(a, b, ls) ==
  LET p == pair(a, b, ls)
      link == Link(a, b, p)
  IN  /\ sideA' = a /\ sideB' = b /\ lanes' = ls
      /\ tMs' = IF p # thePair THEN 0 ELSE tMs
      /\ location' = IF link \notin {Nil, theLink} THEN link ELSE location
      /\ UNCHANGED <<paused, reducedMotion>>

\* useLane: a lane that stays subscribed keeps its state.
Subscribed(a, b) ==
  [s \in {a.session, b.session} |-> IF s \in DOMAIN lanes THEN lanes[s] ELSE FALSE]

LaneLoads(s) ==
  /\ Shown /\ s \in DOMAIN lanes /\ ~lanes[s]
  /\ Settle(sideA, sideB, [lanes EXCEPT ![s] = TRUE])

\* The pickers.
PickSession(s) ==
  /\ Shown
  /\ \/ LET a == [sideA EXCEPT !.session = s] IN Settle(a, sideB, Subscribed(a, sideB))
     \/ LET b == [sideB EXCEPT !.session = s] IN Settle(sideA, b, Subscribed(sideA, b))

PickCar ==
  /\ Shown
  /\ \/ \E n \in drivers(sideA, lanes) :
          Settle([sideA EXCEPT !.car = Code[sideA.session][n]], sideB, lanes)
     \/ \E n \in drivers(sideB, lanes) :
          Settle(sideA, [sideB EXCEPT !.car = Code[sideB.session][n]], lanes)

SameDriverTwoYears ==
  /\ Shown /\ Len(SESSIONS) > 1
  /\ LET n == numA(sideA, lanes)
         b == [session |-> Other(sideA.session),
               car |-> IF n = Nil THEN Nil ELSE Code[sideA.session][n]]
     IN  Settle(sideA, b, Subscribed(sideA, b))

TwoDriversOneRace ==
  /\ Shown /\ Len(SESSIONS) > 1
  /\ LET b == [session |-> sideA.session, car |-> Nil]
     IN  Settle(sideA, b, Subscribed(sideA, b))

TogglePaused ==
  /\ Shown /\ ready(thePair)
  /\ paused' = ~paused
  /\ UNCHANGED <<location, sideA, sideB, lanes, tMs, reducedMotion>>

ScrubTo(v) ==
  /\ Shown /\ ready(thePair) /\ v < loopMs(thePair)
  /\ tMs' = v
  /\ UNCHANGED <<location, sideA, sideB, lanes, paused, reducedMotion>>

\* The animation loop draws the clock. Whenever it starts, startRef is set so that
\* it goes on from the clock: how long it had been halted does not count.
TimePasses ==
  /\ Shown /\ Running(thePair, paused)
  /\ tMs' = (tMs + 1) % loopMs(thePair)
  /\ UNCHANGED <<location, sideA, sideB, lanes, paused, reducedMotion>>

\* The route mounts the overlay afresh, on what the URL names.
Mount(p, loc) ==
  /\ sideA' = OpensA(p) /\ sideB' = OpensB(p)
  /\ lanes' = [s \in {sideA'.session, sideB'.session} |-> FALSE]
  /\ tMs' = 0 /\ paused' = reducedMotion
  /\ location' = loc
  /\ UNCHANGED reducedMotion

Unmounted ==
  /\ sideA' = Nil /\ sideB' = Nil /\ lanes' = <<>>
  /\ tMs' = 0 /\ paused' = FALSE
  /\ UNCHANGED reducedMotion
=============================================================================
