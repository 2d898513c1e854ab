-------------------------------- MODULE Tower --------------------------------
(***************************************************************************)
(* The timing tower (web/src/components/TimingTower.tsx), the strategy     *)
(* chart behind its memo (StintChart.tsx) and the lap and gap histories    *)
(* (hooks/useRollingHistory.ts), fed by the race state of the board.       *)
(*                                                                         *)
(* An effect runs before the next state is rendered, so it is part of the  *)
(* step that brings the state; the refs that hold what the effect last saw *)
(* are then the unprimed variables.                                        *)
(***************************************************************************)
EXTENDS Timing

CONSTANTS Sessions,
          Feed,      \* Feed[s]: the car maps that the frames of session s carry
          Stints,    \* Stints[s]: the drivers its stint plan has
          MaxFrames  \* how many states are received

\* A car is listed under its number; a sector's time is a number of milliseconds.
ASSUME FeedAssumption ==
  \A s \in Sessions : \A f \in Feed[s] :
    /\ IsFiniteSet(DOMAIN f)
    /\ \A d \in DOMAIN f :
         /\ f[d].driverNum = d /\ {d, f[d].pos} \subseteq Int
         /\ {f[d].lap, f[d].gapMs, f[d].intMs} \subseteq Int \cup {Nil}
         /\ f[d].sectors \in [Sectors -> 0 .. Infinity - 1]

AllDrivers == UNION {DOMAIN f : f \in UNION {Feed[s] : s \in Sessions}}

VARIABLES
  frames,                          \* counts the changes of rev or session
  session, cars, timeMs, loopSeq, snapshotSeq,  \* RaceState
  pb, smoothingRef, smoothing,     \* TimingTower's folds; the last is what it draws
  heldOrder,
  selected,                        \* App's
  lapHistory, gapHistory,
  drawn,                           \* what StintChart was last rendered from
  \* history: the cars on the board since the session began, and since the feed was
  \* last at the start of its clip; and what of the latter the board did not notice
  sessionCars, passCars, missed

raceVars == <<frames, session, cars, timeMs, loopSeq, snapshotSeq>>
foldVars == <<pb, smoothingRef, smoothing, lapHistory, gapHistory,
              sessionCars, passCars, missed>>
towerVars == <<raceVars, foldVars, heldOrder, selected, drawn>>

-----------------------------------------------------------------------------
live == orderCars(cars)

order == IF heldOrder = Nil THEN live ELSE holdOrder(live, heldOrder)
Numbers(rows) == [i \in DOMAIN rows |-> rows[i].driverNum]

\* StintChart's props, of which the order needs position and lap.
Props(cs, plan, seq, sel) ==
  [cars |-> [d \in DOMAIN cs |-> [driverNum |-> d, pos |-> cs[d].pos, lap |-> cs[d].lap]],
   stints |-> plan, identity |-> seq, selected |-> sel]

\* What the chart draws: the rows, the leader's lap and the selected row.
Chart(props) ==
  <<SelectSeq(Numbers(orderCars(props.cars)), LAMBDA d : d \in props.stints),
    leaderLapOf(props.cars), props.selected>>

\* memo: the chart is rendered again only if its comparator sees a change. The
\* stint plan is a new object in every snapshot.
Memo(next) ==
  drawn' = IF /\ drawn.identity = next.identity /\ drawn.selected = next.selected
              /\ sameRunningOrder(drawn.cars, next.cars)
           THEN drawn ELSE next

TowerInit ==
  /\ frames = 0 /\ session = Nil /\ cars = <<>> /\ timeMs = 0
  /\ loopSeq = 0 /\ snapshotSeq = 0
  /\ pb = <<>> /\ smoothingRef = <<>> /\ smoothing = <<>>
  /\ lapHistory = <<>> /\ gapHistory = <<>>
  /\ sessionCars = {} /\ passCars = {} /\ missed = "nothing"
  /\ heldOrder = Nil /\ selected = Nil
  /\ drawn = Props(<<>>, {}, 0, Nil)

-----------------------------------------------------------------------------
\* A new session or a new lap of the clip.
NewPass == session' # session \/ loopSeq' # loopSeq

\* TimingTower's effect. The windows are drawn again only if one has moved.
TowerEffect ==
  LET sm == updateGapSmoothing(IF NewPass THEN <<>> ELSE smoothingRef, cars')
  IN  /\ pb' = updatePersonalBests(IF NewPass THEN <<>> ELSE pb, cars')
      /\ smoothingRef' = sm
      /\ smoothing' = IF sm = (IF NewPass THEN <<>> ELSE smoothingRef) THEN smoothing ELSE sm

HistoryEffect_SessionOnly ==
  LET again == session' # session
  IN  /\ lapHistory' = updateLapHistory(IF again THEN <<>> ELSE lapHistory, cars')
      /\ gapHistory' = updateGapHistory(IF again THEN <<>> ELSE gapHistory, cars')

\* useRollingHistory, once for each fold: any step back in time starts again.
HistoryEffect ==
  LET again == session' # session \/ timeMs' < timeMs
  IN  /\ lapHistory' = updateLapHistory(IF again THEN <<>> ELSE lapHistory, cars')
      /\ gapHistory' = updateGapHistory(IF again THEN <<>> ELSE gapHistory, cars')

\* The feed is in another pass of its clip ("seen" by the board or not), or goes on.
\* The cars that a frame does not carry stay on the board, and are of its pass too.
Remember(pass) ==
  /\ sessionCars' = Range(cars') \cup (IF session' # session THEN {} ELSE sessionCars)
  /\ passCars' = Range(cars') \cup (IF pass # "same" THEN {} ELSE passCars)
  /\ missed' = CASE pass = "same" -> missed [] pass = "seen" -> "nothing" [] OTHER -> pass

\* A state with another rev or session is rendered.
Receive(s, cs, t, loops, snaps, pass) ==
  /\ frames < MaxFrames /\ frames' = frames + 1
  /\ session' = s /\ cars' = cs /\ timeMs' = t /\ loopSeq' = loops /\ snapshotSeq' = snaps
  /\ TowerEffect /\ HistoryEffect /\ Remember(pass)
  /\ Memo(Props(cs, Stints[s], snaps, selected))
  /\ UNCHANGED <<heldOrder, selected>>

\* A frame's cars replace the same drivers' cars.
Merged(f, cs) == [d \in DOMAIN f \cup DOMAIN cs |-> IF d \in DOMAIN f THEN f[d] ELSE cs[d]]

Frame == session # Nil /\ \E f \in Feed[session] :
           Receive(session, Merged(f, cars), timeMs + 1, loopSeq, snapshotSeq, "same")

\* The first frame of another lap of the clip.
Wrap == session # Nil /\ timeMs > 0 /\ \E f \in Feed[session] :
          Receive(session, Merged(f, cars), 0, loopSeq + 1, snapshotSeq, "seen")

\* A snapshot, on connecting or a change of source; it may be of a lane nobody has
\* published to.
Snapshot ==
  \E s \in Sessions \ {session} : \E f \in Feed[s] \cup {<<>>} :
    Receive(s, f, 0, loopSeq, snapshotSeq + 1, "seen")

\* A snapshot, on reconnecting: the clip has gone on, or has begun again meanwhile
\* and is "back" before the last clock or "round" to a later one. Neither is a wrap
\* to applyMessage: only a frame counts one.
Reconnect ==
  /\ session # Nil
  /\ \E f \in Feed[session] \cup {<<>>} :
       \/ \E pass \in {"same", "round"} :
            Receive(session, f, timeMs + 1, loopSeq, snapshotSeq + 1, pass)
       \/ timeMs > 0 /\ Receive(session, f, 0, loopSeq, snapshotSeq + 1, "back")

\* The static demo is scrubbed back: the state is folded again from the start, and
\* counts no wrap.
ScrubBack == session # Nil /\ timeMs > 0 /\ \E f \in Feed[session] :
  Receive(session, f, timeMs - 1, 0, snapshotSeq, IF loopSeq = 0 THEN "back" ELSE "seen")

\* The pointer holds the order while it is over the table.
PointerEnter ==
  /\ cars # <<>> /\ heldOrder = Nil
  /\ heldOrder' = Numbers(live)
  /\ UNCHANGED <<raceVars, foldVars, selected, drawn>>

PointerLeave ==
  /\ heldOrder # Nil /\ heldOrder' = Nil
  /\ UNCHANGED <<raceVars, foldVars, selected, drawn>>

\* onSelect: the selected row's own button, or the Clear button, deselects.
Select(d) ==
  /\ d \in DOMAIN cars
  /\ selected' = IF selected = d THEN Nil ELSE d
  /\ Memo(Props(cars, Stints[session], snapshotSeq, selected'))
  /\ UNCHANGED <<raceVars, foldVars, heldOrder>>

TowerNext ==
  \/ Frame \/ Wrap \/ Snapshot \/ Reconnect \/ ScrubBack
  \/ PointerEnter \/ PointerLeave
  \/ \E d \in AllDrivers : Select(d)

TowerSpec == TowerInit /\ [][TowerNext]_towerVars

-----------------------------------------------------------------------------
\* The cells of row i of a table.
GapCell(rows, gaps, i, seconds) ==
  LET c == rows[i]  status == statusLabel(c.status)
  IN  IF status # Dash THEN status
      ELSE IF i > 1 /\ hasNoData(c) THEN <<"NO DATA">>
      ELSE gapLabel(gaps[i].gapMs, c.gapLaps, i = 1, seconds, c.lastLapMs)

IntCell(rows, gaps, i, seconds) ==
  LET c == rows[i]
  IN  IF statusLabel(c.status) # Dash \/ i = 1 \/ hasNoData(c) THEN Dash
      ELSE intLabel(c.gapLaps, rows[i - 1].gapLaps, gaps[i].intMs,
                    FALSE, seconds, c.lastLapMs, rows[i - 1].lastLapMs)

Mark(d, i) ==
  sectorMark(cars[d].sectors[i], bestSectors(order)[i], personalBestOf(pb, d, i))

\* cellDelta: against the reference car, or the driver's own best.
Delta(d, i) ==
  IF selected \in DOMAIN cars /\ d # selected
  THEN sectorDeltaVs(cars[d].sectors[i], cars[selected].sectors[i])
  ELSE sectorDelta(cars[d].sectors[i], personalBestOf(pb, d, i))

-----------------------------------------------------------------------------
Readings(from, d, R(_)) == {R(c) : c \in {e \in from : e.driverNum = d}}

\* Green means that the driver has been slower in this pass of the clip and never
\* faster, and it never stands beside a deficit. Where the board did not notice
\* that the pass began (a snapshot brought it, or a scrub), the bests of the pass
\* before are still standing: then only that no time of this pass is faster.
GreenIsEarned ==
  \A d \in DOMAIN cars : \A i \in Sectors :
    Mark(d, i) = "P" =>
      LET own == cars[d].sectors[i]
          ts  == Readings(passCars, d, LAMBDA c : c.sectors[i]) \ {0}
      IN  /\ \A t \in ts : own <= t
          /\ missed = "nothing" => \E t \in ts : own < t
          /\ selected \notin DOMAIN cars => Delta(d, i) = Nil

\* The two estimated columns agree with each other: where a row and the row ahead
\* both print a gap, it is not smaller, and an interval is their difference.
ColumnsAgree ==
  LET rows == order  gaps == displayGaps(rows, smoothing)
  IN  \A seconds \in BOOLEAN : \A i \in 3 .. Len(rows) :
        LET ahead == GapCell(rows, gaps, i - 1, seconds)
            own   == GapCell(rows, gaps, i, seconds)
            int   == IntCell(rows, gaps, i, seconds)
        IN  ahead[1] = "TIME" /\ own[1] = "TIME" =>
              own[2] >= ahead[2] /\ (int[1] = "TIME" => int[2] = own[2] - ahead[2])

\* The chart that the memo keeps is the one that rendering it now would draw.
ChartFresh ==
  session # Nil => Chart(drawn) = Chart(Props(cars, Stints[session], snapshotSeq, selected))

\* Nothing, or a time between two of these.
Among(ms, readings) == ms # Nil => \E a, b \in readings \ {Nil} : a <= ms /\ ms <= b

TowerFoldsOnly(from) ==
  /\ \A d \in DOMAIN pb : \A i \in Sectors :
       LET ts == Readings(from, d, LAMBDA c : c.sectors[i])
       IN  pb[d][i].last \in ts \cup {0} /\ pb[d][i].best \in ts \cup {Infinity}
  /\ \A d \in DOMAIN smoothingRef :
       LET w    == smoothingRef[d]
           gaps == Readings(from, d, LAMBDA c : c.gapMs)
           ints == Readings(from, d, LAMBDA c : c.intMs)
       IN  /\ Range(w.gaps) \subseteq gaps /\ Among(w.shownGap, gaps)
           /\ Range(w.ints) \subseteq ints /\ Among(w.shownInt, ints)

HistoriesOnly(from) ==
  /\ \A d \in DOMAIN lapHistory :
       Range(lapHistory[d]) \subseteq Readings(from, d, LAMBDA c : c.lastLapMs)
  /\ \A d \in DOMAIN gapHistory :
       /\ gapHistory[d].lap \in Readings(from, d, LAMBDA c : c.lap)
       /\ Range(gapHistory[d].gaps) \subseteq Readings(from, d, LAMBDA c : c.gapMs)

\* What is folded into the bests, the smoothing windows and the histories of a driver
\* are readings of that driver, of this session, and of this pass of its clip where
\* the board could notice that it began: the tower by a wrap in the frames, the
\* histories by the clock. What the tower draws (smoothing) may outlive its window.
NoBleed ==
  /\ TowerFoldsOnly(IF missed = "nothing" THEN passCars ELSE sessionCars)
  /\ HistoriesOnly(IF missed = "round" THEN sessionCars ELSE passCars)
=============================================================================
