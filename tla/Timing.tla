-------------------------------- MODULE Timing --------------------------------
(***************************************************************************)
(* The functions behind the timing views                                   *)
(* (web/src/components/timingHelpers.ts): sector bests, the rolling        *)
(* histories, and the gap columns.                                         *)
(*                                                                         *)
(* A car is a record. What the code tests by truth (a lap or a sector      *)
(* time) is 0 when absent; what it compares with null (lap, gapMs, intMs)  *)
(* is Nil. A formatted cell is a word and the number it prints.            *)
(***************************************************************************)
EXTENDS RunningOrder

CONSTANTS Infinity,          \* above every time
          GapWindow,         \* GAP_WINDOW
          Hysteresis,        \* GAP_HYSTERESIS_MS
          MaxHistory         \* MAX_LAP_HISTORY and MAX_GAP_HISTORY

ASSUME WindowAssumption == GapWindow \in Nat \ {0} /\ MaxHistory \in Nat \ {0}
ASSUME HysteresisAssumption == Hysteresis \in Nat /\ Infinity \in Nat
ASSUME MarkAssumption == Nil \notin {"S", "P"}

Capped(s, n) == IF Len(s) > n THEN SubSeq(s, Len(s) - n + 1, Len(s)) ELSE s

-----------------------------------------------------------------------------
Sectors == 1 .. 3

bestSectors(cars) ==
  [i \in Sectors |->
     Min({Infinity} \cup {c.sectors[i] : c \in {d \in Range(cars) : d.sectors[i] > 0}})]

NO_PBS == [i \in Sectors |-> [best |-> Infinity, last |-> 0, samples |-> 0]]
PB_MIN_SAMPLES == 2

foldSector_EveryFrame(prev, v) ==
  IF v = 0 THEN prev
  ELSE [best |-> Min({prev.best, v}), last |-> v, samples |-> prev.samples + 1]

\* The wire repeats a sector time in every frame: only a change is a sample.
foldSector(prev, v) ==
  IF v = 0 \/ v = prev.last THEN prev
  ELSE [best |-> Min({prev.best, v}), last |-> v, samples |-> prev.samples + 1]

updatePersonalBests(prev, cars) ==
  [d \in DOMAIN prev \cup DOMAIN cars |->
     LET cur == IF d \in DOMAIN prev THEN prev[d] ELSE NO_PBS
     IN  IF d \in DOMAIN cars
         THEN [i \in Sectors |-> foldSector(cur[i], cars[d].sectors[i])] ELSE cur]

personalBestOf(pb, d, i) ==
  IF d \in DOMAIN pb /\ pb[d][i].samples >= PB_MIN_SAMPLES THEN pb[d][i].best ELSE Infinity

\* sectorColour and sectorMark: the same answer as a colour and as a glyph.
sectorMark(v, sessionBest, personalBest) ==
  CASE v = 0 -> Nil
    [] v > 0 /\ v = sessionBest -> "S"
    [] v > 0 /\ v # sessionBest /\ v = personalBest -> "P"
    [] OTHER -> Nil

sectorDelta(v, personalBest) ==
  IF v = 0 \/ personalBest = Infinity \/ v <= personalBest THEN Nil ELSE v - personalBest

sectorDeltaVs(v, ref) == IF v = 0 \/ ref = 0 THEN Nil ELSE v - ref

-----------------------------------------------------------------------------
\* One gap reading per lap, however absent; and one lap time per change.
updateGapHistory(prev, cars) ==
  LET fresh(d) == /\ cars[d].lap # Nil
                  /\ d \in DOMAIN prev => cars[d].lap > prev[d].lap
  IN  [d \in DOMAIN prev \cup {e \in DOMAIN cars : fresh(e)} |->
         IF d \in DOMAIN cars /\ fresh(d)
         THEN [lap  |-> cars[d].lap,
               gaps |-> Capped(Append(IF d \in DOMAIN prev THEN prev[d].gaps ELSE <<>>,
                                      cars[d].gapMs), MaxHistory)]
         ELSE prev[d]]

updateLapHistory(prev, cars) ==
  LET hist(d) == IF d \in DOMAIN prev THEN prev[d] ELSE <<>>
      fresh(d) == cars[d].lastLapMs # 0 /\ (hist(d) = <<>> \/ Last(hist(d)) # cars[d].lastLapMs)
  IN  [d \in DOMAIN prev \cup {e \in DOMAIN cars : fresh(e)} |->
         IF d \in DOMAIN cars /\ fresh(d)
         THEN Capped(Append(hist(d), cars[d].lastLapMs), MaxHistory) ELSE prev[d]]

-----------------------------------------------------------------------------
\* Of an even window, the mean of the middle two (readings are even: it is exact).
median(xs) ==
  LET sorted == StableSort(xs, xs)
      mid == Len(xs) \div 2
  IN  CASE xs = <<>> -> Nil
        [] xs # <<>> /\ Len(xs) % 2 = 1 -> sorted[mid + 1]
        [] OTHER -> (sorted[mid] + sorted[mid + 1]) \div 2

\* The printed value stays until the median has really moved.
settle(xs, shown) ==
  LET m == median(xs)
  IN  IF m = Nil THEN shown
      ELSE IF shown = Nil \/ m - shown >= Hysteresis \/ shown - m >= Hysteresis THEN m ELSE shown

pushCapped(xs, v) == IF v = Nil THEN xs ELSE Capped(Append(xs, v), GapWindow)

NoSamples == [gaps |-> <<>>, ints |-> <<>>, shownGap |-> Nil, shownInt |-> Nil]

\* Both windows of every car that reports a gap or an interval.
updateGapSmoothing(prev, cars) ==
  LET reports(d) == cars[d].gapMs # Nil \/ cars[d].intMs # Nil
      cur(d) == IF d \in DOMAIN prev THEN prev[d] ELSE NoSamples
      gaps(d) == pushCapped(cur(d).gaps, cars[d].gapMs)
      ints(d) == pushCapped(cur(d).ints, cars[d].intMs)
  IN  [d \in DOMAIN prev \cup {e \in DOMAIN cars : reports(e)} |->
         IF d \in DOMAIN cars /\ reports(d)
         THEN [gaps |-> gaps(d), ints |-> ints(d),
               shownGap |-> settle(gaps(d), cur(d).shownGap),
               shownInt |-> settle(ints(d), cur(d).shownInt)]
         ELSE prev[d]]

RawGaps(c, sm) ==
  IF c.driverNum \in DOMAIN sm
  THEN <<sm[c.driverNum].shownGap, sm[c.driverNum].shownInt>> ELSE <<c.gapMs, c.intMs>>

displayGaps_Unclamped(order, sm) ==
  [i \in DOMAIN order |->
     IF i = 1 THEN [gapMs |-> Nil, intMs |-> Nil]
     ELSE [gapMs |-> RawGaps(order[i], sm)[1], intMs |-> RawGaps(order[i], sm)[2]]]

\* Row by row: a gap is at least the one in front, the interval is their
\* difference; behind a row without a gap both are what the estimator says.
displayGaps(order, sm) ==
  LET raw(i) == RawGaps(order[i], sm)[1]
      rawInt(i) == RawGaps(order[i], sm)[2]
      row[i \in DOMAIN order] ==
        LET prevGap == IF i = 2 THEN 0 ELSE row[i - 1].gapMs
            gap == Max({raw(i), prevGap})
        IN  CASE i = 1 -> [gapMs |-> Nil, intMs |-> Nil]
              [] i > 1 /\ raw(i) = Nil -> [gapMs |-> Nil, intMs |-> rawInt(i)]
              [] i > 1 /\ raw(i) # Nil /\ prevGap = Nil -> [gapMs |-> raw(i), intMs |-> rawInt(i)]
              [] OTHER -> [gapMs |-> gap, intMs |-> gap - prevGap]
  IN  row

-----------------------------------------------------------------------------
\* What a cell says. In seconds, a gap or an interval of zero is a dash.
Dash == <<"-">>
fmtGapEstimate(ms) == IF ms = Nil THEN Dash ELSE <<"TIME", ms>>
fmtLongGap(ms) == IF ms = Nil \/ ms = 0 THEN Dash ELSE <<"TIME", ms>>
fmt(secondsMode, ms) == IF secondsMode THEN fmtLongGap(ms) ELSE fmtGapEstimate(ms)

gapLabel(gapMs, gapLaps, isLeader, secondsMode, lastLapMs) ==
  IF isLeader THEN <<"LEADER">>
  ELSE IF lastLapMs = 0 THEN Dash
  ELSE IF ~secondsMode /\ gapLaps >= 1 THEN <<"LAPS", gapLaps>>
  ELSE fmt(secondsMode, gapMs)

intLabel(gapLaps, aheadGapLaps, intMs, isLeader, secondsMode, lastLapMs, aheadLastLapMs) ==
  IF isLeader \/ lastLapMs = 0 \/ aheadLastLapMs = 0 THEN Dash
  ELSE IF ~secondsMode /\ gapLaps - aheadGapLaps >= 1
       THEN <<"LAPS", gapLaps - aheadGapLaps>>
  ELSE fmt(secondsMode, intMs)

hasNoData(c) ==
  /\ c.lastLapMs = 0 /\ c.bestLapMs = 0 /\ c.gapMs = Nil
  /\ \A i \in Sectors : c.sectors[i] = 0

statusLabel(status) ==
  CASE status = "Pit" -> <<"IN PIT">> [] status = "Out" -> <<"OUT">> [] OTHER -> Dash
=============================================================================
