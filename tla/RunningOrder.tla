---------------------------- MODULE RunningOrder ----------------------------
(***************************************************************************)
(* The order of the cars (web/src/components/timingHelpers.ts). A car is a *)
(* record; a lap that is absent is Nil, and lap 0 is a lap.                *)
(***************************************************************************)
EXTENDS Sorting, Sequences, SequencesExt, FiniteSetsExt, Functions

CONSTANT Nil

Or(x, default) == IF x = Nil THEN default ELSE x

\* Position, then laps completed, then driver number: positions may be equal.
byRunningOrder(a, b) ==
  \/ a.pos < b.pos
  \/ /\ a.pos = b.pos
     /\ \/ Or(a.lap, 0) > Or(b.lap, 0)
        \/ Or(a.lap, 0) = Or(b.lap, 0) /\ a.driverNum < b.driverNum

Pairs(cars) == Range(cars) \X Range(cars)

orderCars(cars) == Sorted(Range(cars), {p \in Pairs(cars) : byRunningOrder(p[1], p[2])})

\* Object.values: integer keys come in ascending order.
Values(cars) == Sorted(Range(cars), {p \in Pairs(cars) : p[1].driverNum < p[2].driverNum})

\* One walk over the cars instead of a sort.
leaderOf(cars) ==
  FoldLeft(LAMBDA leader, c : IF leader = Nil \/ byRunningOrder(c, leader) THEN c ELSE leader,
           Nil, Values(cars))

leaderLapOf(cars) == IF leaderOf(cars) = Nil THEN Nil ELSE leaderOf(cars).lap

sameRunningOrder_LeaderLap(a, b) == leaderLapOf(a) = leaderLapOf(b)

\* Whether two maps draw the same order, without sorting either.
sameRunningOrder(a, b) ==
  /\ DOMAIN a = DOMAIN b
  /\ \A d \in DOMAIN a : a[d].pos = b[d].pos /\ a[d].lap = b[d].lap

Ranked(row, held) ==
  IF row.driverNum \in Range(held)
  THEN CHOOSE i \in DOMAIN held : held[i] = row.driverNum ELSE Len(held) + 1

\* A held order: cars that were not in it keep their live order, at the end.
holdOrder(live, held) == StableSort(live, [i \in DOMAIN live |-> Ranked(live[i], held)])
=============================================================================
