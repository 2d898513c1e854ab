--------------------------- MODULE RaceModelProofs ---------------------------
(***************************************************************************)
(* What the reducers of RaceModel return, for every snapshot and frame.    *)
(***************************************************************************)
EXTENDS RaceModel, ListProofs

\* A log cut to its last n entries is a log of the same kind, no longer than n,
\* with nothing in it that was not there.
LEMMA KeepLastFacts ==
  ASSUME NEW S, NEW log \in Seq(S), NEW n \in Nat
  PROVE  /\ KeepLast(log, n) \in Seq(S)
         /\ Len(KeepLast(log, n)) <= n
         /\ Range(KeepLast(log, n)) \subseteq Range(log)
<1>1. CASE Len(log) <= n
  BY <1>1 DEF KeepLast
<1>2. CASE Len(log) > n
  <2> DEFINE m == Len(log) - n + 1
  <2>1. m \in 1..(Len(log) + 1)
    BY <1>2
  <2>2. KeepLast(log, n) = SubSeq(log, m, Len(log))
    BY <1>2 DEF KeepLast
  <2>3. /\ SubSeq(log, m, Len(log)) \in Seq(S)
        /\ Len(SubSeq(log, m, Len(log))) = n
        /\ \A i \in 1..n : SubSeq(log, m, Len(log))[i] = log[m + i - 1]
    BY <1>2, <2>1
  <2>4. Range(SubSeq(log, m, Len(log))) \subseteq Range(log)
    BY <1>2, <2>1, <2>3 DEF Range
  <2> QED
    BY <2>2, <2>3, <2>4
<1> QED
  BY <1>1, <1>2

\* Merging the cars of a frame into those of a snapshot gives a car map with
\* the values of the two and no others.
LEMMA MergeCarsFacts ==
  ASSUME NEW s, NEW f, s.cars \in CarMaps, f.cars \in CarMaps
  PROVE  /\ MergeCars(s, f) \in CarMaps
         /\ Range(MergeCars(s, f)) \subseteq Range(s.cars) \cup Range(f.cars)
<1>1. PICK D \in SUBSET Drivers : s.cars \in [D -> Data]
  BY DEF CarMaps
<1>2. PICK E \in SUBSET Drivers : f.cars \in [E -> Data]
  BY DEF CarMaps
<1>3. MergeCars(s, f) \in [D \cup E -> Data]
  BY <1>1, <1>2 DEF MergeCars
<1>4. D \cup E \in SUBSET Drivers
  OBVIOUS
<1>5. MergeCars(s, f) \in CarMaps
  BY <1>3, <1>4 DEF CarMaps
<1>6. Range(MergeCars(s, f)) \subseteq Range(s.cars) \cup Range(f.cars)
  BY <1>1, <1>2 DEF MergeCars, Range
<1> QED
  BY <1>5, <1>6

LEMMA ConcatRange ==
  ASSUME NEW S, NEW p \in Seq(S), NEW q \in Seq(S)
  PROVE  /\ p \o q \in Seq(S)
         /\ Range(p \o q) \subseteq Range(p) \cup Range(q)
<1>1. /\ p \o q \in Seq(S)
      /\ DOMAIN (p \o q) = 1..(Len(p) + Len(q))
      /\ \A i \in 1..(Len(p) + Len(q)) :
           (p \o q)[i] = IF i <= Len(p) THEN p[i] ELSE q[i - Len(p)]
  OBVIOUS
<1>2. \A i \in 1..(Len(p) + Len(q)) : (p \o q)[i] \in Range(p) \cup Range(q)
  <2> SUFFICES ASSUME NEW i \in 1..(Len(p) + Len(q))
               PROVE  (p \o q)[i] \in Range(p) \cup Range(q)
    OBVIOUS
  <2>1. CASE i <= Len(p)
    <3>1. i \in DOMAIN p /\ (p \o q)[i] = p[i]
      BY <1>1, <2>1
    <3> QED BY <3>1 DEF Range
  <2>2. CASE i > Len(p)
    <3>1. i - Len(p) \in DOMAIN q /\ (p \o q)[i] = q[i - Len(p)]
      BY <1>1, <2>2
    <3> QED BY <3>1 DEF Range
  <2> QED BY <2>1, <2>2
<1> QED
  BY <1>1, <1>2 DEF Range

\* Whatever part of its own message log the caller carries over, folding a
\* frame gives a snapshot of the same lane with the frame's Rev, a message log
\* within its cap, and no payload that neither side had.
LEMMA FoldOntoFacts ==
  ASSUME NEW s \in Snapshots, NEW f \in Frames, NEW carried \in Seq(Data),
         Range(carried) \subseteq Range(s.messages)
  PROVE  LET t == FoldOnto(s, f, carried) IN
         /\ t \in Snapshots
         /\ t.session = s.session /\ t.header = s.header /\ t.rev = f.rev
         /\ Len(t.messages) <= MaxMessages
         /\ Carried(t) \subseteq Carried(s) \cup Carried(f)
<1> DEFINE t == FoldOnto(s, f, carried)
           cars == MergeCars(s, f)
           log == KeepLast(carried \o f.messages, MaxMessages)
           radio == s.radio \o f.radio
           weather == IF f.weather = Nil THEN s.weather ELSE f.weather
<1>1. /\ s.cars \in CarMaps /\ f.cars \in CarMaps
      /\ s.messages \in Seq(Data) /\ f.messages \in Seq(Data)
      /\ s.radio \in Seq(Data) /\ f.radio \in Seq(Data)
      /\ s.weather \in Data \cup {Nil} /\ f.weather \in Data \cup {Nil}
      /\ f.timeMs \in Int /\ f.rev \in Nat
  BY DEF Snapshots, Frames
<1>2. cars \in CarMaps /\ Range(cars) \subseteq Range(s.cars) \cup Range(f.cars)
  BY <1>1, MergeCarsFacts
<1>3. /\ carried \o f.messages \in Seq(Data)
      /\ Range(carried \o f.messages) \subseteq Range(s.messages) \cup Range(f.messages)
  BY <1>1, ConcatRange
<1>4. /\ log \in Seq(Data) /\ Len(log) <= MaxMessages
      /\ Range(log) \subseteq Range(s.messages) \cup Range(f.messages)
  BY <1>3, KeepLastFacts, MaxMessagesAssumption
<1>5. radio \in Seq(Data) /\ Range(radio) \subseteq Range(s.radio) \cup Range(f.radio)
  BY <1>1, ConcatRange
<1>6. t = [session |-> s.session, header |-> s.header, rev |-> f.rev,
           timeMs |-> f.timeMs, cars |-> cars, messages |-> log,
           radio |-> radio, weather |-> weather]
  <2>1. s = [session |-> s.session, header |-> s.header, rev |-> s.rev,
             timeMs |-> s.timeMs, cars |-> s.cars, messages |-> s.messages,
             radio |-> s.radio, weather |-> s.weather]
    BY DEF Snapshots
  <2>2. t = [s EXCEPT !.cars = cars, !.messages = log, !.radio = radio,
                      !.weather = weather, !.timeMs = f.timeMs, !.rev = f.rev]
    BY DEF FoldOnto
  <2> HIDE DEF t, cars, log, radio, weather
  <2> QED BY <2>1, <2>2
<1>7. t \in Snapshots
  <2> HIDE DEF cars, log, radio
  <2> QED BY <1>1, <1>2, <1>4, <1>5, <1>6 DEF Snapshots
<1>8. Carried(t) \subseteq Carried(s) \cup Carried(f)
  <2>1. {weather} \ {Nil} \subseteq ({s.weather} \ {Nil}) \cup ({f.weather} \ {Nil})
    OBVIOUS
  <2>2. Carried(t) = Range(cars) \cup Range(log) \cup Range(radio) \cup ({weather} \ {Nil})
    BY <1>6 DEF Carried
  <2> HIDE DEF t, cars, log, radio, weather
  <2> QED BY <1>2, <1>4, <1>5, <2>1, <2>2 DEF Carried
<1> HIDE DEF cars, log, radio, weather
<1> QED
  BY <1>4, <1>6, <1>7, <1>8

\* Apply and publish_clip's fold: the same, with the Rev never going back.
LEMMA ApplyFacts ==
  ASSUME NEW s \in Snapshots, NEW f \in Frames
  PROVE  LET t == Apply(s, f) IN
         /\ t \in Snapshots
         /\ t.session = s.session /\ t.header = s.header
         /\ t.rev = IF f.rev <= s.rev THEN s.rev ELSE f.rev
         /\ Carried(t) \subseteq Carried(s) \cup Carried(f)
<1>1. CASE Stale(s, f)
  BY <1>1 DEF Apply, Stale
<1>2. CASE ~Stale(s, f)
  <2> DEFINE carried == IF f.timeMs < s.timeMs THEN <<>> ELSE s.messages
  <2>1. carried \in Seq(Data) /\ Range(carried) \subseteq Range(s.messages)
    BY DEF Snapshots, Range
  <2>2. Apply(s, f) = FoldOnto(s, f, carried)
    BY <1>2 DEF Apply
  <2> HIDE DEF carried
  <2> QED BY <1>2, <2>1, <2>2, FoldOntoFacts DEF Stale
<1> QED
  BY <1>1, <1>2

LEMMA PublishClipFoldFacts ==
  ASSUME NEW s \in Snapshots, NEW f \in Frames
  PROVE  LET t == PublishClipFold(s, f) IN
         /\ t \in Snapshots
         /\ t.session = s.session /\ t.header = s.header /\ t.rev = f.rev
         /\ Carried(t) \subseteq Carried(s) \cup Carried(f)
<1>1. s.messages \in Seq(Data)
  BY DEF Snapshots
<1> QED
  BY <1>1, FoldOntoFacts DEF PublishClipFold

\* The snapshot of a lane that nobody has published yet.
LEMMA NewSnapshotFacts ==
  ASSUME NEW s \in Sessions
  PROVE  /\ NewSnapshot(s) \in Snapshots
         /\ Carried(NewSnapshot(s)) = {}
<1>1. <<>> \in CarMaps
  <2>1. <<>> \in [{} -> Data]
    OBVIOUS
  <2> QED BY <2>1 DEF CarMaps
<1>2. NewSnapshot(s) \in Snapshots
  BY <1>1 DEF NewSnapshot, Snapshots
<1>3. Carried(NewSnapshot(s)) = {}
  BY DEF NewSnapshot, Carried, Range
<1> QED
  BY <1>2, <1>3

\* A stamped clip line is a frame of the lane with the line's payloads.
LEMMA StampFacts ==
  ASSUME NEW s \in Sessions, NEW r \in Nat, NEW body \in Bodies
  PROVE  /\ Stamp(s, r, body) \in Frames
         /\ Stamp(s, r, body).session = s /\ Stamp(s, r, body).rev = r
         /\ Carried(Stamp(s, r, body)) = Carried(body)
<1>1. Stamp(s, r, body) \in Frames
  BY DEF Stamp, Frames, Bodies
<1> QED
  BY <1>1 DEF Stamp, Carried

-----------------------------------------------------------------------------
(* Folding a sequence of frames *)

ApplyStep == [p \in Snapshots \X Frames |-> Apply(p[1], p[2])]

LEMMA ApplyIsStep == IsStep(Snapshots, Frames, ApplyStep)
<1>1. \A p \in Snapshots \X Frames : Apply(p[1], p[2]) \in Snapshots
  BY ApplyFacts
<1> QED
  BY <1>1 DEF ApplyStep, IsStep

\* The recursive function that Folded is written with is a run of Apply.
LEMMA FoldedRun ==
  ASSUME NEW s \in Snapshots, NEW q \in Seq(Frames)
  PROVE  Folded(s, q) = RunOf(Snapshots, ApplyStep, s, q)
<1> DEFINE n == Len(q)
           IsFold(g) == g = [i \in 0..n |-> IF i = 0 THEN s ELSE Apply(g[i - 1], q[i])]
           fold == CHOOSE g : IsFold(g)
<1>1. n \in Nat /\ \A i \in 1..n : q[i] \in Frames
  OBVIOUS
<1>2. PICK c : Steps(c, Snapshots, ApplyStep, s, q)
  BY ApplyIsStep, StepsExist
<1>3. /\ c \in [0..n -> Snapshots] /\ c[0] = s
      /\ \A i \in 1..n : c[i] = Apply(c[i - 1], q[i])
  <2>1. /\ c \in [0..n -> Snapshots] /\ c[0] = s
        /\ \A i \in 1..n : c[i] = ApplyStep[<<c[i - 1], q[i]>>]
    BY <1>2 DEF Steps
  <2>2. \A i \in 1..n : c[i - 1] \in Snapshots
    BY <1>1, <2>1
  <2>3. \A x \in Snapshots, f \in Frames : ApplyStep[<<x, f>>] = Apply(x, f)
    BY DEF ApplyStep
  <2> HIDE DEF n
  <2> QED BY <1>1, <2>1, <2>2, <2>3
<1> HIDE DEF n
<1>4. IsFold(c)
  <2>1. \A i \in 0..n : c[i] = IF i = 0 THEN s ELSE Apply(c[i - 1], q[i])
    BY <1>1, <1>3
  <2> QED BY <1>3, <2>1
<1>5. IsFold(fold)
  BY <1>4
<1> HIDE DEF fold
<1>6. /\ fold[0] = s
      /\ \A i \in 1..n : fold[i] = Apply(fold[i - 1], q[i])
  BY <1>1, <1>5
<1> DEFINE K == {i \in 0..n : fold[i] = c[i]}
<1>7. ASSUME NEW i \in 0..(n - 1), i \in K PROVE i + 1 \in K
  <2>1. i + 1 \in 1..n /\ (i + 1) - 1 = i /\ i + 1 \in 0..n
    BY <1>1
  <2>2. fold[i + 1] = Apply(fold[i], q[i + 1]) /\ c[i + 1] = Apply(c[i], q[i + 1])
    BY <1>3, <1>6, <2>1
  <2> QED BY <1>7, <2>1, <2>2
<1>8. 0 \in K
  BY <1>1, <1>3, <1>6
<1>9. 0..n \subseteq K
  <2> HIDE DEF K
  <2> QED BY <1>1, <1>7, <1>8, UpTo
<1>10. fold[n] = c[n]
  BY <1>1, <1>9
<1>11. Folded(s, q) = fold[n]
  BY DEF Folded, fold, n
<1>12. RunOf(Snapshots, ApplyStep, s, q) = c[n]
  BY <1>2, RunIs DEF n
<1> QED
  BY <1>10, <1>11, <1>12

\* Folding frames: none, one more at the end, a single one, one sequence after another.
LEMMA FoldedFacts ==
  ASSUME NEW s \in Snapshots
  PROVE  /\ Folded(s, <<>>) = s
         /\ \A f \in Frames : Folded(s, <<f>>) = Apply(s, f)
         /\ \A q \in Seq(Frames) :
              /\ Folded(s, q) \in Snapshots
              /\ \A f \in Frames : Folded(s, Append(q, f)) = Apply(Folded(s, q), f)
         /\ \A p, q \in Seq(Frames) : Folded(s, p \o q) = Folded(Folded(s, p), q)
<1>1. \A x \in Snapshots, q \in Seq(Frames) : Folded(x, q) = RunOf(Snapshots, ApplyStep, x, q)
  BY FoldedRun
<1>2. \A q \in Seq(Frames) : RunOf(Snapshots, ApplyStep, s, q) \in Snapshots
  BY ApplyIsStep, RunType
<1>3. Folded(s, <<>>) = s
  <2>1. <<>> \in Seq(Frames)
    OBVIOUS
  <2> QED BY <1>1, <2>1, RunEmpty, Zenon
<1>4. ASSUME NEW q \in Seq(Frames), NEW f \in Frames
      PROVE  Folded(s, Append(q, f)) = Apply(Folded(s, q), f)
  <2>1. Append(q, f) \in Seq(Frames)
    OBVIOUS
  <2>2. RunOf(Snapshots, ApplyStep, s, Append(q, f))
          = ApplyStep[<<RunOf(Snapshots, ApplyStep, s, q), f>>]
    BY ApplyIsStep, RunAppend
  <2>3. \A x \in Snapshots : ApplyStep[<<x, f>>] = Apply(x, f)
    BY DEF ApplyStep
  <2>4. Folded(s, Append(q, f)) = ApplyStep[<<Folded(s, q), f>>]
    BY <1>1, <2>1, <2>2, Zenon
  <2>5. Folded(s, q) \in Snapshots
    BY <1>1, <1>2, Zenon
  <2> QED BY <2>3, <2>4, <2>5
<1>5. ASSUME NEW p \in Seq(Frames), NEW q \in Seq(Frames)
      PROVE  Folded(s, p \o q) = Folded(Folded(s, p), q)
  <2>1. p \o q \in Seq(Frames)
    OBVIOUS
  <2>2. RunOf(Snapshots, ApplyStep, s, p \o q)
          = RunOf(Snapshots, ApplyStep, RunOf(Snapshots, ApplyStep, s, p), q)
    BY ApplyIsStep, RunConcat
  <2> QED BY <1>1, <1>2, <2>1, <2>2, Zenon
<1>6. ASSUME NEW f \in Frames PROVE Folded(s, <<f>>) = Apply(s, f)
  <2>1. <<f>> = Append(<<>>, f) /\ <<>> \in Seq(Frames)
    OBVIOUS
  <2>2. Folded(s, Append(<<>>, f)) = Apply(Folded(s, <<>>), f)
    BY <1>4, <2>1, Zenon
  <2> QED BY <1>3, <2>1, <2>2
<1>7. \A q \in Seq(Frames) : Folded(s, q) \in Snapshots
  BY <1>1, <1>2, Zenon
<1> QED
  BY <1>3, <1>4, <1>5, <1>6, <1>7

\* Folding keeps what no frame carries: the lane and the header.
LEMMA FoldedKeeps ==
  ASSUME NEW s \in Snapshots, NEW q \in Seq(Frames)
  PROVE  Folded(s, q).session = s.session /\ Folded(s, q).header = s.header
<1> DEFINE T == {r \in Seq(Frames) :
                   Folded(s, r).session = s.session /\ Folded(s, r).header = s.header}
<1>1. <<>> \in T
  <2>1. <<>> \in Seq(Frames)
    OBVIOUS
  <2> QED BY <2>1, FoldedFacts
<1>2. ASSUME NEW r \in Seq(Frames), NEW f \in Frames, r \in T PROVE Append(r, f) \in T
  <2>1. Append(r, f) \in Seq(Frames)
    OBVIOUS
  <2>2. Folded(s, r) \in Snapshots /\ Folded(s, Append(r, f)) = Apply(Folded(s, r), f)
    BY FoldedFacts
  <2>3. /\ Apply(Folded(s, r), f).session = Folded(s, r).session
        /\ Apply(Folded(s, r), f).header = Folded(s, r).header
    BY <2>2, ApplyFacts
  <2> QED BY <1>2, <2>1, <2>2, <2>3
<1>3. Seq(Frames) \subseteq T
  <2> HIDE DEF T
  <2> QED BY <1>1, <1>2, AppendInduction
<1> QED
  BY <1>3

\* Frames at or below the snapshot's Rev change nothing, however many there are.
LEMMA FoldedStale ==
  ASSUME NEW s \in Snapshots, NEW q \in Seq(Frames), \A i \in DOMAIN q : q[i].rev <= s.rev
  PROVE  Folded(s, q) = s
<1> DEFINE Low == {f \in Frames : f.rev <= s.rev}
           T == {r \in Seq(Low) : Folded(s, r) = s}
<1>1. Seq(Low) \subseteq Seq(Frames) /\ q \in Seq(Low)
  OBVIOUS
<1>2. <<>> \in T
  <2>1. <<>> \in Seq(Low)
    OBVIOUS
  <2> QED BY <2>1, FoldedFacts
<1>3. ASSUME NEW r \in Seq(Low), NEW f \in Low, r \in T PROVE Append(r, f) \in T
  <2>1. Append(r, f) \in Seq(Low) /\ r \in Seq(Frames) /\ f \in Frames
    BY <1>1
  <2>2. Folded(s, r) = s
    BY <1>3
  <2>3. Folded(s, Append(r, f)) = Apply(Folded(s, r), f)
    <3> HIDE DEF T, Low
    <3> QED BY <2>1, FoldedFacts
  <2>4. Apply(s, f) = s
    BY DEF Apply, Stale
  <2> QED BY <2>1, <2>2, <2>3, <2>4
<1>4. Seq(Low) \subseteq T
  <2> HIDE DEF T, Low
  <2> QED BY <1>2, <1>3, AppendInduction
<1> QED
  BY <1>1, <1>4

\* One snapshot tracks another: whatever frames carry is the same in the two, and
\* if it has a header at all, everything is.
Tracks(a, b) == FrameFields(a) = FrameFields(b) /\ (a.header # Nil => a = b)

LEMMA TracksApply ==
  ASSUME NEW a \in Snapshots, NEW b \in Snapshots, NEW f \in Frames, Tracks(a, b)
  PROVE  Tracks(Apply(a, f), Apply(b, f))
<1>1. CASE a = b
  BY <1>1 DEF Tracks
<1>2. CASE a.header = Nil
  <2>1. /\ a.session = b.session /\ a.rev = b.rev /\ a.timeMs = b.timeMs
        /\ a.cars = b.cars /\ a.messages = b.messages /\ a.weather = b.weather
    <3>1. \A x \in Snapshots :
            /\ FrameFields(x).session = x.session /\ FrameFields(x).rev = x.rev
            /\ FrameFields(x).timeMs = x.timeMs /\ FrameFields(x).cars = x.cars
            /\ FrameFields(x).messages = x.messages /\ FrameFields(x).weather = x.weather
      BY DEF FrameFields, Snapshots
    <3> QED BY <3>1 DEF Tracks
  <2>2. Apply(a, f).header = Nil
    BY <1>2, ApplyFacts
  <2>3. CASE Stale(a, f)
    BY <2>1, <2>3, <1>2 DEF Apply, Stale, Tracks
  <2>4. CASE ~Stale(a, f)
    <3> DEFINE carried == IF f.timeMs < a.timeMs THEN <<>> ELSE a.messages
    <3>1. Apply(a, f) = FoldOnto(a, f, carried) /\ Apply(b, f) = FoldOnto(b, f, carried)
      BY <2>1, <2>4 DEF Apply, Stale
    <3>2. MergeCars(a, f) = MergeCars(b, f)
      BY <2>1 DEF MergeCars
    <3>3. ASSUME NEW x \in Snapshots
          PROVE  /\ FoldOnto(x, f, carried).session = x.session
                 /\ FoldOnto(x, f, carried).rev = f.rev
                 /\ FoldOnto(x, f, carried).timeMs = f.timeMs
                 /\ FoldOnto(x, f, carried).cars = MergeCars(x, f)
                 /\ FoldOnto(x, f, carried).messages
                      = KeepLast(carried \o f.messages, MaxMessages)
                 /\ FoldOnto(x, f, carried).weather
                      = IF f.weather = Nil THEN x.weather ELSE f.weather
      BY DEF FoldOnto, Snapshots
    <3> HIDE DEF carried
    <3>4. FrameFields(Apply(a, f)) = FrameFields(Apply(b, f))
      BY <2>1, <3>1, <3>2, <3>3 DEF FrameFields
    <3> QED BY <2>2, <3>4 DEF Tracks
  <2> QED BY <2>3, <2>4
<1> QED
  BY <1>1, <1>2 DEF Tracks

-----------------------------------------------------------------------------
(* The browser's reducer *)

\* A frame folded into the browser's state, field by field.
LEMMA StateFoldFacts ==
  ASSUME NEW s \in RaceStates, NEW f \in Frames, NEW carried \in Seq(Data)
  PROVE  LET t == FoldOnto(s, f, carried) IN
         /\ t \in RaceStates
         /\ Shown(t) = FoldOnto(Shown(s), f, carried)
         /\ t.snapshotSeq = s.snapshotSeq
<1> DEFINE t == FoldOnto(s, f, carried)
           cars == MergeCars(s, f)
           log == KeepLast(carried \o f.messages, MaxMessages)
           radio == s.radio \o f.radio
           weather == IF f.weather = Nil THEN s.weather ELSE f.weather
           x == Shown(s)
<1>1. /\ s.cars \in CarMaps /\ f.cars \in CarMaps /\ f.messages \in Seq(Data)
      /\ s.radio \in Seq(Data) /\ f.radio \in Seq(Data)
      /\ s.weather \in Data \cup {Nil} /\ f.weather \in Data \cup {Nil}
      /\ f.timeMs \in Int /\ f.rev \in Nat
  BY DEF RaceStates, Frames
<1>2. cars \in CarMaps
  BY <1>1, MergeCarsFacts
<1>3. carried \o f.messages \in Seq(Data) /\ radio \in Seq(Data)
  BY <1>1
<1>4. log \in Seq(Data)
  BY <1>3, KeepLastFacts, MaxMessagesAssumption
<1>5. t = [session |-> s.session, header |-> s.header, rev |-> f.rev,
           timeMs |-> f.timeMs, cars |-> cars, messages |-> log,
           radio |-> radio, weather |-> weather,
           snapshotSeq |-> s.snapshotSeq, loopSeq |-> s.loopSeq]
  <2>1. s = [session |-> s.session, header |-> s.header, rev |-> s.rev,
             timeMs |-> s.timeMs, cars |-> s.cars, messages |-> s.messages,
             radio |-> s.radio, weather |-> s.weather,
             snapshotSeq |-> s.snapshotSeq, loopSeq |-> s.loopSeq]
    BY DEF RaceStates
  <2>2. t = [s EXCEPT !.cars = cars, !.messages = log, !.radio = radio,
                      !.weather = weather, !.timeMs = f.timeMs, !.rev = f.rev]
    BY DEF FoldOnto
  <2> HIDE DEF t, cars, log, radio, weather
  <2> QED BY <2>1, <2>2
<1>6. t \in RaceStates
  <2>1. weather \in Data \cup {Nil}
    BY <1>1
  <2> HIDE DEF cars, log, radio, weather
  <2> QED BY <1>1, <1>2, <1>3, <1>4, <1>5, <2>1 DEF RaceStates
<1>7. FoldOnto(x, f, carried)
        = [session |-> s.session, header |-> s.header, rev |-> f.rev,
           timeMs |-> f.timeMs, cars |-> cars, messages |-> log,
           radio |-> radio, weather |-> weather]
  <2>1. FoldOnto(x, f, carried)
          = [x EXCEPT !.cars = MergeCars(x, f), !.messages = log, !.radio = x.radio \o f.radio,
                      !.weather = IF f.weather = Nil THEN x.weather ELSE f.weather,
                      !.timeMs = f.timeMs, !.rev = f.rev]
    BY DEF FoldOnto
  <2>2. x = [session |-> s.session, header |-> s.header, rev |-> s.rev,
             timeMs |-> s.timeMs, cars |-> s.cars, messages |-> s.messages,
             radio |-> s.radio, weather |-> s.weather]
    BY DEF Shown
  <2>3. MergeCars(x, f) = cars
    BY <2>2 DEF MergeCars
  <2>4. x.radio = s.radio /\ x.weather = s.weather
    <3> HIDE DEF x
    <3> QED BY <2>2
  <2>5. /\ x.radio \o f.radio = radio
        /\ (IF f.weather = Nil THEN x.weather ELSE f.weather) = weather
    <3> HIDE DEF x
    <3> QED BY <2>4
  <2> HIDE DEF x, cars, log, radio, weather
  <2> QED BY <2>1, <2>2, <2>3, <2>5, ZenonT(60)
<1>8. Shown(t) = FoldOnto(x, f, carried)
  <2> HIDE DEF x, cars, log, radio, weather
  <2> QED BY <1>5, <1>7 DEF Shown
<1>9. t.snapshotSeq = s.snapshotSeq
  <2> HIDE DEF x, cars, log, radio, weather
  <2> QED BY <1>5
<1> QED
  BY <1>6, <1>8, <1>9

\* A snapshot shown is the snapshot, and it is one more.
LEMMA ReplaceFacts ==
  ASSUME NEW s \in RaceStates, NEW snap \in Snapshots
  PROVE  /\ Replace(s, snap) \in RaceStates
         /\ Shown(Replace(s, snap)) = snap
<1>1. Shown(Replace(s, snap))
        = [session |-> snap.session, header |-> snap.header, rev |-> snap.rev,
           timeMs |-> snap.timeMs, cars |-> snap.cars, messages |-> snap.messages,
           radio |-> snap.radio, weather |-> snap.weather]
  BY DEF Shown, Replace, RaceState
<1>2. Shown(Replace(s, snap)) = snap
  BY <1>1 DEF Snapshots
<1>3. Replace(s, snap) \in RaceStates
  BY DEF Replace, RaceState, RaceStates, Snapshots
<1> QED
  BY <1>2, <1>3

LEMMA EmptyStateFacts == EmptyState \in RaceStates /\ EmptyState.snapshotSeq = 0
<1>1. <<>> \in CarMaps
  <2>1. <<>> \in [{} -> Data]
    OBVIOUS
  <2> QED BY <2>1 DEF CarMaps
<1> QED
  BY <1>1 DEF EmptyState, RaceState, NewSnapshot, RaceStates

LEMMA ApplyFrameMsgFacts ==
  ASSUME NEW s \in RaceStates, NEW f \in Frames
  PROVE  ApplyFrameMsg(s, f) \in RaceStates
<1>1. CASE Stale(s, f)
  BY <1>1 DEF ApplyFrameMsg
<1>2. CASE ~Stale(s, f)
  <2> DEFINE carried == IF Looped(s, f) THEN <<>> ELSE s.messages
             t == FoldOnto(s, f, carried)
             loops == IF Looped(s, f) THEN t.loopSeq + 1 ELSE t.loopSeq
  <2>1. carried \in Seq(Data)
    BY DEF RaceStates
  <2>2. t \in RaceStates
    <3> HIDE DEF carried
    <3> QED BY <2>1, StateFoldFacts
  <2>3. ApplyFrameMsg(s, f) = [t EXCEPT !.loopSeq = loops]
    BY <1>2 DEF ApplyFrameMsg
  <2> HIDE DEF t
  <2>4. loops \in Nat
    BY <2>2 DEF RaceStates
  <2> HIDE DEF loops
  <2> QED BY <2>2, <2>3, <2>4 DEF RaceStates
<1> QED
  BY <1>1, <1>2

\* The browser folds a frame as the hub does, unless the clock went back by no more
\* than LOOP_REWIND_MS.
LEMMA SameFold ==
  ASSUME NEW s \in RaceStates, NEW a \in Snapshots, Shown(s) = a,
         NEW f \in Frames, ~Stale(a, f),
         f.timeMs < a.timeMs => a.rev > 0 /\ f.timeMs < a.timeMs - LoopRewind
  PROVE  Shown(ApplyFrameMsg(s, f)) = Apply(a, f)
<1> DEFINE carried == IF Looped(s, f) THEN <<>> ELSE s.messages
           t == FoldOnto(s, f, carried)
<1>1. a.rev = s.rev /\ a.timeMs = s.timeMs /\ a.messages = s.messages
  BY DEF Shown
<1>2. a.timeMs \in Int /\ f.timeMs \in Int
  BY DEF Snapshots, Frames
<1>3. Looped(s, f) <=> f.timeMs < a.timeMs
  BY <1>1, <1>2, LoopRewindAssumption DEF Looped
<1>4. carried = (IF f.timeMs < a.timeMs THEN <<>> ELSE a.messages) /\ carried \in Seq(Data)
  BY <1>1, <1>3 DEF RaceStates
<1>5. Apply(a, f) = FoldOnto(a, f, carried)
  BY <1>4 DEF Apply
<1>6. ApplyFrameMsg(s, f) = [t EXCEPT !.loopSeq = IF Looped(s, f) THEN @ + 1 ELSE @]
  BY <1>1 DEF ApplyFrameMsg, Stale
<1> HIDE DEF carried
<1>7. t \in RaceStates /\ Shown(t) = FoldOnto(a, f, carried)
  BY <1>4, StateFoldFacts
<1> HIDE DEF t
<1>8. Shown(ApplyFrameMsg(s, f)) = Shown(t)
  BY <1>6, <1>7 DEF Shown, RaceStates
<1> QED
  BY <1>5, <1>7, <1>8

-----------------------------------------------------------------------------
(* The browser reading envelopes, one by one *)

LEMMA ApplyMessageFacts ==
  ASSUME NEW s \in RaceStates, NEW m \in Envelopes
  PROVE  ApplyMessage(s, m) \in RaceStates
<1>1. CASE m.type = "snapshot"
  <2>1. m.data \in Snapshots
    BY <1>1 DEF Envelopes
  <2> QED BY <1>1, <2>1, ReplaceFacts DEF ApplyMessage
<1>2. CASE m.type = "frame"
  <2>1. m.data \in Frames /\ m.type # "snapshot"
    BY <1>2 DEF Envelopes
  <2> QED BY <1>2, <2>1, ApplyFrameMsgFacts DEF ApplyMessage
<1> QED
  BY <1>1, <1>2 DEF Envelopes

MessageStep == [p \in RaceStates \X Envelopes |-> ApplyMessage(p[1], p[2])]

LEMMA MessageIsStep == IsStep(RaceStates, Envelopes, MessageStep)
<1>1. \A p \in RaceStates \X Envelopes : ApplyMessage(p[1], p[2]) \in RaceStates
  BY ApplyMessageFacts
<1> QED
  BY <1>1 DEF MessageStep, IsStep

\* The recursive function that Received is written with is a run of applyMessage.
LEMMA ReceivedRun ==
  ASSUME NEW s \in RaceStates, NEW q \in Seq(Envelopes)
  PROVE  Received(s, q) = RunOf(RaceStates, MessageStep, s, q)
<1> DEFINE n == Len(q)
           IsFold(g) == g = [i \in 0..n |-> IF i = 0 THEN s ELSE ApplyMessage(g[i - 1], q[i])]
           fold == CHOOSE g : IsFold(g)
<1>1. n \in Nat /\ \A i \in 1..n : q[i] \in Envelopes
  OBVIOUS
<1>2. PICK c : Steps(c, RaceStates, MessageStep, s, q)
  BY MessageIsStep, StepsExist
<1>3. /\ c \in [0..n -> RaceStates] /\ c[0] = s
      /\ \A i \in 1..n : c[i] = ApplyMessage(c[i - 1], q[i])
  <2>1. /\ c \in [0..n -> RaceStates] /\ c[0] = s
        /\ \A i \in 1..n : c[i] = MessageStep[<<c[i - 1], q[i]>>]
    BY <1>2 DEF Steps
  <2>2. \A i \in 1..n : c[i - 1] \in RaceStates
    BY <1>1, <2>1
  <2>3. \A x \in RaceStates, m \in Envelopes : MessageStep[<<x, m>>] = ApplyMessage(x, m)
    BY DEF MessageStep
  <2> HIDE DEF n
  <2> QED BY <1>1, <2>1, <2>2, <2>3
<1> HIDE DEF n
<1>4. IsFold(c)
  <2>1. \A i \in 0..n : c[i] = IF i = 0 THEN s ELSE ApplyMessage(c[i - 1], q[i])
    BY <1>1, <1>3
  <2> QED BY <1>3, <2>1
<1>5. IsFold(fold)
  BY <1>4
<1> HIDE DEF fold
<1>6. /\ fold[0] = s
      /\ \A i \in 1..n : fold[i] = ApplyMessage(fold[i - 1], q[i])
  BY <1>1, <1>5
<1> DEFINE K == {i \in 0..n : fold[i] = c[i]}
<1>7. ASSUME NEW i \in 0..(n - 1), i \in K PROVE i + 1 \in K
  <2>1. i + 1 \in 1..n /\ (i + 1) - 1 = i /\ i + 1 \in 0..n
    BY <1>1
  <2>2. fold[i + 1] = ApplyMessage(fold[i], q[i + 1]) /\ c[i + 1] = ApplyMessage(c[i], q[i + 1])
    BY <1>3, <1>6, <2>1
  <2> QED BY <1>7, <2>1, <2>2
<1>8. 0 \in K
  BY <1>1, <1>3, <1>6
<1>9. 0..n \subseteq K
  <2> HIDE DEF K
  <2> QED BY <1>1, <1>7, <1>8, UpTo
<1>10. fold[n] = c[n]
  BY <1>1, <1>9
<1>11. Received(s, q) = fold[n]
  BY DEF Received, fold, n
<1>12. RunOf(RaceStates, MessageStep, s, q) = c[n]
  BY <1>2, RunIs DEF n
<1> QED
  BY <1>10, <1>11, <1>12

\* Reading envelopes: none, one more at the end, a single one, one sequence after another.
LEMMA ReceivedFacts ==
  ASSUME NEW s \in RaceStates
  PROVE  /\ Received(s, <<>>) = s
         /\ \A m \in Envelopes : Received(s, <<m>>) = ApplyMessage(s, m)
         /\ \A q \in Seq(Envelopes) :
              /\ Received(s, q) \in RaceStates
              /\ \A m \in Envelopes : Received(s, Append(q, m)) = ApplyMessage(Received(s, q), m)
         /\ \A p, q \in Seq(Envelopes) : Received(s, p \o q) = Received(Received(s, p), q)
<1>1. \A x \in RaceStates, q \in Seq(Envelopes) : Received(x, q) = RunOf(RaceStates, MessageStep, x, q)
  BY ReceivedRun
<1>2. \A q \in Seq(Envelopes) : RunOf(RaceStates, MessageStep, s, q) \in RaceStates
  BY MessageIsStep, RunType
<1>3. Received(s, <<>>) = s
  <2>1. <<>> \in Seq(Envelopes)
    OBVIOUS
  <2> QED BY <1>1, <2>1, RunEmpty, Zenon
<1>4. ASSUME NEW q \in Seq(Envelopes), NEW m \in Envelopes
      PROVE  Received(s, Append(q, m)) = ApplyMessage(Received(s, q), m)
  <2>1. Append(q, m) \in Seq(Envelopes)
    OBVIOUS
  <2>2. RunOf(RaceStates, MessageStep, s, Append(q, m))
          = MessageStep[<<RunOf(RaceStates, MessageStep, s, q), m>>]
    BY MessageIsStep, RunAppend
  <2>3. \A x \in RaceStates : MessageStep[<<x, m>>] = ApplyMessage(x, m)
    BY DEF MessageStep
  <2>4. Received(s, Append(q, m)) = MessageStep[<<Received(s, q), m>>]
    BY <1>1, <2>1, <2>2, Zenon
  <2>5. Received(s, q) \in RaceStates
    BY <1>1, <1>2, Zenon
  <2> QED BY <2>3, <2>4, <2>5
<1>5. ASSUME NEW p \in Seq(Envelopes), NEW q \in Seq(Envelopes)
      PROVE  Received(s, p \o q) = Received(Received(s, p), q)
  <2>1. p \o q \in Seq(Envelopes)
    OBVIOUS
  <2>2. RunOf(RaceStates, MessageStep, s, p \o q)
          = RunOf(RaceStates, MessageStep, RunOf(RaceStates, MessageStep, s, p), q)
    BY MessageIsStep, RunConcat
  <2> QED BY <1>1, <1>2, <2>1, <2>2, Zenon
<1>6. ASSUME NEW m \in Envelopes PROVE Received(s, <<m>>) = ApplyMessage(s, m)
  <2>1. <<m>> = Append(<<>>, m) /\ <<>> \in Seq(Envelopes)
    OBVIOUS
  <2>2. Received(s, Append(<<>>, m)) = ApplyMessage(Received(s, <<>>), m)
    BY <1>4, <2>1, Zenon
  <2> QED BY <1>3, <2>1, <2>2
<1>7. \A q \in Seq(Envelopes) : Received(s, q) \in RaceStates
  BY <1>1, <1>2, Zenon
<1> QED
  BY <1>3, <1>4, <1>5, <1>6, <1>7
=============================================================================
