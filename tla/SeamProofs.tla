------------------------------ MODULE SeamProofs ------------------------------
(***************************************************************************)
(* What holds of the writers, Redis and the open subscriptions whoever     *)
(* reads them: the invariant SeamInv, and, for a lane whose writer neither *)
(* dies nor fails, that a reader who starts from the stored snapshot and   *)
(* folds what its subscription brings comes to the writer's own snapshot.  *)
(* GatewayProofs and RegistryProofs build on both.                         *)
(***************************************************************************)
EXTENDS Seam, RaceModelProofs

-----------------------------------------------------------------------------
(* The inductive invariant *)

\* The stored snapshot is behind the writer's own exactly while a frame waits
\* for its SET; a frame waiting for its PUBLISH is already stored.
WriterInv(s) ==
  LET w == writer[s] IN
  /\ w.pc # "down" => /\ w.snap \in Snapshots /\ w.snap.session = s
                      /\ w.pos \in DOMAIN Clip[s].lines
                      /\ StoredRev(s) <= w.snap.rev
  /\ w.pc \in {"set", "publish"} =>
       w.frame \in Frames /\ w.frame.session = s /\ w.frame.rev = w.snap.rev
  /\ w.pc = "set" => StoredRev(s) < w.frame.rev
  /\ w.pc = "publish" => StoredRev(s) = w.frame.rev

StoreInv == \A s \in Sessions : store[s] # Nil => store[s].session = s

\* A frame that has left the writer is covered by the stored snapshot.
Covered(f, s) == f.session = s /\ f.rev <= StoredRev(s)

ChanInv(g) ==
  chan[g] # Nil =>
    \A i \in DOMAIN chan[g].queue : Covered(chan[g].queue[i], chan[g].session)

SeamInv ==
  /\ SeamTypeOK
  /\ \A s \in Sessions : WriterInv(s)
  /\ StoreInv
  /\ \A g \in Subs : ChanInv(g)

\* What a step of the seam may do to what a reader relies on.
SeamMoves ==
  /\ \A s \in Sessions : StoredRev(s) <= StoredRev(s)'
  /\ \A g \in Subs : /\ chan'[g] = Nil <=> chan[g] = Nil
                     /\ chan[g] # Nil => chan'[g].session = chan[g].session

-----------------------------------------------------------------------------
(* Facts about the operators *)

LEMMA StoredRevNat ==
  ASSUME SeamTypeOK
  PROVE  \A s \in Sessions : StoredRev(s) \in Nat
BY DEF SeamTypeOK, StoredRev, Snapshots

\* What a writer starts from: the lane's header at any Rev.
LEMMA BakedFacts ==
  ASSUME NEW s \in Sessions, NEW r \in Nat
  PROVE  LET snap == [Baked(s) EXCEPT !.rev = r]
             n == NewSnapshot(s)
         IN  /\ snap \in Snapshots /\ snap.session = s /\ snap.rev = r
             /\ snap.header = Clip[s].header /\ Carried(snap) = Range(Clip[s].radio)
             /\ snap.timeMs = n.timeMs /\ snap.cars = n.cars
             /\ snap.messages = n.messages /\ snap.weather = n.weather
<1>1. Clip[s].header \in Data /\ Clip[s].radio \in Seq(Data)
  BY ClipAssumption
<1> DEFINE n == NewSnapshot(s)
           snap == [[n EXCEPT !.header = Clip[s].header, !.radio = Clip[s].radio]
                      EXCEPT !.rev = r]
<1>2. n \in Snapshots /\ Carried(n) = {} /\ n.session = s
  BY NewSnapshotFacts DEF NewSnapshot
<1> HIDE DEF n
<1>3. /\ snap \in Snapshots /\ snap.session = s /\ snap.rev = r
      /\ snap.header = Clip[s].header /\ snap.radio = Clip[s].radio
      /\ snap.cars = n.cars /\ snap.messages = n.messages /\ snap.weather = n.weather
      /\ snap.timeMs = n.timeMs
  BY <1>1, <1>2 DEF Snapshots
<1>4. Carried(snap) = Range(Clip[s].radio)
  <2> HIDE DEF snap
  <2> QED BY <1>2, <1>3 DEF Carried
<1>5. [Baked(s) EXCEPT !.rev = r] = snap
  BY DEF Baked, n
<1> HIDE DEF snap
<1> QED
  BY <1>3, <1>4, <1>5 DEF n

\* Without a single frame folded, a reader tracks a writer that starts anew.
LEMMA BakedTracked ==
  ASSUME NEW s \in Sessions
  PROVE  Tracks(NewSnapshot(s), [Baked(s) EXCEPT !.rev = 0])
<1> DEFINE n == NewSnapshot(s)
           b == [Baked(s) EXCEPT !.rev = 0]
<1>1. n.header = Nil /\ n.rev = 0 /\ n.session = s
  BY DEF NewSnapshot
<1>2. /\ b.session = s /\ b.rev = 0 /\ b.timeMs = n.timeMs /\ b.cars = n.cars
      /\ b.messages = n.messages /\ b.weather = n.weather
  <2>1. 0 \in Nat
    OBVIOUS
  <2> QED BY <2>1, BakedFacts
<1> HIDE DEF n, b
<1>3. Tracks(n, b)
  BY <1>1, <1>2 DEF Tracks, FrameFields
<1> QED
  BY <1>3 DEF n, b

\* The player always stands on a line of the clip.
LEMMA LineFacts ==
  ASSUME NEW s \in Sessions
  PROVE  /\ FirstLines(s) \subseteq DOMAIN Clip[s].lines
         /\ \A i \in DOMAIN Clip[s].lines :
              /\ i \in Nat
              /\ Line(s, i) \in Bodies
              /\ Carried(Line(s, i)) \subseteq Carried(Clip[s].lines[i])
              /\ NextLine(s, i) \in DOMAIN Clip[s].lines
<1>1. Clip[s].lines \in Seq(Bodies) /\ Clip[s].lines # <<>>
  BY ClipAssumption
<1>2. Len(Clip[s].lines) \in Nat \ {0} /\ DOMAIN Clip[s].lines = 1..Len(Clip[s].lines)
  BY <1>1
<1>3. \A i \in DOMAIN Clip[s].lines : i % Len(Clip[s].lines) \in 0..(Len(Clip[s].lines) - 1)
  BY <1>2
<1>4. ASSUME NEW line \in Bodies
      PROVE  LET quiet == [line EXCEPT !.radio = <<>>] IN
             quiet \in Bodies /\ Carried(quiet) \subseteq Carried(line)
  <2> DEFINE quiet == [line EXCEPT !.radio = <<>>]
  <2>1. /\ quiet \in Bodies /\ quiet.cars = line.cars /\ quiet.messages = line.messages
        /\ quiet.weather = line.weather /\ quiet.radio = <<>>
    <3>1. <<>> \in Seq(Data)
      OBVIOUS
    <3> QED BY <3>1 DEF Bodies
  <2>2. DOMAIN quiet.radio = {}
    <3>1. <<>> \in Seq({}) /\ Len(<<>>) = 0
      OBVIOUS
    <3>2. DOMAIN <<>> = 1..0
      BY <3>1
    <3> QED BY <2>1, <3>2
  <2> HIDE DEF quiet
  <2>3. Carried(quiet) \subseteq Carried(line)
    BY <2>1, <2>2 DEF Carried, Range
  <2> QED BY <2>1, <2>3 DEF quiet
<1>5. \A i \in DOMAIN Clip[s].lines :
        Line(s, i) \in Bodies /\ Carried(Line(s, i)) \subseteq Carried(Clip[s].lines[i])
  BY <1>1, <1>4 DEF Line
<1> QED
  BY <1>2, <1>3, <1>5 DEF FirstLines, NextLine

LEMMA FoldFacts ==
  ASSUME NEW s \in Sessions, NEW snap \in Snapshots, NEW f \in Frames, f.rev > snap.rev
  PROVE  LET t == Fold(s, snap, f) IN
         /\ t \in Snapshots
         /\ t.session = snap.session /\ t.header = snap.header /\ t.rev = f.rev
         /\ Carried(t) \subseteq Carried(snap) \cup Carried(f)
<1>1. snap.rev \in Nat /\ f.rev \in Nat
  BY DEF Snapshots, Frames
<1> QED
  BY <1>1, ApplyFacts, PublishClipFoldFacts DEF Fold

LEMMA LoadedFacts ==
  ASSUME SeamTypeOK, StoreInv, NEW s \in Sessions
  PROVE  Loaded(s) \in Snapshots /\ Loaded(s).session = s /\ Loaded(s).rev = StoredRev(s)
BY NewSnapshotFacts DEF SeamTypeOK, StoreInv, Loaded, StoredRev, NewSnapshot

-----------------------------------------------------------------------------
(* Every step of the seam keeps the invariant *)

LEMMA InitSeam == SeamInit => SeamInv
<1> SUFFICES ASSUME SeamInit PROVE SeamInv
  OBVIOUS
<1> QED
  BY DEF SeamInit, SeamInv, SeamTypeOK, Writers, Down, WriterInv, StoreInv, ChanInv

\* A step that leaves the store and the channels alone needs only its writer
\* looked at.
LEMMA WriterOnly ==
  ASSUME SeamInv, NEW s \in Sessions, NEW w \in Writers,
         writer' = [writer EXCEPT ![s] = w], WriterInv(s)', UNCHANGED <<store, chan>>
  PROVE  SeamInv' /\ SeamMoves
<1> USE DEF SeamInv
<1>1. SeamTypeOK'
  BY DEF SeamTypeOK
<1>2. \A r \in Sessions : WriterInv(r)'
  <2> SUFFICES ASSUME NEW r \in Sessions, r # s PROVE WriterInv(r)'
    OBVIOUS
  <2>1. writer'[r] = writer[r]
    BY DEF SeamTypeOK
  <2> QED BY <2>1 DEF WriterInv, StoredRev
<1>3. StoreInv' /\ \A g \in Subs : ChanInv(g)'
  BY DEF StoreInv, ChanInv, Covered, StoredRev
<1>4. SeamMoves
  <2>1. \A r \in Sessions : StoredRev(r)' = StoredRev(r) /\ StoredRev(r) \in Nat
    BY StoredRevNat DEF StoredRev
  <2> QED BY <2>1 DEF SeamMoves
<1> QED
  BY <1>1, <1>2, <1>3, <1>4

LEMMA WriterStartSeam ==
  ASSUME SeamInv, NEW s \in Sessions, WriterStart(s)
  PROVE  SeamInv' /\ SeamMoves
<1>1. SeamTypeOK
  BY DEF SeamInv
<1>2. PICK i \in FirstLines(s) :
        writer' = [writer EXCEPT ![s] =
          [pc |-> "ready", snap |-> [Baked(s) EXCEPT !.rev = StoredRev(s)],
           frame |-> Nil, pos |-> i]]
  BY DEF WriterStart
<1> DEFINE w == [pc |-> "ready", snap |-> [Baked(s) EXCEPT !.rev = StoredRev(s)],
                 frame |-> Nil, pos |-> i]
<1>3. StoredRev(s) \in Nat
  BY <1>1, StoredRevNat
<1>4. /\ w.snap \in Snapshots /\ w.snap.session = s /\ w.snap.rev = StoredRev(s)
  BY <1>3, BakedFacts
<1>5. i \in DOMAIN Clip[s].lines /\ i \in Nat
  BY LineFacts
<1>6. w \in Writers
  BY <1>4, <1>5 DEF Writers
<1>7. writer'[s] = w /\ UNCHANGED <<store, chan>>
  BY <1>1, <1>2 DEF WriterStart, SeamTypeOK
<1>8. StoredRev(s)' = StoredRev(s)
  BY <1>7 DEF StoredRev
<1>9. WriterInv(s)'
  <2> HIDE DEF w
  <2>1. w.pc = "ready" /\ w.pos = i
    BY DEF w
  <2> QED BY <1>3, <1>4, <1>5, <1>7, <1>8, <2>1 DEF WriterInv
<1> QED
  BY <1>2, <1>6, <1>7, <1>9, WriterOnly

LEMMA WriterFoldSeam ==
  ASSUME SeamInv, NEW s \in Sessions, WriterFold(s)
  PROVE  SeamInv' /\ SeamMoves
<1> DEFINE v == writer[s]
           f == Stamp(s, v.snap.rev + 1, Line(s, v.pos))
           w == [pc |-> "set", snap |-> Fold(s, v.snap, f), frame |-> f,
                 pos |-> NextLine(s, v.pos)]
<1>1. SeamTypeOK /\ WriterInv(s)
  BY DEF SeamInv
<1>2. /\ v.snap \in Snapshots /\ v.snap.session = s
      /\ v.pos \in DOMAIN Clip[s].lines /\ StoredRev(s) <= v.snap.rev
  BY <1>1 DEF WriterFold, WriterInv
<1>3. v.snap.rev \in Nat /\ StoredRev(s) \in Nat
  BY <1>1, <1>2, StoredRevNat DEF Snapshots
<1>4. f \in Frames /\ f.session = s /\ f.rev = v.snap.rev + 1
  BY <1>2, <1>3, LineFacts, StampFacts
<1>5. /\ Fold(s, v.snap, f) \in Snapshots /\ Fold(s, v.snap, f).session = s
      /\ Fold(s, v.snap, f).rev = f.rev
  <2> HIDE DEF f
  <2> QED BY <1>2, <1>3, <1>4, FoldFacts
<1>6. NextLine(s, v.pos) \in DOMAIN Clip[s].lines /\ NextLine(s, v.pos) \in Nat
  BY <1>2, LineFacts
<1>7. writer' = [writer EXCEPT ![s] = w] /\ UNCHANGED <<store, chan>>
  BY DEF WriterFold
<1> HIDE DEF f, v
<1>8. w \in Writers
  BY <1>4, <1>5, <1>6 DEF Writers
<1>9. writer'[s] = w /\ StoredRev(s)' = StoredRev(s)
  BY <1>1, <1>7 DEF SeamTypeOK, StoredRev
<1>10. WriterInv(s)'
  BY <1>2, <1>3, <1>4, <1>5, <1>6, <1>9 DEF WriterInv
<1> QED
  BY <1>7, <1>8, <1>10, WriterOnly

\* SET: the stored Rev grows, so what was covered stays covered.
LEMMA SetSeam ==
  ASSUME SeamInv, NEW s \in Sessions, writer[s].pc = "set",
         store' = [store EXCEPT ![s] = writer[s].snap], GoTo(s, "publish"), UNCHANGED chan
  PROVE  SeamInv' /\ SeamMoves
<1> DEFINE w == writer[s]
<1>1. SeamTypeOK /\ WriterInv(s) /\ s \in Sessions
  BY DEF SeamInv
<1>2. /\ w.snap \in Snapshots /\ w.snap.session = s /\ w.snap.rev \in Nat
      /\ w.frame \in Frames /\ w.frame.session = s /\ w.frame.rev = w.snap.rev
      /\ w.pos \in DOMAIN Clip[s].lines
      /\ StoredRev(s) < w.snap.rev /\ w.snap # Nil
  BY <1>1, NilAssumption DEF WriterInv, Snapshots
<1>3. store'[s] = w.snap /\ StoredRev(s)' = w.snap.rev
  BY <1>1, <1>2 DEF SeamTypeOK, StoredRev
<1>4. \A r \in Sessions \ {s} : store'[r] = store[r] /\ writer'[r] = writer[r]
  BY <1>1 DEF SeamTypeOK, GoTo
<1>5. \A r \in Sessions :
        StoredRev(r) <= StoredRev(r)' /\ StoredRev(r) \in Nat /\ StoredRev(r)' \in Nat
  <2> SUFFICES ASSUME NEW r \in Sessions
               PROVE  /\ StoredRev(r) <= StoredRev(r)'
                      /\ StoredRev(r) \in Nat /\ StoredRev(r)' \in Nat
    OBVIOUS
  <2>1. StoredRev(r) \in Nat
    BY <1>1, StoredRevNat
  <2>2. CASE r = s
    BY <1>2, <1>3, <2>1, <2>2
  <2>3. CASE r # s
    <3>1. StoredRev(r)' = StoredRev(r)
      BY <1>4, <2>3 DEF StoredRev
    <3> QED BY <2>1, <3>1
  <2> QED BY <2>2, <2>3
<1>6. writer'[s] = [w EXCEPT !.pc = "publish"] /\ w \in Writers
  BY <1>1 DEF SeamTypeOK, GoTo
<1>7. SeamTypeOK'
  <2>1. store' \in [Sessions -> Snapshots \cup {Nil}]
    BY <1>1, <1>2 DEF SeamTypeOK
  <2>2. writer' \in [Sessions -> Writers]
    <3>1. [w EXCEPT !.pc = "publish"] \in Writers
      BY <1>6 DEF Writers
    <3> QED BY <1>1, <3>1 DEF SeamTypeOK, GoTo
  <2> QED BY <1>1, <2>1, <2>2 DEF SeamTypeOK
<1>8. \A r \in Sessions : WriterInv(r)'
  <2> SUFFICES ASSUME NEW r \in Sessions PROVE WriterInv(r)'
    OBVIOUS
  <2>1. CASE r = s
    <3>1. /\ writer'[s].pc = "publish" /\ writer'[s].snap = w.snap
          /\ writer'[s].frame = w.frame /\ writer'[s].pos = w.pos
      BY <1>6 DEF Writers
    <3> QED BY <1>2, <1>3, <2>1, <3>1 DEF WriterInv
  <2>2. CASE r # s
    BY <1>4, <2>2 DEF SeamInv, WriterInv, StoredRev
  <2> QED BY <2>1, <2>2
<1>9. StoreInv'
  BY <1>2, <1>3, <1>4 DEF SeamInv, StoreInv
<1>10. ASSUME NEW f \in Frames, NEW r \in Sessions, Covered(f, r) PROVE Covered(f, r)'
  BY <1>5, <1>10 DEF Covered, Frames
<1>11. \A g \in Subs : ChanInv(g)'
  <2> SUFFICES ASSUME NEW g \in Subs, chan[g] # Nil, NEW i \in DOMAIN chan[g].queue
               PROVE  Covered(chan[g].queue[i], chan[g].session)'
    BY DEF ChanInv
  <2>1. chan[g].queue[i] \in Frames /\ chan[g].session \in Sessions
    BY <1>1 DEF SeamTypeOK, Channels
  <2>2. Covered(chan[g].queue[i], chan[g].session)
    BY DEF SeamInv, ChanInv
  <2> QED BY <1>10, <2>1, <2>2
<1>12. SeamMoves
  BY <1>5 DEF SeamMoves
<1> QED
  BY <1>7, <1>8, <1>9, <1>11, <1>12 DEF SeamInv

\* A writer's record with another program counter is a writer's record.
LEMMA GoToReady ==
  ASSUME SeamTypeOK, NEW s \in Sessions, WriterInv(s), writer[s].pc \in {"set", "publish"}
  PROVE  LET w == [writer[s] EXCEPT !.pc = "ready"] IN
         w \in Writers /\ w.pc = "ready" /\ w.snap = writer[s].snap /\ w.pos = writer[s].pos
BY DEF SeamTypeOK, Writers

\* PUBLISH: the frame that joins the queues is the one just stored.
LEMMA PublishSeam ==
  ASSUME SeamInv, NEW s \in Sessions, writer[s].pc = "publish",
         chan' = Deliver(s, writer[s].frame), GoTo(s, "ready"), UNCHANGED store
  PROVE  SeamInv' /\ SeamMoves
<1> DEFINE f == writer[s].frame
<1>1. SeamTypeOK /\ WriterInv(s)
  BY DEF SeamInv
<1>2. f \in Frames /\ Covered(f, s)
  <2>1. f.rev \in Nat /\ f \in Frames /\ f.session = s /\ StoredRev(s) = f.rev
    BY <1>1 DEF WriterInv, Frames
  <2> QED BY <2>1 DEF Covered
<1>3. \A r \in Sessions : StoredRev(r)' = StoredRev(r) /\ StoredRev(r) \in Nat
  BY <1>1, StoredRevNat DEF StoredRev
<1>4. \A g \in Subs :
        \/ chan'[g] = chan[g]
        \/ /\ chan[g] # Nil /\ chan[g].session = s
           /\ chan'[g] = [chan[g] EXCEPT !.queue = Append(@, f)]
  BY DEF Deliver
<1>5. \A g \in Subs :
        /\ chan'[g] \in Channels \cup {Nil}
        /\ chan[g] = Nil <=> chan'[g] = Nil
        /\ chan[g] # Nil => chan'[g].session = chan[g].session
  <2> SUFFICES ASSUME NEW g \in Subs, chan'[g] # chan[g]
               PROVE  /\ chan[g] # Nil /\ chan'[g] \in Channels /\ chan'[g] # Nil
                      /\ chan'[g].session = chan[g].session
    BY <1>1 DEF SeamTypeOK
  <2>1. chan[g] \in Channels /\ chan'[g] = [chan[g] EXCEPT !.queue = Append(@, f)]
    BY <1>1, <1>4 DEF SeamTypeOK
  <2>2. Append(chan[g].queue, f) \in Seq(Frames)
    BY <1>2, <2>1 DEF Channels
  <2> QED BY <1>4, <2>1, <2>2, NoChannelAssumption, SMTT(30) DEF Channels
<1>6. SeamTypeOK'
  <2>1. writer' \in [Sessions -> Writers]
    BY <1>1, GoToReady DEF SeamTypeOK, GoTo
  <2>2. chan' \in [Subs -> Channels \cup {Nil}]
    <3>1. chan' = [g \in Subs |-> chan'[g]]
      BY DEF Deliver
    <3> QED BY <1>5, <3>1
  <2> QED BY <1>1, <2>1, <2>2 DEF SeamTypeOK
<1>7. \A r \in Sessions : WriterInv(r)'
  <2> SUFFICES ASSUME NEW r \in Sessions PROVE WriterInv(r)'
    OBVIOUS
  <2>1. CASE r = s
    <3>1. /\ writer'[s].pc = "ready" /\ writer'[s].snap = writer[s].snap
          /\ writer'[s].pos = writer[s].pos
      BY <1>1, GoToReady DEF SeamTypeOK, GoTo
    <3> QED BY <1>1, <1>3, <2>1, <3>1 DEF WriterInv
  <2>2. CASE r # s
    <3>1. writer'[r] = writer[r]
      BY <1>1, <2>2 DEF SeamTypeOK, GoTo
    <3> QED BY <1>3, <3>1 DEF SeamInv, WriterInv
  <2> QED BY <2>1, <2>2
<1>8. ASSUME NEW g \in Subs, chan'[g] # Nil, NEW i \in DOMAIN chan'[g].queue
      PROVE  LET q == chan'[g].queue[i] IN
             q.session = chan[g].session /\ q.rev <= StoredRev(chan[g].session)
  <2>1. ChanInv(g) /\ chan[g] # Nil /\ chan[g] \in Channels
    BY <1>1, <1>5, <1>8 DEF SeamInv, SeamTypeOK
  <2>2. chan[g].queue \in Seq(Frames) /\ chan[g].session \in Sessions
    BY <2>1 DEF Channels
  <2>3. CASE chan'[g] = chan[g]
    BY <1>8, <2>1, <2>2, <2>3 DEF ChanInv, Covered
  <2>4. CASE chan[g].session = s /\ chan'[g] = [chan[g] EXCEPT !.queue = Append(@, f)]
    <3>1. chan'[g].queue = Append(chan[g].queue, f)
      BY <2>1, <2>4 DEF Channels
    <3>2. CASE i = Len(chan[g].queue) + 1
      BY <1>2, <2>2, <2>4, <3>1, <3>2 DEF Covered
    <3>3. CASE i \in DOMAIN chan[g].queue
      <4>1. chan'[g].queue[i] = chan[g].queue[i]
        BY <2>2, <3>1, <3>3
      <4> QED BY <2>1, <3>3, <4>1 DEF ChanInv, Covered
    <3> QED BY <1>8, <2>2, <3>1, <3>2, <3>3
  <2> QED BY <1>4, <2>3, <2>4
<1>9. \A g \in Subs : ChanInv(g)'
  BY <1>5, <1>8 DEF ChanInv, Covered, StoredRev
<1>10. StoreInv'
  BY DEF SeamInv, StoreInv
<1>11. SeamMoves
  BY <1>3, <1>5 DEF SeamMoves
<1> QED
  BY <1>6, <1>7, <1>9, <1>10, <1>11 DEF SeamInv

\* Failures and crashes of a writer take nothing away but the frame.
LEMMA PublishFailsSeam ==
  ASSUME SeamInv, NEW s \in Sessions, PublishFails(s)
  PROVE  SeamInv' /\ SeamMoves
<1>1. SeamTypeOK /\ WriterInv(s) /\ UNCHANGED <<store, chan>>
  BY DEF SeamInv, PublishFails
<1>2. CASE writer' = [writer EXCEPT ![s] = Down]
  <2>1. Down \in Writers
    BY DEF Down, Writers
  <2>2. WriterInv(s)'
    BY <1>1, <1>2 DEF WriterInv, Down, SeamTypeOK
  <2> QED BY <1>1, <1>2, <2>1, <2>2, WriterOnly
<1>3. CASE GoTo(s, "ready")
  <2> DEFINE w == [writer[s] EXCEPT !.pc = "ready"]
  <2>1. /\ w \in Writers /\ w.pc = "ready" /\ w.snap = writer[s].snap
        /\ w.pos = writer[s].pos
    BY <1>1, GoToReady DEF PublishFails
  <2>2. writer' = [writer EXCEPT ![s] = w] /\ writer'[s] = w
    BY <1>1, <1>3 DEF GoTo, SeamTypeOK
  <2>3. StoredRev(s)' = StoredRev(s)
    BY <1>1 DEF StoredRev
  <2> HIDE DEF w
  <2>4. WriterInv(s)'
    BY <1>1, <2>1, <2>2, <2>3 DEF WriterInv, PublishFails
  <2> QED BY <1>1, <2>1, <2>2, <2>4, WriterOnly
<1> QED
  BY <1>2, <1>3 DEF PublishFails

LEMMA WriterCrashSeam ==
  ASSUME SeamInv, NEW s \in Sessions, WriterCrash(s)
  PROVE  SeamInv' /\ SeamMoves
<1>1. Down \in Writers
  BY DEF Down, Writers
<1>2. WriterInv(s)'
  BY DEF SeamInv, SeamTypeOK, WriterCrash, WriterInv, Down
<1> QED
  BY <1>1, <1>2, WriterOnly DEF WriterCrash

\* Whether it goes or comes back, a connection changes no queue.
LEMMA ConnectionSeam ==
  ASSUME SeamInv, NEW i \in Subs, ConnectionDrop(i) \/ Resubscribe(i)
  PROVE  SeamInv' /\ SeamMoves
<1>1. chan[i] \in Channels
  BY DEF SeamInv, SeamTypeOK, ConnectionDrop, Resubscribe
<1>2. /\ chan'[i] \in Channels /\ chan'[i] # Nil
      /\ chan'[i].queue = chan[i].queue /\ chan'[i].session = chan[i].session
  BY <1>1, NoChannelAssumption DEF SeamInv, SeamTypeOK, ConnectionDrop, Resubscribe, Channels
<1>3. \A g \in Subs \ {i} : chan'[g] = chan[g]
  BY DEF SeamInv, SeamTypeOK, ConnectionDrop, Resubscribe
<1>4. \A g \in Subs : /\ chan'[g] = Nil <=> chan[g] = Nil
                      /\ chan[g] # Nil => /\ chan'[g].queue = chan[g].queue
                                          /\ chan'[g].session = chan[g].session
  BY <1>2, <1>3 DEF ConnectionDrop, Resubscribe
<1>5. SeamTypeOK'
  BY <1>2 DEF SeamInv, SeamTypeOK, ConnectionDrop, Resubscribe
<1>6. (\A s \in Sessions : WriterInv(s)') /\ StoreInv'
  BY DEF SeamInv, WriterInv, StoreInv, StoredRev, ConnectionDrop, Resubscribe
<1>7. \A g \in Subs : ChanInv(g)'
  BY <1>4 DEF SeamInv, ConnectionDrop, Resubscribe, ChanInv, Covered, StoredRev
<1>8. SeamMoves
  <2>1. \A s \in Sessions : StoredRev(s)' = StoredRev(s) /\ StoredRev(s) \in Nat
    BY StoredRevNat DEF SeamInv, ConnectionDrop, Resubscribe, StoredRev
  <2> QED BY <1>4, <2>1 DEF SeamMoves
<1> QED
  BY <1>5, <1>6, <1>7, <1>8 DEF SeamInv

LEMMA SeamKept ==
  ASSUME SeamInv, SeamNext
  PROVE  SeamInv' /\ SeamMoves
<1>1. ASSUME NEW s \in Sessions, Publish(s) PROVE SeamInv' /\ SeamMoves
  BY <1>1, SetSeam, PublishSeam DEF Publish
<1>2. ASSUME NEW s \in Sessions, WriterStep(s) \/ PublishFails(s) \/ WriterCrash(s)
      PROVE  SeamInv' /\ SeamMoves
  BY <1>1, <1>2, WriterStartSeam, WriterFoldSeam, PublishFailsSeam, WriterCrashSeam
     DEF WriterStep
<1> QED
  BY <1>2, ConnectionSeam DEF SeamNext

\* What a reader does to the channels leaves the writers and the store alone.
LEMMA ReaderKeeps ==
  ASSUME SeamInv, UNCHANGED <<store, writer>>, chan' \in [Subs -> Channels \cup {Nil}],
         \A g \in Subs : ChanInv(g)'
  PROVE  SeamInv'
BY DEF SeamInv, SeamTypeOK, WriterInv, StoreInv, StoredRev

-----------------------------------------------------------------------------
(* Catching up *)

\* A Go writer whose calls all succeed, and that is never killed.
Steady(s) == s \notin PythonClip /\ Faults \cap {"crash", "set", "publish"} = {}

\* Folding into h what a reader still has to read, and what writer w of lane s
\* still has to publish, gives what w itself has folded.
Feeds(w, h, q, s) ==
  IF w.pc = "down" THEN h = NewSnapshot(s) /\ q = <<>>
                   ELSE Tracks(Folded(h, q \o Unpublished(w)), w.snap)

QueuesOf(s) == {g \in Subs : chan[g] # Nil /\ chan[g].session = s}

\* A new reader starts from the store alone; what is queued for it is in there.
SteadyInv(s) ==
  /\ Feeds(writer[s], Loaded(s), <<>>, s)
  /\ writer[s].pc = "down" =>
       store[s] = Nil /\ \A g \in QueuesOf(s) : chan[g].queue = <<>>

\* Each kind of step, as lane s and its readers see it.
SameQueues(s) ==
  \A g \in Subs : chan[g] # Nil /\ chan[g].session = s => chan'[g].queue = chan[g].queue

Seen(s, w, v) ==
  \/ v = w /\ UNCHANGED store[s] /\ SameQueues(s)
  \/ /\ w.pc = "down" /\ v.pc = "ready"
     /\ v.snap = [Baked(s) EXCEPT !.rev = StoredRev(s)]
     /\ UNCHANGED store[s] /\ SameQueues(s)
  \/ /\ w.pc = "ready" /\ v.pc = "set"
     /\ v.frame \in Frames /\ v.snap = Apply(w.snap, v.frame)
     /\ UNCHANGED store[s] /\ SameQueues(s)
  \/ /\ w.pc = "set" /\ v.pc = "publish"
     /\ v.frame = w.frame /\ v.snap = w.snap
     /\ store'[s] = w.snap /\ SameQueues(s)
  \/ /\ w.pc = "publish" /\ v.pc = "ready" /\ v.snap = w.snap
     /\ UNCHANGED store[s]
     /\ \A g \in Subs : chan[g] # Nil /\ chan[g].session = s /\ chan[g].conn = "first" =>
          chan'[g].queue = Append(chan[g].queue, w.frame)

LEMMA SteadySteps ==
  ASSUME SeamInv, NEW s \in Sessions, Steady(s), SeamNext
  PROVE  Seen(s, writer[s], writer'[s])
<1>1. SeamTypeOK /\ WriterInv(s)
  BY DEF SeamInv
<1>2. ASSUME UNCHANGED chan PROVE SameQueues(s)
  BY <1>2 DEF SameQueues
<1>3. CASE \E i \in Subs : ConnectionDrop(i) \/ Resubscribe(i)
  <2>1. UNCHANGED <<store, writer>> /\ SameQueues(s)
    BY <1>1, <1>3 DEF ConnectionDrop, Resubscribe, SeamTypeOK, Channels, SameQueues
  <2> QED BY <2>1 DEF Seen
<1>4. ASSUME NEW r \in Sessions, r # s, WriterStep(r) \/ PublishFails(r) \/ WriterCrash(r)
      PROVE  Seen(s, writer[s], writer'[s])
  <2>1. writer'[s] = writer[s] /\ store'[s] = store[s]
    BY <1>1, <1>4 DEF WriterStep, WriterStart, WriterFold, Publish, PublishFails,
                      WriterCrash, GoTo, SeamTypeOK
  <2>2. SameQueues(s)
    BY <1>4 DEF WriterStep, WriterStart, WriterFold, Publish, PublishFails,
                WriterCrash, Deliver, SameQueues
  <2> QED BY <2>1, <2>2 DEF Seen
<1>5. CASE PublishFails(s) \/ WriterCrash(s)
  BY <1>5 DEF PublishFails, WriterCrash, Steady
<1>6. CASE WriterStart(s)
  <2>1. /\ writer[s].pc = "down" /\ writer'[s].pc = "ready"
        /\ writer'[s].snap = [Baked(s) EXCEPT !.rev = StoredRev(s)]
        /\ UNCHANGED <<store, chan>>
    BY <1>1, <1>6 DEF WriterStart, SeamTypeOK
  <2> QED BY <1>2, <2>1 DEF Seen
<1>7. CASE WriterFold(s)
  <2> DEFINE v == writer[s]
             f == Stamp(s, v.snap.rev + 1, Line(s, v.pos))
  <2>1. v.snap \in Snapshots /\ v.pos \in DOMAIN Clip[s].lines
    BY <1>1, <1>7 DEF WriterFold, WriterInv
  <2>2. f \in Frames
    BY <2>1, LineFacts, StampFacts DEF Snapshots
  <2>3. /\ v.pc = "ready" /\ writer'[s].pc = "set" /\ writer'[s].frame = f
        /\ writer'[s].snap = Apply(v.snap, f) /\ UNCHANGED <<store, chan>>
    BY <1>1, <1>7 DEF WriterFold, SeamTypeOK, Fold, Steady
  <2> HIDE DEF f
  <2> QED BY <1>2, <2>2, <2>3 DEF Seen
<1>8. CASE Publish(s)
  <2>1. /\ writer'[s] = [writer[s] EXCEPT !.pc = writer'[s].pc]
        /\ writer'[s].snap = writer[s].snap /\ writer'[s].frame = writer[s].frame
    BY <1>1, <1>8 DEF Publish, GoTo, SeamTypeOK, Writers
  <2>2. CASE writer[s].pc = "set"
    <3>1. /\ writer'[s].pc = "publish" /\ store'[s] = writer[s].snap /\ UNCHANGED chan
      BY <1>1, <1>8, <2>2 DEF Publish, GoTo, SeamTypeOK, Writers
    <3> QED BY <1>2, <2>1, <2>2, <3>1 DEF Seen
  <2>3. CASE writer[s].pc = "publish"
    <3>1. /\ writer'[s].pc = "ready" /\ UNCHANGED store
          /\ chan' = Deliver(s, writer[s].frame)
      BY <1>1, <1>8, <2>3 DEF Publish, GoTo, SeamTypeOK, Writers
    <3>2. \A g \in Subs : chan[g] # Nil /\ chan[g].session = s /\ chan[g].conn = "first" =>
            chan'[g].queue = Append(chan[g].queue, writer[s].frame)
      BY <1>1, <3>1 DEF Deliver, SeamTypeOK, Channels
    <3> QED BY <2>1, <2>3, <3>1, <3>2 DEF Seen
  <2> QED BY <1>8, <2>2, <2>3 DEF Publish
<1> QED
  BY <1>3, <1>4, <1>5, <1>6, <1>7, <1>8 DEF SeamNext, WriterStep


\* The frame a publishing writer holds is a frame; what it has left to publish is
\* a sequence of frames.
LEMMA UnpublishedType ==
  ASSUME SeamInv, NEW s \in Sessions
  PROVE  /\ Unpublished(writer[s]) \in Seq(Frames)
         /\ writer[s].pc \in {"set", "publish"} => writer[s].frame \in Frames
         /\ writer[s].pc # "down" => writer[s].snap \in Snapshots
         /\ writer[s].pc \in {"down", "ready", "set", "publish"}
<1>1. WriterInv(s) /\ writer[s] \in Writers
  BY DEF SeamInv, SeamTypeOK
<1>2. writer[s].pc \in {"set", "publish"} => writer[s].frame \in Frames
  BY <1>1 DEF WriterInv
<1>3. \A f \in Frames : <<f>> \in Seq(Frames)
  OBVIOUS
<1>4. <<>> \in Seq(Frames)
  OBVIOUS
<1>5. Unpublished(writer[s]) \in Seq(Frames)
  BY <1>2, <1>3, <1>4 DEF Unpublished
<1> QED
  BY <1>1, <1>2, <1>5 DEF WriterInv, Writers

\* A reader that has nothing more to read.
LEMMA NothingLeft ==
  ASSUME NEW h \in Snapshots, NEW q \in Seq(Frames), NEW f \in Frames
  PROVE  /\ q \o <<>> = q /\ <<>> \o q = q
         /\ q \o <<f>> = Append(q, f) /\ Append(q, f) \in Seq(Frames)
         /\ <<f>> \in Seq(Frames) /\ <<f>> \o q \in Seq(Frames) /\ <<f>> \o q # <<>>
OBVIOUS

\* Each way a lane moves on leaves its readers fed; the fold a reader has
\* started from and what it holds are in h and p.
LEMMA FeedsKept ==
  ASSUME SeamInv, NEW s \in Sessions, Seen(s, writer[s], writer'[s]), SteadyInv(s),
         NEW g \in Subs, chan[g] # Nil, chan[g].session = s, chan[g].conn = "first",
         NEW h \in Snapshots, NEW p \in Seq(Frames),
         Feeds(writer[s], h, p \o chan[g].queue, s)
  PROVE  Feeds(writer'[s], h, p \o chan'[g].queue, s)
<1> DEFINE w == writer[s]
           v == writer'[s]
           c == chan[g].queue
           d == chan'[g].queue
           q == p \o c
<1>1. c \in Seq(Frames) /\ q \in Seq(Frames)
  BY DEF SeamInv, SeamTypeOK, Channels
<1>2. /\ w.pc \in {"set", "publish"} => w.frame \in Frames
      /\ w.pc # "down" => w.snap \in Snapshots
  BY UnpublishedType
<1>3. Feeds(w, h, q, s) /\ Seen(s, w, v)
  OBVIOUS
<1>4. SameQueues(s) => d = c
  BY DEF SameQueues
<1>5. CASE v = w /\ SameQueues(s)
  BY <1>3, <1>4, <1>5
<1>6. CASE /\ w.pc = "down" /\ v.pc = "ready" /\ SameQueues(s)
           /\ v.snap = [Baked(s) EXCEPT !.rev = StoredRev(s)]
  <2>1. h = NewSnapshot(s) /\ q = <<>> /\ store[s] = Nil
    BY <1>3, <1>6 DEF Feeds, SteadyInv
  <2>2. v.snap = [Baked(s) EXCEPT !.rev = 0]
    BY <1>6, <2>1 DEF StoredRev
  <2>3. Unpublished(v) = <<>>
    BY <1>6 DEF Unpublished
  <2>4. Folded(h, q \o <<>>) = h
    BY <2>1, FoldedFacts
  <2> QED BY <1>4, <1>6, <2>1, <2>2, <2>3, <2>4, BakedTracked DEF Feeds
<1>7. CASE /\ w.pc = "ready" /\ v.pc = "set" /\ SameQueues(s)
           /\ v.frame \in Frames /\ v.snap = Apply(w.snap, v.frame)
  <2>1. Unpublished(w) = <<>> /\ Unpublished(v) = <<v.frame>>
    BY <1>7 DEF Unpublished
  <2> HIDE DEF v, w, c, d, q
  <2>2. q \o <<>> = q /\ q \o <<v.frame>> = Append(q, v.frame)
    BY <1>1, <1>7, NothingLeft
  <2>3. Tracks(Folded(h, q), w.snap)
    BY <1>3, <1>7, <2>1, <2>2 DEF Feeds
  <2>4. /\ Folded(h, q) \in Snapshots
        /\ Folded(h, Append(q, v.frame)) = Apply(Folded(h, q), v.frame)
    BY <1>1, <1>7, FoldedFacts
  <2>5. Tracks(Apply(Folded(h, q), v.frame), Apply(w.snap, v.frame))
    BY <1>2, <1>7, <2>3, <2>4, TracksApply
  <2>6. Feeds(v, h, q, s)
    BY <1>7, <2>1, <2>2, <2>4, <2>5 DEF Feeds
  <2> QED BY <1>4, <1>7, <2>6 DEF q, c, d, v
<1>8. CASE /\ w.pc = "set" /\ v.pc = "publish" /\ v.frame = w.frame /\ v.snap = w.snap
           /\ SameQueues(s)
  <2>1. Unpublished(v) = Unpublished(w)
    BY <1>8 DEF Unpublished
  <2> QED BY <1>3, <1>4, <1>8, <2>1 DEF Feeds
<1>9. CASE /\ w.pc = "publish" /\ v.pc = "ready" /\ v.snap = w.snap
           /\ d = Append(c, w.frame)
  <2>1. Unpublished(w) = <<w.frame>> /\ Unpublished(v) = <<>> /\ w.frame \in Frames
    BY <1>2, <1>9 DEF Unpublished
  <2> HIDE DEF v, w, c, d
  <2>2. (p \o d) \o <<>> = (p \o c) \o <<w.frame>>
    BY <1>1, <1>9, <2>1
  <2> QED BY <1>3, <1>9, <2>1, <2>2 DEF Feeds, q, c, d, v, w
<1> QED
  BY <1>5, <1>6, <1>7, <1>8, <1>9 DEF Seen

LEMMA SteadyKept ==
  ASSUME SeamInv, NEW s \in Sessions, Seen(s, writer[s], writer'[s]), SteadyInv(s), SeamMoves
  PROVE  SteadyInv(s)'
<1> DEFINE w == writer[s]
           v == writer'[s]
<1>1. /\ w.pc \in {"set", "publish"} => w.frame \in Frames
      /\ w.pc # "down" => w.snap \in Snapshots
  BY UnpublishedType
<1>2. Loaded(s) \in Snapshots
  BY LoadedFacts DEF SeamInv
<1>3. UNCHANGED store[s] => Loaded(s)' = Loaded(s)
  BY DEF Loaded
<1>4. Feeds(w, Loaded(s), <<>>, s)
  BY DEF SteadyInv
<1>5. <<>> \in Seq(Frames)
  OBVIOUS
<1>6. SteadyInv(s)' <=> /\ Feeds(v, Loaded(s)', <<>>, s)
                        /\ v.pc = "down" => /\ store'[s] = Nil
                                            /\ \A g \in QueuesOf(s)' : chan'[g].queue = <<>>
  BY DEF SteadyInv
<1>7. QueuesOf(s)' = QueuesOf(s)
  BY DEF QueuesOf, SeamMoves
<1>8. CASE v = w /\ UNCHANGED store[s] /\ SameQueues(s)
  <2>1. \A g \in QueuesOf(s) : chan'[g].queue = chan[g].queue
    BY <1>8 DEF SameQueues, QueuesOf
  <2> QED BY <1>3, <1>4, <1>6, <1>7, <1>8, <2>1 DEF SteadyInv
<1>9. CASE /\ w.pc = "down" /\ v.pc = "ready" /\ UNCHANGED store[s]
           /\ v.snap = [Baked(s) EXCEPT !.rev = StoredRev(s)]
  <2>1. Loaded(s) = NewSnapshot(s) /\ store[s] = Nil
    BY <1>9 DEF Loaded, SteadyInv
  <2>2. v.snap = [Baked(s) EXCEPT !.rev = 0]
    BY <1>9, <2>1 DEF StoredRev
  <2>3. Unpublished(v) = <<>>
    BY <1>9 DEF Unpublished
  <2>4. Folded(Loaded(s), <<>> \o <<>>) = Loaded(s)
    <3>1. <<>> \o <<>> = <<>>
      BY <1>5
    <3> QED BY <1>2, <3>1, FoldedFacts
  <2> QED BY <1>3, <1>6, <1>9, <2>1, <2>2, <2>3, <2>4, BakedTracked DEF Feeds
<1>10. CASE /\ w.pc = "ready" /\ v.pc = "set" /\ UNCHANGED store[s]
            /\ v.frame \in Frames /\ v.snap = Apply(w.snap, v.frame)
  <2>1. Unpublished(w) = <<>> /\ Unpublished(v) = <<v.frame>>
    BY <1>10 DEF Unpublished
  <2> HIDE DEF v, w
  <2>2. <<>> \o <<>> = <<>> /\ <<>> \o <<v.frame>> = <<v.frame>>
    BY <1>10
  <2>3. Tracks(Loaded(s), w.snap)
    BY <1>2, <1>4, <1>10, <2>1, <2>2, FoldedFacts DEF Feeds
  <2>4. Folded(Loaded(s), <<v.frame>>) = Apply(Loaded(s), v.frame)
    BY <1>2, <1>10, FoldedFacts
  <2>5. Tracks(Apply(Loaded(s), v.frame), Apply(w.snap, v.frame))
    BY <1>1, <1>2, <1>10, <2>3, TracksApply
  <2> QED BY <1>3, <1>6, <1>10, <2>1, <2>2, <2>4, <2>5 DEF Feeds
<1>11. CASE /\ w.pc = "set" /\ v.pc = "publish" /\ v.frame = w.frame /\ v.snap = w.snap
            /\ store'[s] = w.snap
  <2>1. Unpublished(v) = <<w.frame>> /\ w.frame \in Frames /\ w.snap \in Snapshots
    BY <1>1, <1>11 DEF Unpublished
  <2>2. Loaded(s)' = w.snap
    BY <1>11, <2>1, NilAssumption DEF Loaded
  <2>3. w.frame.rev = w.snap.rev
    BY <1>11 DEF SeamInv, WriterInv
  <2> HIDE DEF v, w
  <2>4. Apply(w.snap, w.frame) = w.snap
    BY <2>1, <2>3 DEF Apply, Stale, Frames, Snapshots
  <2>5. Folded(w.snap, <<>> \o <<w.frame>>) = w.snap
    <3>1. <<>> \o <<w.frame>> = <<w.frame>>
      BY <2>1
    <3> QED BY <2>1, <2>4, <3>1, FoldedFacts
  <2>6. Feeds(v, w.snap, <<>>, s)
    BY <1>11, <2>1, <2>5 DEF Feeds, Tracks
  <2> QED BY <1>6, <1>11, <2>2, <2>6
<1>12. CASE /\ w.pc = "publish" /\ v.pc = "ready" /\ v.snap = w.snap /\ UNCHANGED store[s]
  <2>1. /\ Unpublished(w) = <<w.frame>> /\ Unpublished(v) = <<>> /\ w.frame \in Frames
        /\ w.snap \in Snapshots
    BY <1>1, <1>12 DEF Unpublished
  <2>2. w.frame.rev = w.snap.rev /\ StoredRev(s) = w.frame.rev
    BY <1>12 DEF SeamInv, WriterInv
  <2>3. Loaded(s).rev = StoredRev(s)
    BY LoadedFacts DEF SeamInv
  <2> HIDE DEF v, w
  <2>4. Apply(Loaded(s), w.frame) = Loaded(s)
    BY <1>2, <2>1, <2>2, <2>3 DEF Apply, Stale, Frames, Snapshots
  <2>5. <<>> \o <<w.frame>> = <<w.frame>> /\ <<>> \o <<>> = <<>>
    BY <2>1
  <2>6. /\ Folded(Loaded(s), <<w.frame>>) = Apply(Loaded(s), w.frame)
        /\ Folded(Loaded(s), <<>>) = Loaded(s)
    BY <1>2, <2>1, FoldedFacts
  <2>7. Feeds(v, Loaded(s), <<>>, s)
    BY <1>4, <1>12, <2>1, <2>4, <2>5, <2>6 DEF Feeds
  <2> QED BY <1>3, <1>6, <1>12, <2>7
<1> QED
  BY <1>8, <1>9, <1>10, <1>11, <1>12 DEF Seen

\* At the moment it reads the store, whoever has subscribed before is fed:
\* everything queued until then is already in what it reads.
LEMMA LoadedFeeds ==
  ASSUME SeamInv, NEW s \in Sessions, SteadyInv(s), NEW g \in Subs,
         chan[g] # Nil, chan[g].session = s
  PROVE  Feeds(writer[s], Loaded(s), chan[g].queue, s)
<1> DEFINE w == writer[s]
           q == chan[g].queue
           u == Unpublished(w)
           l == Loaded(s)
<1>1. q \in Seq(Frames) /\ u \in Seq(Frames) /\ l \in Snapshots /\ l.rev = StoredRev(s)
  BY UnpublishedType, LoadedFacts DEF SeamInv, SeamTypeOK, Channels
<1>2. \A i \in DOMAIN q : q[i].rev <= l.rev
  BY <1>1 DEF SeamInv, ChanInv, Covered
<1>3. Feeds(w, l, <<>>, s)
  BY DEF SteadyInv
<1>4. CASE w.pc = "down"
  <2>1. q = <<>>
    BY <1>4 DEF SteadyInv, QueuesOf
  <2> QED BY <1>3, <2>1
<1>5. CASE w.pc # "down"
  <2> HIDE DEF w, q, u, l
  <2>1. Folded(l, q \o u) = Folded(Folded(l, q), u)
    BY <1>1, FoldedFacts
  <2>2. Folded(l, q) = l
    BY <1>1, <1>2, FoldedStale
  <2>3. <<>> \o u = u
    BY <1>1
  <2>4. Feeds(w, l, q, s)
    BY <1>3, <1>5, <2>1, <2>2, <2>3 DEF Feeds, u
  <2> QED BY <2>4 DEF w, q, l
<1> QED
  BY <1>4, <1>5

\* Folding the first frame it has to read leaves a reader as well fed as before.
LEMMA FeedsApply ==
  ASSUME SeamInv, NEW s \in Sessions, NEW h \in Snapshots, NEW f \in Frames,
         NEW q \in Seq(Frames), Feeds(writer[s], h, <<f>> \o q, s)
  PROVE  Feeds(writer[s], Apply(h, f), q, s)
<1> DEFINE u == Unpublished(writer[s])
<1>1. u \in Seq(Frames)
  BY UnpublishedType
<1>2. /\ <<f>> \o q # <<>> /\ <<f>> \in Seq(Frames) /\ q \o u \in Seq(Frames)
      /\ (<<f>> \o q) \o u = <<f>> \o (q \o u)
  BY <1>1
<1>3. writer[s].pc # "down" /\ Tracks(Folded(h, (<<f>> \o q) \o u), writer[s].snap)
  BY <1>2 DEF Feeds
<1> HIDE DEF u
<1>4. Folded(h, <<f>> \o (q \o u)) = Folded(Folded(h, <<f>>), q \o u)
  BY <1>2, FoldedFacts, ZenonT(60)
<1>5. Folded(h, <<f>>) = Apply(h, f)
  BY FoldedFacts
<1> QED
  BY <1>2, <1>3, <1>4, <1>5 DEF Feeds, u

\* A fed reader comes to the writer's snapshot; without its header only if it
\* started without.
LEMMA FedCatchesUp ==
  ASSUME SeamInv, NEW s \in Sessions, NEW h \in Snapshots, NEW q \in Seq(Frames),
         Feeds(writer[s], h, q, s), writer[s].pc # "down"
  PROVE  LET folded == Folded(h, q \o Unpublished(writer[s])) IN
         /\ FrameFields(folded) = FrameFields(writer[s].snap)
         /\ h.header # Nil => folded = writer[s].snap
<1> DEFINE r == q \o Unpublished(writer[s])
<1>1. r \in Seq(Frames)
  BY UnpublishedType
<1>2. Tracks(Folded(h, r), writer[s].snap)
  BY DEF Feeds
<1> HIDE DEF r
<1>3. Folded(h, r).header = h.header
  BY <1>1, FoldedKeeps
<1>4. /\ FrameFields(Folded(h, r)) = FrameFields(writer[s].snap)
      /\ h.header # Nil => Folded(h, r) = writer[s].snap
  BY <1>2, <1>3 DEF Tracks
<1> QED
  BY <1>4 DEF r

LEMMA InitSteady ==
  ASSUME SeamInit
  PROVE  \A s \in Sessions : SteadyInv(s)
BY DEF SeamInit, Down, SteadyInv, Feeds, Loaded, QueuesOf

\* A reader that opens a subscription, reads from one, closes one keeps it all.
LEMMA ReaderSteady ==
  ASSUME NEW s \in Sessions, SteadyInv(s), UNCHANGED <<store, writer>>,
         \A g \in Subs : \/ chan'[g] = Nil \/ chan'[g].queue = <<>>
                         \/ /\ chan[g] # Nil /\ chan'[g].session = chan[g].session
                            /\ chan[g].queue = <<>> => chan'[g].queue = <<>>
  PROVE  SteadyInv(s)'
<1>1. Loaded(s)' = Loaded(s)
  BY DEF Loaded
<1>2. Feeds(writer'[s], Loaded(s)', <<>>, s)
  BY <1>1 DEF SteadyInv
<1>3. writer'[s].pc = "down" => store'[s] = Nil /\ \A g \in QueuesOf(s)' : chan'[g].queue = <<>>
  BY DEF SteadyInv, QueuesOf
<1> QED
  BY <1>2, <1>3 DEF SteadyInv

\* A subscription on its first connection has been on it all along.
LEMMA WholeBefore ==
  ASSUME SeamInv, SeamNext, NEW g \in Subs, chan[g] # Nil
  PROVE  /\ chan'[g].conn = "first" => chan[g].conn = "first"
         /\ "drop" \notin Faults /\ chan[g].conn = "first" => chan'[g].conn = "first"
<1>1. chan[g] \in Channels
  BY DEF SeamInv, SeamTypeOK
<1>2. CASE \E i \in Subs : ConnectionDrop(i) \/ Resubscribe(i)
  BY <1>1, <1>2 DEF ConnectionDrop, Resubscribe, Channels, SeamInv, SeamTypeOK
<1>3. CASE \E s \in Sessions : WriterStep(s) \/ PublishFails(s) \/ WriterCrash(s)
  <2>1. UNCHANGED chan \/ \E s \in Sessions : chan' = Deliver(s, writer[s].frame)
    BY <1>3 DEF WriterStep, WriterStart, WriterFold, Publish, PublishFails, WriterCrash
  <2> QED BY <1>1, <2>1 DEF Deliver, Channels
<1> QED
  BY <1>2, <1>3 DEF SeamNext
=============================================================================
