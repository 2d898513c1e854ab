------------------------------ MODULE RaceModel ------------------------------
(***************************************************************************)
(* The event model that Python, Go and the browser share: snapshots,       *)
(* frames, and the three reducers that fold a frame into a snapshot        *)
(* (internal/model/apply.go, ingest/live.py, web/src/state/race.ts).       *)
(*                                                                         *)
(* A car state, a race-control message, a radio reference, a weather       *)
(* reading and a clip header (track, corners, stints...: the fields no     *)
(* frame ever carries) are opaque members of Data.                         *)
(***************************************************************************)
EXTENDS Integers, Sequences, FiniteSets, Functions, TLC

CONSTANTS Sessions,     \* the session keys, one per lane
          Drivers,      \* driver numbers
          Data,         \* opaque payloads
          Nil,          \* the absent payload, snapshot or frame
          MaxMessages,  \* maxMessages / MAX_MESSAGES / _MAX_MESSAGES
          LoopRewind    \* LOOP_REWIND_MS

ASSUME MaxMessagesAssumption == MaxMessages \in Nat \ {0}
ASSUME LoopRewindAssumption == LoopRewind \in Nat

CarMaps == UNION {[D -> Data] : D \in SUBSET Drivers}

Snapshots ==
  [session  : Sessions,
   header   : Data \cup {Nil},
   rev      : Nat,
   timeMs   : Int,
   cars     : CarMaps,
   messages : Seq(Data),
   radio    : Seq(Data),
   weather  : Data \cup {Nil}]

\* What a clip line or a live tick says, before the writer stamps it.
Bodies ==
  [timeMs : Int, cars : CarMaps, messages : Seq(Data), radio : Seq(Data),
   weather : Data \cup {Nil}]

Frames ==
  [session : Sessions, rev : Nat, timeMs : Int, cars : CarMaps,
   messages : Seq(Data), radio : Seq(Data), weather : Data \cup {Nil}]

ASSUME NilAssumption == Nil \notin Data \cup Sessions \cup Snapshots \cup Frames

NewSnapshot(s) ==
  [session |-> s, header |-> Nil, rev |-> 0, timeMs |-> 0, cars |-> <<>>,
   messages |-> <<>>, radio |-> <<>>, weather |-> Nil]

Stamp(s, rev, body) ==
  [session |-> s, rev |-> rev, timeMs |-> body.timeMs, cars |-> body.cars,
   messages |-> body.messages, radio |-> body.radio, weather |-> body.weather]

\* The payloads of a snapshot or a frame that frames bring.
Carried(x) ==
  Range(x.cars) \cup Range(x.messages) \cup Range(x.radio) \cup ({x.weather} \ {Nil})

-----------------------------------------------------------------------------
KeepLast(log, n) ==
  IF Len(log) > n THEN SubSeq(log, Len(log) - n + 1, Len(log)) ELSE log

\* cars in f replace the same drivers' cars in s; the others survive
MergeCars(s, f) ==
  [d \in DOMAIN s.cars \cup DOMAIN f.cars |->
     IF d \in DOMAIN f.cars THEN f.cars[d] ELSE s.cars[d]]

\* The parts of a fold the three reducers have in common. `carried` is what is
\* left of the message log once a loop has been looked for.
FoldOnto(s, f, carried) ==
  [s EXCEPT !.cars     = MergeCars(s, f),
            !.messages = KeepLast(carried \o f.messages, MaxMessages),
            !.radio    = @ \o f.radio,
            !.weather  = IF f.weather = Nil THEN @ ELSE f.weather,
            !.timeMs   = f.timeMs,
            !.rev      = f.rev]

Stale(s, f) == f.rev <= s.rev

\* live.py publish_clip, its loop body and fold_messages: nothing is ever cleared.
PublishClipFold(s, f) == FoldOnto(s, f, s.messages)

\* apply.go Apply: a frame at or below the snapshot's Rev is ignored; a clock
\* that runs backwards at all means the clip looped, and drops the messages.
Apply(s, f) ==
  IF Stale(s, f) THEN s
  ELSE FoldOnto(s, f, IF f.timeMs < s.timeMs THEN <<>> ELSE s.messages)

\* What frames bring up to date whatever a snapshot started from.
FrameFields(snap) ==
  [session |-> snap.session, rev |-> snap.rev, timeMs |-> snap.timeMs, cars |-> snap.cars,
   messages |-> snap.messages, weather |-> snap.weather]

\* A snapshot once the frames of q have been applied to it one by one.
Folded(s, q) ==
  LET fold[i \in 0 .. Len(q)] == IF i = 0 THEN s ELSE Apply(fold[i - 1], q[i])
  IN  fold[Len(q)]

-----------------------------------------------------------------------------
(***************************************************************************)
(* race.ts: the browser's state is a snapshot with two counters. Its       *)
(* messages come in envelopes (internal/ws/frame.go).                      *)
(***************************************************************************)
Envelopes ==
  [type : {"snapshot"}, data : Snapshots] \cup [type : {"frame"}, data : Frames]

SnapshotMsg(snap) == [type |-> "snapshot", data |-> snap]
FrameMsg(f) == [type |-> "frame", data |-> f]

RaceStates ==
  [session     : Sessions \cup {Nil},  \* Nil before the first snapshot
   header      : Data \cup {Nil},
   rev         : Nat,
   timeMs      : Int,
   cars        : CarMaps,
   messages    : Seq(Data),
   radio       : Seq(Data),
   weather     : Data \cup {Nil},
   snapshotSeq : Nat,
   loopSeq     : Nat]

\* A snapshot as the browser keeps it, and the snapshot it keeps.
RaceState(snap, snapshots, loops) ==
  [session |-> snap.session, header |-> snap.header, rev |-> snap.rev,
   timeMs |-> snap.timeMs, cars |-> snap.cars, messages |-> snap.messages,
   radio |-> snap.radio, weather |-> snap.weather,
   snapshotSeq |-> snapshots, loopSeq |-> loops]

Shown(state) ==
  [session |-> state.session, header |-> state.header, rev |-> state.rev,
   timeMs |-> state.timeMs, cars |-> state.cars, messages |-> state.messages,
   radio |-> state.radio, weather |-> state.weather]

EmptyState == RaceState(NewSnapshot(Nil), 0, 0)

\* Only a clock that jumps back further than LOOP_REWIND_MS counts as a loop.
Looped(s, f) == s.rev > 0 /\ f.timeMs < s.timeMs - LoopRewind

Replace(s, snap) == RaceState(snap, s.snapshotSeq + 1, s.loopSeq)

ApplyFrameMsg(s, f) ==
  IF Stale(s, f) THEN s
  ELSE [FoldOnto(s, f, IF Looped(s, f) THEN <<>> ELSE s.messages)
          EXCEPT !.loopSeq = IF Looped(s, f) THEN @ + 1 ELSE @]

\* A snapshot replaces the state only if it is not behind it, as section 2.6
\* of docs/F1_Race_Tracker_Tech_Scope.md has it.
ApplyMessage_RevGated(s, msg) ==
  CASE msg.type = "snapshot" -> IF Stale(s, msg.data) THEN s ELSE Replace(s, msg.data)
    [] msg.type = "frame"    -> ApplyFrameMsg(s, msg.data)

\* applyMessage: a snapshot replaces everything, whatever its Rev.
ApplyMessage(s, msg) ==
  CASE msg.type = "snapshot" -> Replace(s, msg.data)
    [] msg.type = "frame"    -> ApplyFrameMsg(s, msg.data)

\* The browser's state once it has read the envelopes of q.
Received(s, q) ==
  LET fold[i \in 0 .. Len(q)] == IF i = 0 THEN s ELSE ApplyMessage(fold[i - 1], q[i])
  IN  fold[Len(q)]
=============================================================================
