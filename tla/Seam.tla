-------------------------------- MODULE Seam --------------------------------
(***************************************************************************)
(* The lanes' writers and Redis: each writer (internal/app/writer.go, and  *)
(* the Python publishers, which keep the same protocol) folds the frames   *)
(* of its source into an in-memory snapshot and, frame by frame, SETs the  *)
(* snapshot and PUBLISHes the frame; Redis keeps one snapshot per lane and *)
(* hands a published frame to the subscriptions open at that moment.       *)
(***************************************************************************)
EXTENDS RaceModel

CONSTANTS Subs,       \* identifiers of the subscriptions a gateway may open
          Clip,       \* what each lane's source plays
          Wallclock,  \* the lanes whose player starts at the wall clock's phase
          PythonClip, \* the lanes published by live.py's publish_clip
          MaxRev,     \* bound: a writer folds no frame above this Rev
          Faults      \* which of FaultKinds may happen

FaultKinds == {"crash", "set", "publish", "drop", "gateway", "restart"}

ASSUME ClipAssumption ==
  Clip \in [Sessions -> [header : Data, radio : Seq(Data), lines : Seq(Bodies) \ {<<>>}]]
ASSUME LanesAssumption ==
  Wallclock \subseteq Sessions /\ PythonClip \subseteq Sessions \ Wallclock
ASSUME FaultsAssumption == Faults \subseteq FaultKinds

VARIABLES
  store,   \* [Sessions -> Snapshot or Nil]: the snapshot:{s} keys
  writer,  \* [Sessions -> record]: the process publishing each lane
  chan     \* [Subs -> record or Nil]: the open subscriptions to frames:{s}

seamVars == <<store, writer, chan>>

Writers ==
  [pc    : {"down", "ready", "set", "publish"},
   snap  : Snapshots \cup {Nil},   \* snap, its Rev the writer's rev
   frame : Frames \cup {Nil},      \* the frame being published
   pos   : Nat]                    \* the next line of the clip

\* conn tells "first", the connection it was opened on, from "again", a later one,
\* for the properties: the code does not know the two apart.
Channels ==
  [session : Sessions, conn : {"first", "lost", "again"}, queue : Seq(Frames)]

ASSUME NoChannelAssumption == Nil \notin Channels

SeamTypeOK ==
  /\ store \in [Sessions -> Snapshots \cup {Nil}]
  /\ writer \in [Sessions -> Writers]
  /\ chan \in [Subs -> Channels \cup {Nil}]

Down == [pc |-> "down", snap |-> Nil, frame |-> Nil, pos |-> 0]

SeamInit ==
  /\ store = [s \in Sessions |-> Nil]
  /\ writer = [s \in Sessions |-> Down]
  /\ chan = [i \in Subs |-> Nil]

\* The snapshot a reader of the lane's key starts from: an empty one if nobody has
\* published the lane yet.
Loaded(s) == IF store[s] = Nil THEN NewSnapshot(s) ELSE store[s]

StoredRev(s) == IF store[s] = Nil THEN 0 ELSE store[s].rev

\* The frame that writer w has folded and has yet to publish.
Unpublished(w) == IF w.pc \in {"set", "publish"} THEN <<w.frame>> ELSE <<>>

-----------------------------------------------------------------------------
\* replay.Source.Baked: the session constants of the clip header
Baked(s) ==
  [NewSnapshot(s) EXCEPT !.header = Clip[s].header, !.radio = Clip[s].radio]

\* The line the player emits first: frameAtWallclock may pick any of them.
FirstLines(s) == IF s \in Wallclock THEN DOMAIN Clip[s].lines ELSE {1}

NextLine(s, i) == (i % Len(Clip[s].lines)) + 1

\* Run with `base` left at zero whatever the lane's key holds.
WriterStart_FromZero(s) ==
  /\ writer[s].pc = "down"
  /\ \E i \in FirstLines(s) :
       writer' = [writer EXCEPT ![s] =
                    [pc |-> "ready", snap |-> Baked(s), frame |-> Nil, pos |-> i]]
  /\ UNCHANGED <<store, chan>>

\* Writer.Run up to its loop: continue Rev above the stored snapshot. A failed
\* GET ends the process before it has done anything.
WriterStart(s) ==
  /\ writer[s].pc = "down"
  /\ \E i \in FirstLines(s) :
       writer' = [writer EXCEPT ![s] =
                    [pc    |-> "ready",
                     snap  |-> [Baked(s) EXCEPT !.rev = StoredRev(s)],
                     frame |-> Nil,
                     pos   |-> i]]
  /\ UNCHANGED <<store, chan>>

Fold(s, snap, f) ==
  IF s \in PythonClip THEN PublishClipFold(snap, f) ELSE Apply(snap, f)

\* What the source says on a line: publish_clip leaves its radio out.
Line(s, i) ==
  IF s \in PythonClip THEN [Clip[s].lines[i] EXCEPT !.radio = <<>>] ELSE Clip[s].lines[i]

\* One turn of Run's loop up to Publish: stamp the source's frame, fold it.
WriterFold(s) ==
  /\ writer[s].pc = "ready"
  /\ writer[s].snap.rev < MaxRev
  /\ LET w == writer[s]
         f == Stamp(s, w.snap.rev + 1, Line(s, w.pos))
     IN  writer' = [writer EXCEPT ![s] =
                      [pc |-> "set", snap |-> Fold(s, w.snap, f), frame |-> f,
                       pos |-> NextLine(s, w.pos)]]
  /\ UNCHANGED <<store, chan>>

Deliver(s, f) ==
  [i \in Subs |->
     IF chan[i] # Nil /\ chan[i].session = s /\ chan[i].conn # "lost"
     THEN [chan[i] EXCEPT !.queue = Append(@, f)]
     ELSE chan[i]]

GoTo(s, pc) == writer' = [writer EXCEPT ![s].pc = pc]

\* Publish with the two calls the other way round.
Publish_FrameFirst(s) ==
  \/ /\ writer[s].pc = "set"
     /\ chan' = Deliver(s, writer[s].frame)
     /\ GoTo(s, "publish")
     /\ UNCHANGED store
  \/ /\ writer[s].pc = "publish"
     /\ store' = [store EXCEPT ![s] = writer[s].snap]
     /\ GoTo(s, "ready")
     /\ UNCHANGED chan

\* Bus.Publish: SET, then PUBLISH.
Publish(s) ==
  \/ /\ writer[s].pc = "set"
     /\ store' = [store EXCEPT ![s] = writer[s].snap]
     /\ GoTo(s, "publish")
     /\ UNCHANGED chan
  \/ /\ writer[s].pc = "publish"
     /\ chan' = Deliver(s, writer[s].frame)
     /\ GoTo(s, "ready")
     /\ UNCHANGED store

\* Either call may fail: the Go writer logs the error and goes on to the next
\* frame, its Rev and its in-memory snapshot already advanced; publish_clip
\* handles no error, so the process dies.
PublishFails(s) ==
  /\ writer[s].pc \in {"set", "publish"} \cap Faults
  /\ IF s \in PythonClip THEN writer' = [writer EXCEPT ![s] = Down]
                         ELSE GoTo(s, "ready")
  /\ UNCHANGED <<store, chan>>

WriterCrash(s) ==
  /\ "crash" \in Faults
  /\ writer[s].pc # "down"
  /\ writer' = [writer EXCEPT ![s] = Down]
  /\ UNCHANGED <<store, chan>>

\* The connection of subscription i is lost, and every frame that Redis publishes
\* from here on (one that is lost on the way was published after it). What has
\* arrived can still be read; the channel that consume reads stays open.
ConnectionDrop(i) ==
  /\ "drop" \in Faults
  /\ chan[i] # Nil /\ chan[i].conn # "lost"
  /\ chan' = [chan EXCEPT ![i].conn = "lost"]
  /\ UNCHANGED <<store, writer>>

\* The client library connects and subscribes again by itself, and tells nobody:
\* the next frame published comes out of the same channel.
Resubscribe(i) ==
  /\ chan[i] # Nil /\ chan[i].conn = "lost"
  /\ chan' = [chan EXCEPT ![i].conn = "again"]
  /\ UNCHANGED <<store, writer>>

WriterStep(s) == WriterStart(s) \/ WriterFold(s) \/ Publish(s)

SeamNext ==
  \/ \E s \in Sessions : WriterStep(s) \/ PublishFails(s) \/ WriterCrash(s)
  \/ \E i \in Subs : ConnectionDrop(i) \/ Resubscribe(i)
=============================================================================
