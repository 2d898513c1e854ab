-------------------------------- MODULE Comms --------------------------------
(***************************************************************************)
(* Team radio on the board (web/src/hooks/useComms.ts, state/comms.ts and  *)
(* the controls of components/Comms.tsx): clips fire when the race clock   *)
(* passes them, or when they arrive on a live lane; they queue for one     *)
(* audio element, whose answers to play() come later, or never.            *)
(*                                                                         *)
(* A radio reference is an object: two snapshots that carry the same clip  *)
(* make two of them, told apart by `born`. An effect runs after a render,  *)
(* which may have several messages behind it.                              *)
(***************************************************************************)
EXTENDS Sorting, Sequences, SequencesExt, FiniteSetsExt

CONSTANTS Recorded,     \* the radio of the replay lane's snapshot, a sequence of clips
          Transmitted,  \* the clips that the live lane publishes, in order
          Null,
          HistoryMax,   \* HISTORY_MAX
          Tolerance,    \* toleranceMs
          MaxClock, MaxSnapshots, MaxQueue  \* bounds of the model

Clips == Range(Recorded) \cup Range(Transmitted)
Refs == [clip : Clips, born : 1 .. MaxSnapshots]

\* No list has a clip twice.
ASSUME CommsAssumption ==
  /\ Recorded \in Seq(Range(Recorded)) /\ IsInjective(Recorded)
  /\ Transmitted \in Seq(Range(Transmitted)) /\ IsInjective(Transmitted)
  /\ MaxSnapshots \in Nat /\ MaxClock \in Nat
  /\ \A c \in Clips : c.timeMs \in 0 .. MaxClock /\ c.allowed \in BOOLEAN
  /\ HistoryMax \in Nat \ {0} /\ Tolerance \in Nat
  /\ Null \notin Refs

VARIABLES
  lane, clock, radio, snapshotSeq,  \* the board's state: session, timeMs, radio, snapshotSeq
  published,     \* how many clips the live lane has published
  dirty,         \* rendered since the effect ran
  enabled, queue, nowPlaying, history, error,
  cursor,        \* cursorRef.lastClock, and clockRef
  seenSeq, seenLen,  \* lastSnapshotSeqRef, prevRadioLenRef
  live,          \* liveRef
  audio,         \* the element: its source and what its last play() came to
  late,          \* a rejection that pause() has queued as a task; one at a time, as a bound
  fired, since   \* history: what fired since the last reseed or loop, and its clock and length

board == <<lane, clock, radio, snapshotSeq, published>>
player == <<queue, nowPlaying, error, audio>>
seen == <<history, cursor, seenSeq, seenLen, live, fired, since>>
commsVars == <<board, dirty, enabled, player, seen, late>>

CommsInit ==
  /\ lane = "replay" /\ clock = 0 /\ radio = <<>> /\ snapshotSeq = 0 /\ published = 0
  /\ dirty = FALSE /\ enabled = FALSE /\ error = FALSE
  /\ queue = <<>> /\ nowPlaying = Null /\ history = <<>> /\ late = Null
  /\ cursor = -1 /\ seenSeq = -1 /\ seenLen = 0 /\ live = {}
  /\ audio = [src |-> Null, phase |-> "idle"]
  /\ fired = <<>> /\ since = [clock |-> -1, len |-> 0]

-----------------------------------------------------------------------------
(* What the board's state does: the environment of the hook. *)

Objects(clips) == [i \in DOMAIN clips |-> [clip |-> clips[i], born |-> snapshotSeq + 1]]

\* A snapshot: the first, after a reconnect, or of the other lane. A live lane has
\* published only what was spoken by then.
SnapshotArrives(l, t) ==
  /\ snapshotSeq < MaxSnapshots
  /\ snapshotSeq' = snapshotSeq + 1 /\ dirty' = TRUE
  /\ lane' = l /\ clock' = t
  /\ published' \in published .. Len(Transmitted)
  /\ l = "live" => \A i \in 1 .. published' : Transmitted[i].timeMs <= t
  /\ radio' = Objects(IF l = "replay" THEN Recorded ELSE SubSeq(Transmitted, 1, published'))
  /\ UNCHANGED <<enabled, player, seen, late>>

\* A frame of a live lane may bring a clip, spoken at or before now.
FrameArrives ==
  /\ snapshotSeq > 0 /\ clock < MaxClock
  /\ clock' = clock + 1 /\ dirty' = TRUE
  /\ \/ UNCHANGED <<radio, published>>
     \/ /\ lane = "live" /\ published < Len(Transmitted)
        /\ Transmitted[published + 1].timeMs <= clock'
        /\ published' = published + 1
        /\ radio' = Append(radio, [clip |-> Transmitted[published'], born |-> snapshotSeq])
  /\ UNCHANGED <<lane, snapshotSeq, enabled, player, seen, late>>

\* The replay's clock jumps: the clip loops, or the demo is scrubbed.
Seek(t) ==
  /\ snapshotSeq > 0 /\ lane = "replay" /\ t # clock
  /\ clock' = t /\ dirty' = TRUE
  /\ UNCHANGED <<lane, radio, snapshotSeq, published, enabled, player, seen, late>>

-----------------------------------------------------------------------------
\* The references that the panel has at these indices, sorted by timeMs.
ByTime[I \in SUBSET DOMAIN radio] == StableSort(radio, [i \in I |-> radio[i].clip.timeMs])

isStale(m, now) == now - m.clip.timeMs > Tolerance

\* A new source: play() of the old one, if unanswered, is rejected at once, and
\* its handler takes a banner that shows the same object for its own.
Play(m) ==
  LET ownBanner == audio.phase = "pending" /\ audio.src = m
  IN  /\ audio' = [src |-> m, phase |-> "pending"]
      /\ nowPlaying' = IF ownBanner THEN Null ELSE m
      /\ error' = ownBanner

Playable(q, now, arrivals) ==
  {i \in DOMAIN q : q[i].clip.allowed /\ (isStale(q[i], now) => q[i] \in arrivals)}

\* pump() of an idle player on queue q: the first clip that is neither stale, a
\* live arrival apart, nor of a disallowed origin; those before it are skipped.
Pump(q, now, arrivals) ==
  IF Playable(q, now, arrivals) = {}
  THEN queue' = <<>> /\ UNCHANGED <<nowPlaying, error, audio>>
  ELSE LET k == Min(Playable(q, now, arrivals))
       IN  Play(q[k]) /\ queue' = SubSeq(q, k + 1, Len(q))

\* stepComms: what the clock has passed since the cursor. After a snapshot, or
\* when the clock has gone back, nothing fires.
isSnapshot == seenSeq # snapshotSeq
looped == ~isSnapshot /\ clock < cursor

\* clockFired, as indices
Passed ==
  IF isSnapshot \/ looped THEN {}
  ELSE {i \in DOMAIN radio : cursor < radio[i].clip.timeMs /\ radio[i].clip.timeMs <= clock}

\* liveArrivals: the radio has grown, and not by a snapshot.
Arrivals == IF isSnapshot THEN {} ELSE seenLen + 1 .. Len(radio)
Arrived == IF Arrivals = {} THEN <<>> ELSE SubSeq(radio, seenLen + 1, Len(radio))

Fired_Both == ByTime[Passed] \o Arrived

\* A live clip with hardly any lag is passed by the clock too: arrival wins.
Fired == ByTime[Passed \ Arrivals] \o Arrived

Newest(refs) == SubSeq(refs, 1, IF Len(refs) < HistoryMax THEN Len(refs) ELSE HistoryMax)

\* A snapshot with radio behind its clock replaces the history, silently.
NewHistory ==
  LET passed == ByTime[{i \in DOMAIN radio : radio[i].clip.timeMs <= clock}]
  IN  IF isSnapshot
      THEN IF passed = <<>> THEN history ELSE Newest(Reverse(passed))
      ELSE Newest(Reverse(Fired) \o history)

\* The effect keyed on state.rev and state.snapshotSeq; refs is what fired.
StepEffect == dirty /\ \E refs \in {Fired} :
  /\ dirty' = FALSE
  /\ cursor' = clock /\ seenSeq' = snapshotSeq /\ seenLen' = Len(radio)
  /\ live' = live \cup Range(Arrived)
  /\ history' = NewHistory
  /\ IF refs # <<>> /\ enabled
     THEN IF nowPlaying = Null THEN Pump(queue \o refs, clock, live')
                              ELSE queue' = queue \o refs /\ UNCHANGED <<nowPlaying, error, audio>>
     ELSE UNCHANGED player
  /\ fired' = IF isSnapshot \/ looped THEN <<>> ELSE fired \o refs
  /\ Len(queue') <= MaxQueue
  /\ since' = IF isSnapshot \/ looped THEN [clock |-> clock, len |-> Len(radio)] ELSE since
  /\ UNCHANGED <<board, enabled, late>>

-----------------------------------------------------------------------------
(* The audio element's answers. *)

Starts ==
  /\ audio.phase = "pending" /\ audio' = [audio EXCEPT !.phase = "playing"]
  /\ UNCHANGED <<board, dirty, enabled, queue, nowPlaying, error, seen, late>>

\* The handler of a rejection: only the clip that is still current is cleared.
Rejected(m) ==
  IF nowPlaying = m THEN nowPlaying' = Null /\ error' = TRUE
                    ELSE UNCHANGED <<nowPlaying, error>>

Refused_Swallowed ==
  /\ audio.phase = "pending" /\ audio' = [audio EXCEPT !.phase = "idle"]
  /\ UNCHANGED <<board, dirty, enabled, queue, nowPlaying, error, seen, late>>

\* play() is rejected: autoplay is blocked, or the clip cannot be had.
Refused ==
  /\ audio.phase = "pending" /\ audio' = [audio EXCEPT !.phase = "idle"]
  /\ Rejected(audio.src)
  /\ UNCHANGED <<board, dirty, enabled, queue, seen, late>>

LateRejection ==
  /\ late # Null /\ late' = Null
  /\ Rejected(late)
  /\ UNCHANGED <<board, dirty, enabled, queue, audio, seen>>

\* The network fails in the middle of a clip: no handler hears of it.
Breaks ==
  /\ audio.phase = "playing" /\ audio' = [audio EXCEPT !.phase = "stalled"]
  /\ UNCHANGED <<board, dirty, enabled, queue, nowPlaying, error, seen, late>>

Ended_NoPump ==
  /\ audio.phase = "playing"
  /\ audio' = [audio EXCEPT !.phase = "idle"]
  /\ nowPlaying' = Null
  /\ UNCHANGED <<board, dirty, enabled, queue, error, seen, late>>

\* onEnded: the queue is drained into an element that has nothing to play.
Ended ==
  /\ audio.phase = "playing"
  /\ IF Playable(queue, cursor, live) = {}
     THEN /\ queue' = <<>> /\ nowPlaying' = Null
          /\ audio' = [audio EXCEPT !.phase = "idle"]
          /\ UNCHANGED error
     ELSE Pump(queue, cursor, live)
  /\ UNCHANGED <<board, dirty, enabled, seen, late>>

-----------------------------------------------------------------------------
(* The controls. *)

\* toggle(): off silences, and pause() rejects an unanswered play() in a task.
Toggle ==
  /\ enabled' = ~enabled
  /\ IF enabled
     THEN /\ queue' = <<>> /\ nowPlaying' = Null /\ error' = FALSE
          /\ audio' = [audio EXCEPT !.phase = "idle"]
          /\ IF audio.phase = "pending" THEN late = Null /\ late' = audio.src ELSE UNCHANGED late
     ELSE UNCHANGED <<player, late>>
  /\ UNCHANGED <<board, dirty, seen>>

\* replay(), from the banner or the history; both are shown only when enabled.
Replay(m) ==
  /\ enabled
  /\ m = nowPlaying \/ m \in Range(history)
  /\ IF m.clip.allowed THEN queue' = <<>> /\ Play(m)
                       ELSE error' = TRUE /\ UNCHANGED <<queue, nowPlaying, audio>>
  /\ UNCHANGED <<board, dirty, enabled, seen, late>>

CommsNext ==
  \/ \E l \in {"replay", "live"}, t \in 0 .. MaxClock : SnapshotArrives(l, t)
  \/ FrameArrives
  \/ \E t \in 0 .. MaxClock : Seek(t)
  \/ StepEffect
  \/ Starts \/ Refused \/ LateRejection \/ Breaks \/ Ended
  \/ Toggle
  \/ \E m \in Range(history) \cup ({nowPlaying} \ {Null}) : Replay(m)

CommsSpec == CommsInit /\ [][CommsNext]_commsVars

\* A render's effects run, and a play() is answered; a clip that plays ends,
\* unless the network fails it.
Fairness ==
  /\ WF_commsVars(StepEffect) /\ WF_commsVars(LateRejection)
  /\ WF_commsVars(Starts \/ Refused) /\ WF_commsVars(Ended \/ Breaks)

FairSpec == CommsSpec /\ Fairness

-----------------------------------------------------------------------------
\* Every clip fires exactly once: those that the clock has passed and those that
\* arrived since the last snapshot or loop, however many messages a render has
\* behind it, and none because of a reconnect, a change of lane, or a seek back.
FiredExactlyOnce ==
  /\ IsInjective(fired)
  /\ ~dirty => Range(fired) =
       {radio[i] : i \in since.len + 1 .. Len(radio)} \cup
       {m \in Range(radio) : since.clock < m.clip.timeMs /\ m.clip.timeMs <= clock}

\* The banner names the clip that the element has, refused ones excluded.
BannerIsHeard ==
  nowPlaying # Null => audio.src = nowPlaying /\ audio.phase # "idle"

\* A queue is not left standing: the element takes from it again and again, is
\* emptied, has failed in the middle of a clip, or the panel shows an error.
QueueMoves ==
  []<>(queue = <<>> \/ error \/ audio.phase = "stalled") \/ []<><<Ended>>_commsVars
=============================================================================
