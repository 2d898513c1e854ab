----------------------------- MODULE StaticReplay -----------------------------
(***************************************************************************)
(* The player behind the static demo (web/src/realtime/staticReplay.ts):   *)
(* fetches a baked clip, then folds its messages into the board's state at *)
(* the pace of their own clock, lap after lap, under pause, resume and     *)
(* scrub. A unit of the model's time is the grain of the clip's timeMs.    *)
(***************************************************************************)
EXTENDS RaceModel

CONSTANTS Clip,      \* the baked messages that parse: Seq(Envelopes)
          MaxStall,  \* how late a timer may fire
          MaxLaps    \* bound of the model: the laps that are played

ClipFrames == {i \in DOMAIN Clip : Clip[i].type = "frame"}

\* What bake-static writes: a snapshot of the clip's header, with no cars, then the
\* clip's frames in order, their Revs counted from 1.
ASSUME ClipAssumption ==
  /\ Clip \in Seq(Envelopes) /\ Len(Clip) > 1
  /\ Clip[1].type = "snapshot" /\ Clip[1].data.rev = 0
  /\ Clip[1].data.cars = <<>> /\ Clip[1].data.messages = <<>>
  /\ \A i \in 2 .. Len(Clip) : Clip[i].type = "frame" /\ Clip[i].data.rev = i - 1
  /\ \A i, j \in 2 .. Len(Clip) : i < j => Clip[i].data.timeMs <= Clip[j].data.timeMs
  /\ MaxStall \in Nat /\ MaxLaps \in Nat

VARIABLES
  call,     \* the number of the call of connectStaticReplay that is not closed
  fetches,  \* the calls whose fetch has not answered
  status,   \* what onStatus last reported
  loaded,   \* control is set
  paused, state,
  laps,     \* lapsCompleted
  next,     \* nextIndex
  reached,  \* lastOffset
  clock,    \* Date.now() - loopStart
  timers    \* pending setTimeouts; `timer` is the handle of the last one

playVars == <<paused, state, laps, next, reached, clock, timers>>
replayVars == <<call, fetches, status, loaded, playVars>>

\* loopRestartIndex: the first frame, so that the snapshot plays only once.
Restart == CHOOSE i \in ClipFrames : \A j \in ClipFrames : i <= j

Offset(i) ==
  IF i \in ClipFrames THEN Clip[i].data.timeMs - Clip[Restart].data.timeMs ELSE 0

Duration == CHOOSE d \in {Offset(i) : i \in DOMAIN Clip} :
              \A i \in DOMAIN Clip : Offset(i) <= d

MaxRev == CHOOSE r \in {Clip[i].data.rev : i \in ClipFrames} :
            \A i \in ClipFrames : Clip[i].data.rev <= r

Bump_Never(i) == Clip[i]

\* Rev must keep climbing over the laps, as on a real lane.
Bump(i) ==
  IF i \in ClipFrames THEN [Clip[i] EXCEPT !.data.rev = @ + laps * MaxRev] ELSE Clip[i]

\* What scrub rebuilds: the messages up to the n-th, folded from nothing.
Replayed(n) == Received(EmptyState, [i \in 1 .. n |-> Bump(i)])

TimerSet == [run : {"message", "lap"}, i : DOMAIN Clip, wait : -MaxStall .. Duration]  \* below 0: late

ReplayTypeOK ==
  /\ call \in 0 .. 2 /\ fetches \subseteq 1 .. 2
  /\ status \in {"connecting", "live", "failed"}
  /\ loaded \in BOOLEAN /\ paused \in BOOLEAN
  /\ laps \in 0 .. MaxLaps /\ next \in 1 .. Len(Clip) + 1
  /\ reached \in 0 .. Duration /\ clock \in 0 .. Duration + MaxStall
  /\ timers \in Seq(TimerSet)
  /\ Shown(state) \in Snapshots \cup {NewSnapshot(Nil)}
  /\ state.loopSeq \in Nat /\ state.snapshotSeq \in 0 .. 1

\* Before the first call; what loading the clip sets is at its initial value.
ReplayInit ==
  /\ status = "connecting" /\ loaded = FALSE /\ paused = FALSE
  /\ state = EmptyState
  /\ laps = 0 /\ next = 1 /\ reached = 0 /\ clock = 0 /\ timers = <<>>

-----------------------------------------------------------------------------
\* clearTimeout(timer): a handle whose timer has fired clears nothing.
Cleared == IF timers = <<>> THEN timers ELSE SubSeq(timers, 1, Len(timers) - 1)

PlayFrom_NoResync(i, c, others) ==
  IF i \in DOMAIN Clip
  THEN /\ clock' = c
       /\ next' = i
       /\ timers' = Append(others, [run |-> "message", i |-> i,
                                     wait |-> IF c > Offset(i) THEN 0 ELSE Offset(i) - c])
       /\ UNCHANGED laps
  ELSE /\ laps' = laps + 1
       /\ laps' <= MaxLaps
       /\ clock' = 0
       /\ next' = Restart
       /\ timers' = Append(others, [run |-> "lap", i |-> Restart, wait |-> 0])

\* playFrom(i), the clock at c, with `others` pending besides. A player that is
\* behind the message's own offset resyncs; past the end a lap is complete.
PlayFrom(i, c, others) ==
  IF i \in DOMAIN Clip
  THEN LET now == IF c > Offset(i) THEN Offset(i) ELSE c
       IN  /\ clock' = now
           /\ next' = i
           /\ timers' = Append(others, [run |-> "message", i |-> i, wait |-> Offset(i) - now])
           /\ UNCHANGED laps
  ELSE /\ laps' = laps + 1
       /\ laps' <= MaxLaps
       /\ clock' = 0
       /\ next' = Restart
       /\ timers' = Append(others, [run |-> "lap", i |-> Restart, wait |-> 0])

\* fetch, and the call that a StrictMode remount has superseded
Connect(n) ==
  /\ call = 0
  /\ call' = n /\ fetches' = 1 .. n
  /\ UNCHANGED <<status, loaded, playVars>>

\* The fetch is refused, or its text has no frame: terminal, unless another
\* call has taken this one's place.
FetchFails(c) ==
  /\ c \in fetches /\ fetches' = fetches \ {c}
  /\ status' = IF c = call THEN "failed" ELSE status
  /\ UNCHANGED <<call, loaded, playVars>>

\* The clip arrives: schedulePlayback.
Loads(c) ==
  /\ c \in fetches /\ fetches' = fetches \ {c}
  /\ \/ c = call /\ loaded' = TRUE /\ PlayFrom(1, 0, timers)
     \/ c # call /\ UNCHANGED <<loaded, laps, next, clock, timers>>
  /\ UNCHANGED <<call, status, paused, state, reached>>

Without(j) == SubSeq(timers, 1, j - 1) \o SubSeq(timers, j + 1, Len(timers))

\* A message's timer fires.
PlayMessage(j) ==
  /\ timers[j].run = "message" /\ timers[j].wait <= 0
  /\ state' = ApplyMessage(state, Bump(timers[j].i))
  /\ reached' = Offset(timers[j].i)
  /\ status' = "live"
  /\ PlayFrom(timers[j].i + 1, clock, Without(j))
  /\ UNCHANGED <<call, fetches, loaded, paused>>

\* The timer between two laps fires.
StartLap(j) ==
  /\ timers[j].run = "lap"
  /\ PlayFrom(timers[j].i, clock, Without(j))
  /\ UNCHANGED <<call, fetches, status, loaded, paused, state, reached>>

Pause ==
  /\ loaded /\ ~paused
  /\ paused' = TRUE /\ timers' = Cleared
  /\ UNCHANGED <<state, laps, next, reached, clock>>

Resume_Unarmed ==
  /\ loaded /\ paused
  /\ paused' = FALSE
  /\ UNCHANGED <<state, laps, next, reached, clock, timers>>

\* Playback goes on from the offset it had reached.
Resume ==
  /\ loaded /\ paused
  /\ paused' = FALSE
  /\ PlayFrom(next, reached, timers)
  /\ UNCHANGED <<state, reached>>

\* Where scrub lands: on the first frame at or after ms.
Target(ms) ==
  LET after == {i \in ClipFrames : Offset(i) >= ms}
  IN  IF after = {} THEN Len(Clip) ELSE CHOOSE i \in after : \A j \in after : i <= j

Scrub_KeepsState(ms) ==
  LET end == Target(ms)
  IN  /\ loaded
      /\ state' = ApplyMessage(state, Bump(end))
      /\ reached' = Offset(end)
      /\ IF paused
         THEN next' = end + 1 /\ timers' = Cleared /\ UNCHANGED <<laps, clock>>
         ELSE PlayFrom(end + 1, Offset(end), Cleared)
      /\ UNCHANGED paused

Scrub(ms) ==
  LET end == Target(ms)
  IN  /\ loaded
      /\ state' = Replayed(end) /\ reached' = Offset(end)
      /\ IF paused
         THEN next' = end + 1 /\ timers' = Cleared /\ UNCHANGED <<laps, clock>>
         ELSE PlayFrom(end + 1, Offset(end), Cleared)
      /\ UNCHANGED paused

\* Time passes; a timer that is due may be kept waiting for MaxStall. The clock
\* of a paused player is not read: resume and scrub set it.
PlayerTick ==
  /\ timers # <<>>
  /\ \A j \in DOMAIN timers : timers[j].wait > -MaxStall
  /\ clock' = clock + 1
  /\ timers' = [j \in DOMAIN timers |-> [timers[j] EXCEPT !.wait = @ - 1]]
  /\ UNCHANGED <<call, fetches, status, loaded, paused, state, laps, next, reached>>
=============================================================================
