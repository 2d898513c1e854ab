------------------------------ MODULE DemoBoard ------------------------------
(***************************************************************************)
(* The board of the static demo (web/src/App.tsx over StaticReplay): the   *)
(* lazy connection, Freeze, the transport that replaces it once the clip   *)
(* has loaded, and the notice that the clip has looped. React commits a    *)
(* state in the step that sets it.                                         *)
(***************************************************************************)
EXTENDS StaticReplay

VARIABLES
  route, frozen,
  shown,         \* App's `state`; latestRef.current is the player's
  replayPaused,
  seenLoop, justLooped

viewVars == <<route, frozen, shown, replayPaused, seenLoop, justLooped>>
demoVars == <<replayVars, viewVars>>

DemoTypeOK ==
  /\ ReplayTypeOK
  /\ route \in {"board", "ghost"}
  /\ frozen \in BOOLEAN /\ replayPaused \in BOOLEAN /\ justLooped \in BOOLEAN
  /\ seenLoop \in Nat

replayReady == loaded /\ Duration > 0

\* App mounts on the board, where StrictMode mounts it twice, or on another
\* route, where nothing is fetched.
DemoInit ==
  /\ ReplayInit
  /\ \/ route = "board" /\ call \in 1 .. 2 /\ fetches = 1 .. call
     \/ route = "ghost" /\ call = 0 /\ fetches = {}
  /\ frozen = FALSE /\ shown = EmptyState
  /\ replayPaused = FALSE /\ seenLoop = 0 /\ justLooped = FALSE

\* setState(s), and the render that compares its loop counter.
Show(s) ==
  /\ shown' = s
  /\ seenLoop' = s.loopSeq
  /\ justLooped' = (justLooped \/ s.loopSeq # seenLoop)

\* onState: what arrives while the board is frozen is only remembered.
OnState ==
  IF frozen THEN UNCHANGED <<shown, seenLoop, justLooped>> ELSE Show(state')

Play ==
  /\ \E j \in DOMAIN timers : PlayMessage(j)
  /\ OnState
  /\ UNCHANGED <<route, frozen, replayPaused>>

Answer(c) == (FetchFails(c) \/ Loads(c)) /\ UNCHANGED viewVars

Wrap == (\E j \in DOMAIN timers : StartLap(j)) /\ UNCHANGED viewVars

Tick == PlayerTick /\ UNCHANGED viewVars

\* A hash change. The first visit to the board connects; leaving tears nothing down.
Navigate ==
  /\ route' = IF route = "board" THEN "ghost" ELSE "board"
  /\ IF route' = "board" /\ call = 0 THEN Connect(1) ELSE UNCHANGED replayVars
  /\ UNCHANGED <<frozen, shown, replayPaused, seenLoop, justLooped>>

\* Freeze / Resume, the button until the clip has loaded.
ToggleFrozen ==
  /\ route = "board" /\ ~replayReady
  /\ frozen' = ~frozen
  /\ IF frozen THEN Show(state) ELSE UNCHANGED <<shown, seenLoop, justLooped>>
  /\ UNCHANGED <<replayVars, route, replayPaused>>

\* Pause / Play, the button after that.
ToggleReplayPaused ==
  /\ route = "board" /\ replayReady
  /\ replayPaused' = ~replayPaused
  /\ IF replayPaused THEN Resume ELSE Pause
  /\ UNCHANGED <<call, fetches, status, loaded, route, frozen, shown, seenLoop, justLooped>>

\* The slider is moved; its maximum is one short of the clip's end.
ScrubReplay(v) ==
  /\ route = "board" /\ replayReady
  /\ Scrub(v)
  /\ OnState
  /\ UNCHANGED <<call, fetches, status, loaded, route, frozen, replayPaused>>

\* The notice is dismissed, or has been up for LOOP_NOTICE_MS.
NoticeEnds ==
  /\ justLooped /\ justLooped' = FALSE
  /\ UNCHANGED <<replayVars, route, frozen, shown, replayPaused, seenLoop>>

DemoNext ==
  \/ \E c \in 1 .. 2 : Answer(c)
  \/ Play \/ Wrap \/ Tick
  \/ Navigate \/ ToggleFrozen \/ ToggleReplayPaused \/ NoticeEnds
  \/ \E v \in 0 .. Duration - 1 : ScrubReplay(v)

DemoSpec == DemoInit /\ [][DemoNext]_demoVars

\* A fetch answers, time passes and timers that are due fire.
DemoFairness ==
  /\ \A c \in 1 .. 2 : WF_demoVars(Answer(c))
  /\ WF_demoVars(Play) /\ WF_demoVars(Wrap) /\ WF_demoVars(Tick)

DemoFairSpec == DemoSpec /\ DemoFairness

-----------------------------------------------------------------------------
\* Wherever playing, pausing, scrubbing and looping have led, the state is that
\* of this lap up to the frame reached: the clock, the log, whose first message
\* is the lap's first, and every car that the lap has shown.
LapSoFar ==
  state.rev > 0 =>
    LET done == {i \in ClipFrames : Bump(i).data.rev <= state.rev}
        lap  == Replayed(CHOOSE i \in done : \A j \in done : j <= i)
    IN  done # {} =>
          /\ state.timeMs = lap.timeMs
          /\ state.messages = lap.messages
          /\ \A d \in DOMAIN lap.cars : d \in DOMAIN state.cars /\ state.cars[d] = lap.cars[d]

\* No frame that playback fires is dropped as stale, on any lap, also after a
\* scrub: the board moves with every one ("freezing the map after one lap").
NoFrameDropped == [][Play /\ state.rev > 0 => state'.rev > state.rev]_demoVars

\* Left alone, a player that was not paused plays lap after lap.
LeftAloneLoops ==
  <>[][~ToggleReplayPaused /\ ~\E v \in 0 .. Duration - 1 : ScrubReplay(v)]_demoVars
    => <>[](~loaded \/ paused \/ laps = MaxLaps)
=============================================================================
