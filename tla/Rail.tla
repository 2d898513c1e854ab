-------------------------------- MODULE Rail --------------------------------
(***************************************************************************)
(* The board's rail against the gateway it watches: Freeze (App.tsx), the  *)
(* seconds since the last frame (useStale.ts), the connection chip         *)
(* (StatusBadge.tsx) and the lane switch (SourceToggle.tsx), while other   *)
(* tabs switch lanes too.                                                  *)
(*                                                                         *)
(* Time goes by half seconds, so that a frame may come between two ticks   *)
(* of the hook's one-second interval. A RaceState is its session and Rev.  *)
(***************************************************************************)
EXTENDS Naturals, Sequences

CONSTANTS Lanes, None,
          StaleThreshold,  \* STALE_THRESHOLD_SEC
          FirstRev,        \* the Rev each lane has at first
          MaxAge,          \* bound on the half seconds told apart
          MaxFrames,       \* bound on the frames of a lane
          MaxWire          \* bound on the messages on their way

ASSUME RailAssumption ==
  /\ None \notin Lanes /\ None # "stall"
  /\ FirstRev \in [Lanes -> Nat]
  /\ MaxAge \in Nat /\ MaxAge > 2 * StaleThreshold
  /\ {StaleThreshold, MaxFrames, MaxWire} \subseteq Nat \ {0}

VARIABLES
  served,    \* the gateway's g.session
  rev,       \* [Lanes -> Nat]: the Rev of each lane
  wire,      \* what the gateway has sent on the open socket; None without one
  status,    \* what connectRace last reported
  latest,    \* latestRef: the last state that connectRace handed over
  state,     \* the state that App renders
  frozen,    \* frozen, and frozenRef with it
  staleSec,  \* useStale's result
  changed,   \* half seconds since lastChangeRef was set
  advanced,  \* history: half seconds since the board's lane last moved on
  halfway,   \* TRUE in the second half of the interval's second
  post,      \* the POST of this tab's switch: its source and how far it is
  pending,   \* the source the switch waits for, or None
  switchError \* TRUE while "switch failed" is shown

gatewayVars == <<served, rev>>
clockVars == <<changed, advanced, halfway>>
shownVars == <<latest, state, frozen, staleSec, changed, advanced>>
toggleVars == <<post, pending, switchError>>
railVars == <<gatewayVars, wire, status, shownVars, halfway, toggleVars>>

EmptyState == [session |-> None, rev |-> 0]

Older(age) == IF age < MaxAge THEN age + 1 ELSE age

RailInit ==
  /\ served \in Lanes
  /\ rev = FirstRev
  /\ wire = None
  /\ status = "connecting"
  /\ latest = EmptyState /\ state = EmptyState
  /\ frozen = FALSE
  /\ staleSec = 0 /\ changed = 0 /\ advanced = 0 /\ halfway = FALSE
  /\ post = None /\ pending = None /\ switchError = FALSE

-----------------------------------------------------------------------------
\* What a render does for useStale when it sees a new state: the counter is set
\* back at once and the effect notes the time.
Show_IntervalOnly(s) ==
  /\ state' = s
  /\ changed' = IF s.rev # state.rev THEN 0 ELSE changed
  /\ UNCHANGED staleSec

Show(s) ==
  /\ state' = s
  /\ IF s.rev # state.rev THEN changed' = 0 /\ staleSec' = 0
                          ELSE UNCHANGED <<changed, staleSec>>

\* The interval's callback, at every full second since the mount.
Tick_NoInterval == UNCHANGED staleSec
Tick == staleSec' = IF halfway THEN Older(changed) \div 2 ELSE staleSec

HalfSecond ==
  /\ changed' = Older(changed)
  /\ advanced' = Older(advanced)
  /\ halfway' = ~halfway
  /\ Tick
  /\ UNCHANGED <<gatewayVars, wire, status, latest, state, frozen, toggleVars>>

ApplyMessage_RevGated(s, m) ==
  IF m.rev > s.rev THEN [session |-> m.session, rev |-> m.rev] ELSE s

\* applyMessage: a snapshot replaces the state, a frame must be newer.
ApplyMessage(s, m) ==
  IF m.kind = "snapshot" \/ m.rev > s.rev
  THEN [session |-> m.session, rev |-> m.rev]
  ELSE s

\* A state that is news to the board: while it is frozen, of its own lane.
News(s) ==
  IF frozen THEN state.session \in {s.session, None} /\ s.rev > state.rev
            ELSE s # state

\* A message arrives: onStatus('live') for the first of a socket, then onState.
Arrive ==
  /\ wire \notin {None, <<>>}
  /\ wire' = Tail(wire)
  /\ status' = "live"
  /\ latest' = ApplyMessage(latest, Head(wire))
  /\ advanced' = IF News(latest') THEN 0 ELSE advanced
  /\ IF frozen THEN UNCHANGED <<state, staleSec, changed>> ELSE Show(latest')
  /\ UNCHANGED <<gatewayVars, frozen, halfway, toggleVars>>

ToggleFrozen ==
  /\ frozen' = ~frozen
  /\ IF frozen THEN Show(latest) ELSE UNCHANGED <<state, staleSec, changed>>
  /\ UNCHANGED <<gatewayVars, wire, status, latest, advanced, halfway, toggleVars>>

-----------------------------------------------------------------------------
\* The socket is lost, or a dial of it fails: the next attempt, or the end of
\* the budget.
Lost ==
  /\ wire # None \/ status \in {"connecting", "reconnecting"}
  /\ wire' = None
  /\ status' \in {"reconnecting", "offline"}
  /\ UNCHANGED <<gatewayVars, shownVars, halfway, toggleVars>>

\* The gateway accepts a dial and sends the snapshot of the lane on show.
Snapshot(l) == [kind |-> "snapshot", session |-> l, rev |-> rev[l]]

Opened ==
  /\ wire = None /\ status # "offline"
  /\ wire' = <<Snapshot(served)>>
  /\ status' = "connecting"
  /\ UNCHANGED <<gatewayVars, shownVars, halfway, toggleVars>>

Reconnect ==
  /\ status = "offline"
  /\ status' = "reconnecting"
  /\ UNCHANGED <<gatewayVars, wire, shownVars, halfway, toggleVars>>

\* A lane's writer publishes; the gateway forwards the lane on show.
Publish(l) ==
  /\ rev[l] < FirstRev[l] + MaxFrames
  /\ rev' = [rev EXCEPT ![l] = @ + 1]
  /\ IF l = served /\ wire # None
     THEN /\ Len(wire) < MaxWire
          /\ wire' = Append(wire, [kind |-> "frame", session |-> l, rev |-> rev'[l]])
     ELSE UNCHANGED wire
  /\ UNCHANGED <<served, status, shownVars, halfway, toggleVars>>

\* SwitchTo: every client gets the new lane's snapshot; the lane on show is left
\* alone.
SwitchTo(l) ==
  /\ served' = l
  /\ IF l # served /\ wire # None
     THEN Len(wire) < MaxWire /\ wire' = Append(wire, Snapshot(l))
     ELSE UNCHANGED wire
  /\ UNCHANGED rev

OtherTabSwitches(l) ==
  /\ l # served
  /\ SwitchTo(l)
  /\ UNCHANGED <<status, shownVars, halfway, toggleVars>>

-----------------------------------------------------------------------------
\* pick(): the segment is disabled while a switch is pending, and the one that
\* is active does nothing.
Pick(l) ==
  /\ pending = None /\ l # state.session
  /\ pending' = l
  /\ switchError' = FALSE
  /\ post' = [source |-> l, at |-> "sent"]
  /\ UNCHANGED <<gatewayVars, wire, status, shownVars, halfway>>

\* handleControl: the switch is made, or its SUBSCRIBE or GET fails (502).
Handled ==
  /\ post # None /\ post.at = "sent"
  /\ \/ SwitchTo(post.source) /\ post' = [post EXCEPT !.at = "ok"]
     \/ post' = [post EXCEPT !.at = "failed"] /\ UNCHANGED <<gatewayVars, wire>>
  /\ UNCHANGED <<status, shownVars, halfway, pending, switchError>>

\* fetch returns, or rejects wherever the request is: the answer of a switch
\* that was made may be lost.
Answered ==
  /\ post # None
  /\ \/ post.at = "ok" /\ UNCHANGED switchError
     \/ switchError' = TRUE
  /\ post' = None
  /\ pending' = None
  /\ UNCHANGED <<gatewayVars, wire, status, shownVars, halfway>>

RailNext ==
  \/ HalfSecond \/ Arrive \/ ToggleFrozen
  \/ Lost \/ Opened \/ Reconnect
  \/ \E l \in Lanes : Publish(l) \/ OtherTabSwitches(l) \/ Pick(l)
  \/ Handled \/ Answered

RailSpec == RailInit /\ [][RailNext]_railVars

\* Time passes, what is sent arrives or is lost with its socket, and a fetch is
\* settled in the end. Nobody need press anything.
RailFairness == WF_railVars(HalfSecond) /\ WF_railVars(Arrive) /\ WF_railVars(Answered)

RailFairSpec == RailSpec /\ RailFairness

-----------------------------------------------------------------------------
\* The connection chip on a board, whose strip names the lane elsewhere.
WarmingUp(s) == s.rev = 0

Chip(st, s, sec) ==
  IF st \in {"offline", "failed", "reconnecting"} THEN st
  ELSE IF WarmingUp(s) THEN "warming"
  ELSE IF sec >= StaleThreshold THEN "stall"
  ELSE None

\* The seconds that App hands to the badge.
ShownSec == IF frozen THEN 0 ELSE staleSec
BoardChip == Chip(status, state, ShownSec)

\* The chip speaks of a stall only if no frame has moved the lane for the
\* threshold, however frames, ticks and the Resume of a frozen board fall.
StallIsReal == BoardChip = "stall" => advanced >= 2 * StaleThreshold

\* A feed that stands still is called so, unless it moves or the board is frozen.
StallIsSaid ==
  (advanced = MaxAge /\ status = "live" /\ ~WarmingUp(latest) /\ ~frozen)
    ~> (BoardChip = "stall" \/ advanced < MaxAge \/ status # "live" \/ frozen)

\* The switch comes to name the lane that the gateway shows, whoever chose it
\* and however often, once the connection and the board are left in peace.
ToggleCatchesUp ==
  \A l \in Lanes :
    <>[](served = l /\ wire # None /\ ~frozen) => <>[](state.session = l)
=============================================================================
