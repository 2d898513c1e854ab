# A verification of f1-race-tracker in TLA+

f1-race-tracker shows Formula 1 sessions on a board in the browser. Writers (a
Go replay player, two Python publishers) put one *lane* each on Redis; a Go
gateway follows one lane at a time and serves its state over WebSocket; the
browser folds what it receives with a reducer and draws it, plays its radio, and
compares laps of two lanes. A static demo does the same from a baked clip. This
directory holds a model of that path, the TLC configurations that check it on
small instances, and TLAPS proofs of what matters most about it. Paths below are
relative to the repository.

    timing feed -> LiveIngest -+
    clip -----> writers (Seam) -+-SET snapshot:{s}, PUBLISH frames:{s}--> Redis
                                                       | SUBSCRIBE, GET
     browser (RaceModel) <-WebSocket (LaneSocket)- Hub <- Gateway, Registry
        ^       |
        |       +--> Tower, Comms, Rail, AppRoutes (with Ghost)
     StaticReplay, DemoBoard

## 1. Inventory

| component | state | operations | hard behaviour |
|---|---|---|---|
| **Event model and reducers** (`internal/model`, `ingest/live.py`, `web/src/state/race.ts`) | snapshot: cars, message log, radio, weather, clock, Rev | three reducers for one frame format | the same fold written three times; stale frames; loop restarts |
| **Lane writers** (`internal/app/writer.go`, `internal/feed/replay/play.go`, `ingest/live.py`) | in-memory snapshot, Rev, place in the clip | start, fold, SET, PUBLISH | crash between the calls; a failed call; restart above the stored Rev |
| **Live SignalR ingest** (`ingest/live_signalr.py`, `radio.py`, `resample.py`) | feed's order, cars, deferred and pending radio, Rev | a handler per topic, shutdown flush | what arrives first; radio lost or repeated, a batch that ends half way; ranks written over positions |
| **Redis bus** (`internal/bus/redis.go`) | one key per lane; subscriptions | SET, GET, PUBLISH, SUBSCRIBE | no delivery to those not yet subscribed; connections that drop and come back by themselves |
| **Gateway, active hub** (`internal/app/gateway.go`) | session, generation, cancel function, hub | NewGateway, SwitchTo, consume | goroutines of superseded generations; subscribe before GET |
| **Gateway, registry hubs** (`getOrCreateHub`) | one hub per compare lane | create on first request | one mutex around the whole creation |
| **Hub and clients** (`internal/ws`) | snapshot, broadcast set, bounded buffers | ApplyFrame, Reset, Register, Unregister, close, pumps | slow clients, three callers of `close`, registration between frames |
| **Browser connections** (`web/src/realtime/socket.ts`, `lanes.ts`) | socket, retry budget, timer; shared lanes | dial, retry, back off, subscribe, release | release while a retry is pending |
| **Static replay** (`staticReplay.ts`, `App.tsx`) | place in the clip, lap count, timers; freeze, pause | play, pause, scrub, freeze | timers that have fired; laps under one clock; a state rebuilt behind counters |
| **Team radio** (`useComms.ts`, `comms.ts`, `Comms.tsx`) | cursor, queue, banner, history, audio element | fire, pump, replay, toggle | late promise rejections; reconnects; several messages to a render |
| **Timing tower** (`timingHelpers.ts`, `TimingTower.tsx`, `StintChart.tsx`, `useRollingHistory.ts`) | personal bests, gap windows, held order, memo | fold a state, hold, select | folds that outlive their session or their pass of the clip; two columns from separate medians |
| **Rail** (`StatusBadge.tsx`, `useStale.ts`, `SourceToggle.tsx`, Freeze in `App.tsx`) | the state kept behind a frozen board, seconds without a frame, a switch under way | freeze, resume, tick, pick a lane | an interval against renders; two tabs that switch; what a frozen board still says |
| **Overlay, routes** (`Ghost.tsx`, `ghost.ts`, `App.tsx`, `routing.ts`) | sides, lanes, clock; hash, URL, reference car | pick, load, scrub, navigate, select | lanes that load in either order; the URL read and written |
| **Clip recorder** (`ingest/record.py` and helpers) | none | offline baking | numerical |
| **F1 TV sign-in** (`f1tv_link.py`, `f1tv_auth.py`, `Settings.tsx`) | a token file and its copy, a status key, a page's last answer | link, unlink, publish, poll | a copy half written; answers in either order |
| **Control surface, tools** (`gateway.go`'s handlers, `cmd`) | none | filters before a switch or a board; offline export, load, benchmark | I/O |

What makes each correct, in short: *reducers* agree frame by frame; *writers*
never reuse a Rev and never publish what they have not stored; *live ingest*
repeats no radio clip, loses none that it has not seen in a batch it aborts, and
orders cars as the feed does; the *gateway* misses no frame of the lane on show,
shows nothing of another lane, and leaks no goroutine; the *hub* gives every
client a gapless sequence or closes it, and never waits for a client;
*connections* hold at most one socket per lane and end live, released or offline;
the *player*'s state is that of this lap so far, wherever pausing and scrubbing
led; *radio* fires each clip once and names what is heard; the *tower* folds
nothing of another session, nor of a pass it could know to be over; the *rail*
claims a stall exactly when there is one and follows the lane on show; *routes*
open what was shared, and a selection is the user's.

`PROJECT.json` lists every component with its status, and every hazard at the
line where it bites.

## 2. Modules

| module | models | extends |
|---|---|---|
| `RaceModel` | snapshots, frames, `Apply` (apply.go), `PublishClipFold` (live.py), `ApplyMessage` (race.ts), envelopes (frame.go) | |
| `Seam` | writers and Redis: `WriterStart`, `WriterFold`, `Publish` (two steps), `PublishFails`, `WriterCrash`, `ConnectionDrop`, `Resubscribe` | `RaceModel` |
| `Gateway` | the active hub: `SwitchTo`, `SubscribeAndSnapshot` (two steps), `OpFails`, `Commit`, `Receive`, `Return`, `ApplyHeld`, `GatewayCrash` | `Seam` |
| `Registry` | the hubs of the compare lanes: `Ask`, `Lock`, `SubscribeAndSnapshot` (two steps), `Fails` (`NoSubscribe`, `NoGet`), `Commit`, `Receive`, `ApplyHeld` | `Seam` |
| `LaneBoard` | abstract: what a board promises | |
| `Hub` | hub, clients, handlers, pumps, sockets, browsers | `RaceModel` |
| `LaneSocket` | the browser's connections: `Subscribe`, `Unsubscribe`, `OpenBoard`, `Opened`, `FirstMessage`, `Lost`, `Closed`, `TimerFires`, `Retry` | |
| `LiveIngest` | the live publisher: `Start`, `SessionInfo`, `Clip`, `TimingData`, `Position`, `Stop`, `Crash` | |
| `StaticReplay` | the demo's player: `Loads`, `PlayMessage`, `StartLap`, `Pause`, `Resume`, `Scrub`, `PlayerTick` | `RaceModel` |
| `DemoBoard` | App over it: `Navigate`, `ToggleFrozen`, `ToggleReplayPaused`, `ScrubReplay`, `NoticeEnds` | `StaticReplay` |
| `Comms` | the radio: `StepEffect` (stepComms, the queue, the history), `Starts`, `Refused`, `LateRejection`, `Breaks`, `Ended`, `Toggle`, `Replay` | `Sorting` |
| `Sorting` | pure: what `Array.prototype.sort` does, by rank | |
| `RunningOrder`, `Timing` | pure: the order of the cars, its cheap comparisons, sector bests, histories, gap windows, cells | `Sorting` |
| `Tower` | the tower over them: `Frame`, `Wrap`, `Snapshot`, `Reconnect`, `ScrubBack`, `PointerEnter`, `PointerLeave`, `Select` | `Timing` |
| `Rail` | the rail and what it reads: `HalfSecond`, `Arrive`, `ToggleFrozen`, `Lost`, `Opened`, `Reconnect`, `Publish`, `OtherTabSwitches`, `Pick`, `Handled`, `Answered` | |
| `Routing` | pure: hashes, sides, the catalogue | `RunningOrder` |
| `Ghost` | the overlay: `LaneLoads`, the pickers, `TogglePaused`, `ScrubTo`, `TimePasses` | `Routing` |
| `AppRoutes` | the page over both: `Board`, `Select`, `Escape`, `Navigate`, `GhostStep` | `Ghost` |
| `MC*` | clips, frames, feeds, hashes and symmetries for TLC | |
| `*Proofs` | theorems | TLAPS |

**Data.** A car state, a message, a radio reference, a weather reading and a
clip header are opaque members of `Data`; drivers and lanes are sets. `cars` is
a function on a subset of the drivers, as in the code's map. The header stands
for the fields that only a snapshot carries (track, corners, label, stints, ...).
The clock is an integer so that loops, which the reducers detect by comparing
clocks, are real. `MaxMessages` and `LoopRewind` are the source's constants,
scaled down in the configurations. The views need more of a car, so `Timing`
has it as a record of the fields that its functions read. A hash is its parts.

**Sorting.** A sort is modelled by rank: an element's place is the number of
elements before it. For a total order that is what a stable sort returns, and
it can be reasoned about, where a choice among the permutations cannot.

**Writers.** The record `writer[s]` is the process: `snap` its snapshot, whose
Rev is the writer's `rev`, `pos` the place in the clip, `pc` where it is in
`Run`'s loop. `pc = "set"` and `"publish"` are the moments before the two Redis
calls; a crash, an error or another process may come between. A lane in
`Wallclock` starts on any line (`frameAtWallclock`), others on the first; after
the last line both go on with the first. A lane in `PythonClip` folds the way
`publish_clip` does, and dies of a Redis error, where the Go writer logs it.

**Live ingest.** `LiveIngest` has the other Python publisher with the detail
that `Seam` leaves out: a message of the feed is an action, a frame that is due
goes out in the action of the `Position.z` that made it due, and its two Redis
calls fail together or from the second on. `board` stands for a hub that has
subscribed: it takes frames in order of Rev and keeps their radio. The feed's
whole list of clips may come at any time, as it does after each subscription.
A payload is read in its order (`Read`). A capture with a field missing or a
number that is none is skipped (`Malformed`); one whose `Path` is no text raises
outside the `try` (`Untexted`, `Aborts`), and what the batch had marked as seen by
then is in no list: `lost` remembers it. The parked payloads are one batch, and
stay parked when it is aborted.

**Subscriptions.** `chan[g]` is the subscription of generation `g` with the
frames that Redis delivered and nobody received. When its connection drops,
go-redis connects and subscribes again by itself, and the channel that `consume`
reads stays open throughout: only `PubSub.Close` closes it, which `consume` itself
calls when it returns. So `ConnectionDrop` stops the delivery, what is queued can
be read, `Resubscribe` resumes it, and the frames published in between are
missing. `conn` is history: it tells a connection that has held ("first") from
one that was restored ("again"). The library is not in the repository; what it
does is taken from its version 9, which `go.mod` names.

**Gateway.** `op` is the call that holds `g.mu` (a `SwitchTo`, or `NewGateway`
at the start); its steps are SUBSCRIBE, GET and the rest, so frames may be
published between them. `cons[g]` is the `consume` goroutine of generation `g`;
`held` is a message it has received and not yet applied, the moment at which a
switch can overtake it. `ApplyHeld` needs the mutex (`MuFree`).

**Registry.** A request, the subscription it opens, the hub it makes and that
hub's goroutine share a name, since each is made at most once by the one before.
`regMu` is the request inside `getOrCreateHub`; `Lock` decides on the registry as
it is when the mutex is taken. No generation, no context: `consume` folds as long
as the gateway runs. A refused GET closes its subscription; a refused SUBSCRIBE
does not, and what it leaves may be subscribed all the same, or be so from its
reconnection on (`NoSubscribe`): frames then pile up in a channel nobody reads.

**Hub.** `closed` has three values because `Client.close` closes a channel and
then the socket, inside `once.Do`, where other callers wait. The upstream thread
may call again only when `closeAll` has returned. The pump may write a queued
message after `close`, as Go's `select` may. A write to a browser that has gone
can succeed (the kernel takes it) or fail.

**Browser connections.** `conn[c]` holds the variables of one call of
`connectRace` and the status it last reported; `socket[w]` is a WebSocket from
`new` to its close event; `lanes` is the registry and `watch[l]` the entry that
a component's `useLane` listens to. The event loop runs a handler to its end, so
each handler is an action; only the network, timers and the user come between.
A released call stays in the model while it has a timer or a socket. `Lost` is
the close event of a socket nobody asked to close, whatever the cause (`onerror`
closes the socket and comes to the same). App's connection is `Board`: the only
one whose retry handle is kept. `LaneSocket` says when a browser dials, `Hub`
what a dial brings; the two share no state but the socket.

**React.** A handler or an answer of the network, the render that its state
causes and the effects of that render are one step: an effect runs before the
next event's render. `Comms` is the exception, since a render may have several
messages behind it (`dirty`): there `StepEffect` is an action of its own, and
what the audio element answers comes when it likes. A rejection that `pause()`
causes is queued as a task, so `late` keeps it; one that a new source causes
runs before anything else, so `Play` has it.

**Player.** `clock` is `Date.now() - loopStart`, `timers` are the pending
timeouts in the order they were made, each with what its callback closes over.
The handle in `timer` is the last one's and is never reset, as in the code;
clearing one that has fired is harmless. `PlayerTick` is the passing of time: a
timer may be up to `MaxStall` late, as a busy tab's is, and `PlayFrom` then
resyncs.

**Tower.** A step brings a state and runs the effects over it; the refs that
hold what the effect last saw are the unprimed variables. `drawn` is what the
memo of the strategy chart kept. Three variables are history, and follow the feed
where the code follows `loopSeq` and the clock: `sessionCars` are the cars that
were on the board since the session began, `passCars` those since the feed was
last at the start of its clip, and `missed` says how a pass began that the board
took for the same one. That is a snapshot on reconnecting, which keeps `loopSeq`
whatever the clock says (`race.ts:169-171`), or a scrub in the first lap of the
demo: the clock is then before the last one ("back"), or, when the clip has begun
again and gone on past it, after ("round").

**Rail.** Time goes by half seconds, so that a frame may come between two ticks
of `useStale`'s one-second interval. `latest` is `latestRef`, `state` what App
renders; `changed` is `lastChangeRef` as an age and `advanced`, history, the
time since the lane really moved. The gateway is its lane, a Rev per lane and what
is on the wire; `Lost`, `Opened` and `Reconnect` are what `LaneSocket` has in
detail. `post` is this tab's switch, `OtherTabSwitches` anyone else's.

**Routes.** `hash` is what App last read, `location` the address bar:
`replaceState` changes the second only. `Render` is a render of App with its
effects in the code's order: the seed, the URL's car, the write.

## 3. Runs

`CHECK_DEADLOCK` is off in all runs because the bounds below, or a budget that
is spent, stop the system.

| run | question | answer |
|---|---|---|
| `gateway_faulty` | with every fault: is the board isolated, do writers reissue a Rev, does the gateway implement `LaneBoard`? | holds |
| `gateway_fair` | no faults, a switch, a loop, Go writers only: is hub + in flight = writer's snapshot; do frames arrive, do superseded goroutines end? | holds |
| `gateway_blip` | does a subscription that was dropped and restored heal? | **no** |
| `registry` | with refusals and drops: has a lane one hub, has every subscription but a refused one's a reader, is hub + in flight = writer's snapshot while the connection holds, is every request answered? | holds |
| `hub_boards` | is every board one that the hub had; does what is on its way complete it; is the lane never held up? | holds |
| `socket` | has a connection one way on; are shared lanes live entries; is the status true; does a flapping gateway exhaust the budget; do connections heal? | holds |
| `ingest` | has a process each clip once; is none lost unless a call failed or its batch was aborted; is a frame's order the feed's? | holds |
| `demo` | is the state this lap's so far; is no frame dropped; are timers kept to; does a player left alone go on? | holds |
| `comms` | does each clip fire once; does the banner name what is heard; does the queue move? | holds |
| `tower` | is green earned; do the gap columns agree; is the chart fresh; are folds of this driver, this session and, where it was noticed, this pass? | holds |
| `rail` | is a stall claimed only when there is one, and always; does the lane control come to name the lane on show? | holds |
| `routes` | does a copied link open what it was copied from; are the markers on the track; is the selection the user's, and the URL the selection's? | holds |

The answer in bold is a disagreement between the code and what the repository
says of it; `PROJECT.json` quotes the lines. The Tech Scope promises that a
gateway whose subscription blips re-reads the snapshot and resumes, and that any
missed frame is healed by the next snapshot. Nothing asks for one: the channel
goes on after the gap, `consume` cannot tell, and the next frame, which carries
only what it changes, takes the hub to the writer's latest Rev over the hole. A
car or a message that the missing frames had stays missing until another frame
carries it; a switch to the lane on show is a no-op, so only a switch away and
back, or a restart, is sure to help. The comment in `redis.go:61-63` expects a
third thing, a channel that closes, which would end `consume`.

The type invariants of `Gateway` and `LaneSocket` are in no run: they are proved.

### Met while modelling, without a run

Disagreements and limits that reading the lines shows. Most were also seen as a
counterexample while the modules were written; none has a run of its own.

- *Released lanes.* Release a lane between a loss and the retry timer, and the
  timer dials once more (`socket.ts:135`; `open` does not look at `closed`),
  where `lanes.ts:33` says that the connection closes when the last one detaches.
  The registry has forgotten it, so nothing closes that socket: it feeds nobody
  until the server drops it. `OneWayOn` shows that it ends there.
- *A pass that begins unseen.* The tower drops the bests when `loopSeq` moves, so
  that "green" is of this pass (`TimingTower.tsx:110-117`). Only a frame moves it: a
  reconnection across a wrap brings a snapshot, which keeps it
  (`race.ts:169-171`), and the bests of the pass before go on standing, as the
  comment says they must not. A scrub back in the demo's first lap does the same.
  The histories start again when the clock goes back, and not where the clip has
  begun again and gone on past it. `GreenIsEarned` and `NoBleed` ask for less just
  there (`missed`); without that both are violated.
- *Gaps of another session.* On a change of session the tower empties
  `smoothingRef`, but redraws only if folding the new cars returns another object
  (`TimingTower.tsx:131`). A lane with no cars yet (the live publisher stores an
  empty snapshot first), or whose cars report no gap, leaves the old windows in
  `smoothing`, and its rows show the other session's gaps until one is reported.
  `NoBleed` holds of the folds, `smoothingRef` among them, not of what is drawn.
- *Seconds after Resume.* `useStale.ts:10` has "whole seconds since the lane's rev
  last advanced", and the chip prints them (`StatusBadge.tsx:90`). States that
  come while the board is frozen are rendered at Resume, and the seconds start
  there: a stall is called late by the time spent frozen. `StallIsReal` and
  `StallIsSaid` hold with that.
- *Lane control while frozen.* `SourceToggle.tsx:20-21` calls the active source
  the one that the gateway fans out; it is the rendered state's. After a switch
  on a frozen board, this tab's own too, it names the old lane until Resume, and a
  press on that lane does nothing. `ToggleCatchesUp` therefore has "not frozen" as
  its premise.
- *Equal Revs.* `useStale` knows a state by its Rev. A switch between two lanes that
  happen to be at the same Rev leaves the seconds as they are, so a stall may be
  claimed of a lane just opened. `rail` has lanes whose Revs are apart.
- *Unlinked without an ingester.* `f1auth.ts:15-17` calls "unlinked" an answer
  from the seam and "unavailable" what is shown with no ingester, as does
  `docs/runbooks/live-verification.md:199`; `gateway.go:298` answers "unlinked" for
  a key that nobody has set, as ADR-0007 decides.
- *A live region that ticks.* `Settings.tsx:171-173` says that the announced
  text changes only on a transition. Every poll renders the time that is left
  again (`:73`), so in the last hour it changes every minute. Late answers of
  earlier polls may also set an older status.
- A sign-in copied by `copy2` is truncated first: an ingester that reads it then
  publishes NOT LINKED for a turn. The status key has no expiry, so without an
  ingester LINKED outlives the token.
- *A SUBSCRIBE that fails* returns without closing its PubSub (`gateway.go:115-117`),
  which the failed GET closes and of which `redis.go:60` says that the caller closes
  it. The library goes on restoring it, for nobody. `OneHub` says that no other
  subscription is left behind; `Gateway` leaves this one out.
- *A batch that ends half way.* `live_radio_refs` says that malformed entries are
  skipped rather than fatal and must not abort the batch, lest the good clips
  beside them be lost (`radio.py:84, 96-98`). A `Path` that is not a text raises
  after the `try` (`:100`): the clips before it are in `seen` and nowhere else, the
  feed's next list skips them, and those behind it come only in a payload
  without it. Parked payloads are not cleared then, so each later `SessionInfo`
  raises again (`live_signalr.py:274-277`). `_dispatch_message` logs it. `RadioOnce`
  and `NoClipLost` leave out exactly the clips of such a batch (`lost`).
- The shutdown flush publishes from the main thread (`live_signalr.py:780`);
  whether a handler of the SignalR client's thread may still run is the client
  library's.
- A hub that was seeded before its lane's first SET never learns the track and
  the label, which frames do not carry, until a switch or a restart
  (`gateway.go:124`).
- `publish_clip` keeps the message log across a loop, where `Apply` clears it
  (`live.py:86-87`): a client that connects after a gateway restart sees other
  messages than one that stayed. And the browser's reducer keeps messages when
  the clock steps back by less than `LOOP_REWIND_MS` (`race.ts:180-184`), where
  the hub drops them (`apply.go:18`). `gateway_fair` has no `publish_clip` lane,
  and the clock steps of `hub_boards` are above the threshold.
- `CONTEXT.md` says that Rev never resets, "not across a live↔replay switch";
  each lane has its own, and a switch may lower the one on show. `LaneBoard`
  allows just that. The browser is right not to follow section 2.6 of the Tech
  Scope, which has it drop older Revs: `ApplyMessage_RevGated`, which does,
  breaks `BrowserCatchesUp`; the rail's, likewise, `ToggleCatchesUp`.
- The overlay's lanes have no Reconnect (`lanes.ts:55` drops the handle that
  `socket.ts:13-14` offers): once offline, only leaving the lane helps.
- A banner's replay button pressed while `play()` of the same clip is pending
  rejects the old promise, whose handler takes the new banner for its own and
  blanks it (`useComms.ts:49-51, 143-144`); the clip is heard without its name.
  `BannerIsHeard` says only that what a banner names is right.
- A board frozen before the demo's clip has loaded stays frozen: the transport
  that replaces the button has no way to resume it (`App.tsx:99-100, 204-209`).
  A scrub that changes the loop counter also announces a loop (`:111-118`).
- A driver whose code has one character cannot be in a shared overlay link,
  since `CAR_CODE` wants two (`ghost.ts:53-54`, `routing.ts`).
- The row that a held order has first is printed as the leader, whoever leads
  (`TimingTower.tsx`); `displayGaps` clamps to the row in front only if that has
  a gap; an even window's median is a mean that nobody read.
- The trailing radio frame of the live publisher does not restamp positions, so
  its cars mix last frame's ranks with raw positions (`resample.py:102-105` asks
  callers for raw ones). The stored snapshot's cars may hold repeated positions.
- A failed PUBLISH leaves clips in the live snapshot that connected boards do
  not get, and a restarted ingester sends every clip again to a hub that stayed.
  `NoClipLost` has "unless a call failed", `RadioOnce` is about the snapshot.

### Bounds

`MaxRev` caps what a writer folds; with two lines to a clip, Rev 3 is past a
loop. `Subs` is the set of generations: two allow a switch while a frame is
held. `MaxOps` caps calls of the hub, `MaxSnapshots` the snapshots a browser
receives, so `MaxSnapshots - 1` reconnects. Buffers of one or two messages fill
within these calls. `MaxMessages = 2` is exceeded by the clips. Crashes, drops
and failures are not counted: any number may happen. `MaxAttempts` is 20 in the
source; the counter only meets its limit, so 2 or 3 show the same. Calls and
sockets are reused when they are over, so there is no bound on time: with two of
each, a lane and the board, or both lanes, are connected at once, or one is
while a released one lingers. There are as many sockets as calls, lest a timer
wait for an identifier.

In `registry`, two requests for two lanes are two for one lane, where the second
waits, or one for each; each asks once, and `MaxRev = 2`. Writers do not crash
there: a restarted writer's snapshot is not its predecessor's, which
`gateway_faulty` has. In `rail`, `MaxAge` is past the threshold by a second,
`MaxFrames = 1` frame of each lane comes after the first snapshot, and
`MaxWire = 2` messages wait. The lanes' Revs are apart (see *Equal Revs*).

In `ingest`, `MaxRuns = 2` is one restart, `MaxRev = 2` two frames, so a car can
miss one and be in the next. Of four captures two are clips, one is skipped and one
aborts its batch, with a clip before it and one behind; `MaxDeferred = 3` of them
may wait for the path, enough for that. In `demo`, `MaxLaps = 3` is past the second lap,
at which a Rev that did not climb would be stale, and a timer may be `MaxStall = 1`
late. In `comms`, `MaxClock = 3` has a time before, at and after
every clip, `MaxSnapshots = 2` a reconnect, and `MaxQueue = 2` caps what may wait
when a clip is fired (the code has no cap). In `tower`, `MaxFrames = 4` states
fill a window of three and empty one; `GapWindow` and `MaxHistory` are smaller
than the source's. `routes` has three time units to a loop and six hashes: bare,
two cars, the overlay, its old name, and a session that is not in the catalogue.

What the bounds leave out is covered for the gateway, the connections and what
else section 4 names by the proofs.

### Fairness

`Gateway!Fairness`: writers keep publishing, Redis answers the operation in
progress, goroutines run. Weak fairness of each goroutine is what the Go
scheduler gives; `Consume(g)` is one condition because a `select` with both
cases ready may choose either. Nothing obliges an operator to switch, and
`gateway_fair` has no faults. `Registry!Fairness`: requests run (`Serve`), and weak
fairness is enough for a request that waits, since each holds the mutex once;
Redis answers or refuses. `Hub!ServerFairness`: the lane goes on and the
gateway's own goroutines run; write pumps owe nothing, since a peer that does
not read may hold one for `writeTimeout`. `LaneSocket!Fairness`: timers fire,
and a socket that is dialled opens, and an open one gets a message (the server
sends a snapshot at once), unless it is lost first; `Lost` is never obliged to
happen nor to stop, so `Heals` has "losses end" as its premise.
`DemoBoard!DemoFairness`: a fetch answers and due timers fire; nobody need press
anything, so `LeftAloneLoops` starts when the user has let go. `Comms!Fairness`:
a render's effects run, a `play()` is answered one way or the other, and a clip
that plays ends or breaks; the user and the network owe nothing. `Rail!Fairness`: the
clock ticks, what is on an open socket arrives, a fetch answers or fails; nobody
need press anything. `LiveIngest`,
`Tower` and `AppRoutes` have safety properties only: what the feed and the user
do next is theirs.

## 4. Proofs

TLAPS proves the following for every value of the constants that the assumptions
allow. All are safety: each rests on an inductive invariant, `Init => IInv` and
`IInv /\ [Next]_vars => IInv'`, with one lemma or step to each action. TLC checked
each invariant before it was proved. Where a theorem needs more than the
specification says, the hypothesis is part of its statement (below).

| module | theorem | says |
|---|---|---|
| `GatewayProofs` | `TypeCorrect`, `NeverReemits`, `Refinement`, `Isolation` | `TypeOK`, `RestartNeverReemits`, `ImplementsBoard`, `LaneIsolation` |
| | `CatchesUp` | `HubCatchesUp`, if `Reliable` |
| `RegistryProofs` | `OneHubAlways` | `OneHub` |
| | `HubsAlwaysCatchUp` | `HubsCatchUp`, if `Reliable` |
| `BrowserProofs`, of `Hub` | `TypeCorrect` | `TypeOK` |
| | `BoardsWereTheHubs`, `BrowsersCatchUp` | `BoardWasTheHubs`, `BrowserCatchesUp`, if `OnlyLoopsRewind` |
| of `DemoBoard` | `DemoTypeCorrect`, `SingleTimer`, `NoneDropped` | `DemoTypeOK`, `OneTimer` (in no run), `NoFrameDropped` |
| | `Lap` | `LapSoFar`, if `LongerThanARewind` |
| `FeedProofs`, of `LiveIngest` | `Once`, `NothingLost`, `InOrder` | `RadioOnce`, `NoClipLost`, `OrderFollowsFeed` |
| of `LaneSocket` | `TypeCorrect`, `OneWay`, `Shared`, `Truthful` | `TypeOK`, `OneWayOn`, `SharedLane`, `StatusTruthful` |
| of `Tower` | `ChartKept`, `Earned`, `Separate`, `Columns` | `ChartFresh`, `GreenIsEarned`, `NoBleed`, `ColumnsAgree` |
| `PageProofs`, of `AppRoutes` | `Selection`, `Links`, `Url`, `Shared`, `Track` | `SelectionStands`, `LinkMoves`, `UrlNamesSelection`, `SharedPair`, `OnTheTrack` |
| of `Comms` | `Banner`, `Fires` | `BannerIsHeard`, `FiredExactlyOnce` |
| of `Rail` | `Stall` | `StallIsReal`, if `SwitchMovesRev` |
| `SeamProofs` | lemmas | a writer's key, queues and snapshot, for `Gateway` and `Registry` |
| `RaceModelProofs` | lemmas | what the reducers and their folds keep: types, Rev, session, payloads |
| `ListProofs` | lemmas | induction over sets of numbers, what a sequence folds into, lists without a repetition, sorting by rank |

- *Gateway.* `RestartNeverReemits` is not inductive: that a restarted writer is
  above what has been passed follows from every frame that is queued, held or
  folded being at most the *stored* Rev. So the invariant relates the key to its
  writer (`WriterInv`: they differ exactly while a frame waits for its SET), and
  each queue, goroutine and call to the key (`ChanInv`, `ConsInv`, `OpInv`,
  `HubInv`); all but `HubInv` must hold of superseded generations too. `DataInv`
  adds, for `Isolation`, that each frame and snapshot anywhere carries its own
  lane's data. The refinement maps each step to one of `LaneBoard` or a stutter.
- *Catching up.* `SteadyInv` says that the stored snapshot and what the writer has
  yet to publish fold into the writer's own snapshot, and `CatchInv` that the same
  is true of the hub with what its goroutine holds and its queue has, and of the
  snapshot an operation has read and not committed. A frame published between
  SUBSCRIBE and GET is both in the snapshot and in the queue, and the fold drops
  it by its Rev. `Reliable` says that writers are Go's, whose calls succeed and
  which nobody kills: a failed SET or PUBLISH is a gap the code does not close,
  and a restarted writer's snapshot is not its predecessor's. The gateway's calls
  may fail and it may crash. A connection that drops leaves a gap (`gateway_blip`),
  so `Gateway`'s `Reliable` excludes it; `HubsCatchUp` speaks of the subscriptions
  whose connection has held, and allows it.
- *Registry.* The invariant says who is inside the mutex: exactly one request is
  subscribing, reading or committing, it holds `regMu`, and its lane has no hub;
  a subscription belongs to that request, to a registered hub, or to a request
  whose SUBSCRIBE was refused (`OwnerInv`).
- *Hub.* `Honest` says of the queue on its way to a browser that each of its
  prefixes, folded into what the browser shows, gives a board the hub had; what is
  on its way is a chain through the client's buffer, its pump's hand and the
  socket, and a step of any of them only moves an entry along or loses a tail.
  `SyncInv` adds that the whole chain gives the hub's snapshot, unless a broadcast
  found the buffer full. `Lifecycle` says which states of reader, pump and
  `close` go together. `OnlyLoopsRewind`: the clock of the hub's lane goes back
  only by more than `LoopRewind`. The two reducers treat smaller steps back
  differently (see *Met while modelling*), and without the hypothesis TLC finds
  both properties violated.
- *Demo.* `TimerInv` says that the one timer that is pending is armed for the
  message `next` of this lap (none is while paused, and `Pause` clears the right
  one), `StateInv` that the state's Rev counts the frames of the laps completed
  and of this one, `AgreeInv` that the state agrees with `Replayed` of this lap's
  messages: same clock, same log, and each of its cars. `LongerThanARewind`: the
  clip lasts longer than `LoopRewind`. The first frame of a lap clears the log only
  if it is so far behind the last; under a shorter clip the log would go on.
- *Connections.* `OwnedInv` and `WsInv` say that a call and its socket point to each
  other; `WayInv` is `OneWayOn` over these; `StatusInv` ties each status to the
  phases that can have caused it; `WatchInv` says that who watches a lane watches
  its entry.
- *Radio panel.* `BannerIsHeard` is inductive, as each handler that changes the
  element or the banner sets both. `FiredExactlyOnce` is not: while messages wait
  for their render, what has fired is what was owed at the *cursor*, not at the
  clock. `CursorInv` says that, and that on a live lane the cursor has passed every
  clip it has seen, so one that arrived and one that the clock passes are never the
  same; `RadioInv` says that the radio has no clip twice and a live lane's has what
  was published, in that order. On a replay lane all clips were there at the
  reseed (`since.len`), and only the clock fires them.
- *Routes.* `RouteInv` says when the seed is done and what cars it saw; `Shared`
  and `Track` need that the sides are of the catalogue (`SidesInv`), `Shared` that
  a driver's code, looked up again, finds the same driver, `Track` that the
  search in a trace's clock ends on one of its samples.
- *Rail.* `RailInv` orders the Revs of what was read, what is on the wire and the
  writer, lane by lane. The hook's seconds count from `changed`, and `changed` is
  never ahead of the lane's own silence, except on a frozen board whose lane has
  moved on (`Overtaken`): there Resume will show another Rev. `SwitchMovesRev`:
  a switch of the lane on show changes the Rev, since `useStale` looks at nothing
  else (see *Equal Revs*).
- *Tower.* `MemoInv`: what was drawn *is* what is current, up to what the cheap
  comparison may ignore, and no later snapshot has its identity. `PastInv` says
  that the cars on the board are of this pass and that a pass is of its session.
  `PbInv` relates a driver's bests to the times of this pass, `BleedInv` every fold to
  the pass or, where its beginning was missed, to the session; each step of the feed
  is one of four kinds (`Told`), and each fold is taken through them.
  `ColumnsAgree` needs of the state only the types of cars, windows and held order
  (`GapInv`: a median is a number): then it is what `displayGaps` does, row by row,
  along a list that sorting by rank has made of the cars, each once.
- *Ingest.* What a process has read it has seen or parked, what it has seen it holds
  once, but for `lost`. `BoardInv`: boards, store and process are in order of Rev,
  and without a failure the boards have every clip of the process. `OrderFollowsFeed`
  needs of the state only the types of the cars and places (`CarInv`): the cars of a
  frame have the feed's latest places when they are ranked, and of two that still
  run the one with the smaller rank has no larger place.

The folds of `RaceModel` are recursive functions over sequences that grow. What
they keep cannot be had from the library's induction theorems, which take an
operator; `ListProofs` takes the least index at which a fact fails instead
(`LeastNatural`), so that `Folded` and `Received` have their equations, and folding
`p \o q` is folding `q` after `p`. Sorting is there too: in a finite set with a
total order every rank from 0 up is had by exactly one member (`Ranks`, by the
same argument on the members before one), so `Sorted` lists each member once, in
order (`SortedFacts`), and `StableSort` likewise (`StableSortFacts`).

What is assumed of the constants is named in the module that declares them, and
each run evaluates it: clips are well formed, the demo's is one that
`cmd/bake-static` writes (a snapshot without cars, then frames whose Rev counts
them and whose clock does not go back, `ClipAssumption`), and `Nil`, `Null` and `None` are none
of the values; a board's driver codes are such as a URL can carry, and no two laps
of a session share one (`BoardCodesAssumption`); a trace is of a driver with
samples, and a point of the outline has a number (`TraceAssumption`); a session's
list of radio clips has no clip twice (`CapturesAssumption`, and for the panel
`CommsAssumption`); the map of a frame's cars has each under its own number, with
numbers where the columns do arithmetic (`FeedAssumption`); windows, thresholds
and bounds are positive numbers.

Only model-checked is liveness, which is out of the prover's reach, as is ENABLED:
`FramesArrive`, `SupersededExit`, `Answered`, `NeverStalls`, `BudgetEnds`, `Heals`,
`LeftAloneLoops`, `QueueMoves`, `StallIsSaid` and `ToggleCatchesUp`. Every other property of a run that passes is
stated by one of the theorems above.

## 5. Not modelled

- *Below the code*: WebSocket framing, JSON that does not parse (each
  reader drops it), what go-redis does to reconnect, and its dropping of a message
  nobody has read for a minute, FastF1's client and login.
- *Quantities*: the pace of playback, the length of a backoff, how a marker moves
  between frames (`useSmoothedCars`), the drawing of map, telemetry and charts.
- *Filters*: Host, Origin and method checks. What they let through is modelled.
- *F1 TV sign-in*: a token file, a key that one thread sets and a page that polls
  it; no lane reads or writes any of them. What a step of it can get wrong is
  told above.
- *Offline*: the clip recorder (`record.py`, `resample.py`, `geometry.py`,
  `pit.py`, `race_control.py`, `ghost.py`), whose output is the constants `Clip`
  and `Trace`; clip generation, static export, load tests, benchmarks.
- *In modelled parts*: frames that do not parse; the rival and the roving focus;
  the stint strip's axis; the bounding box and the tyre and lap fields of the live
  feed; the words of labels and notices.

## 6. Plan

Done: the path from a writer to a board, the browser's connections, the demo's
player, the views that fold state (tower, radio, routes, overlay, rail), and the
live ingest. Next, in order:

1. *Composition.* A writer, the gateway, one hub and one browser together, so that
   `BrowserCatchesUp` starts at the writer.
2. *The recorder's discrete parts*: pit stops from tyre changes, the mapping of
   race-control messages, `frameAtWallclock`.
