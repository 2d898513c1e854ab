------------------------------ MODULE LiveIngest ------------------------------
(***************************************************************************)
(* The live ingester (ingest/live_signalr.py, with radio.py, live.py and   *)
(* resample.py): messages of the timing feed come one at a time; radio     *)
(* clips wait for the path that resolves them, and then for a frame to     *)
(* ride on; frames follow position samples, at a limited rate; what waits  *)
(* at the end goes out in one trailing frame. Redis may fail any call, the *)
(* process may crash and be started again, and the feed sends its whole    *)
(* list of clips again whenever it is subscribed to.                       *)
(*                                                                         *)
(* A clip is what becomes of its URL. The handler of a message runs alone: *)
(* client.start() is taken to return when no handler runs (external).      *)
(***************************************************************************)
EXTENDS Integers, Sequences, FiniteSets, SequencesExt, Functions

CONSTANTS Captures,   \* what the feed's radio list comes to hold, a sequence of clips
          Malformed,  \* clips whose capture is skipped: a field is missing or no number
          Untexted,   \* clips whose capture has a Path that is not a text
          Drivers, Unknown,  \* Unknown is UNKNOWN_POS, above every position
          MaxRev, MaxRuns, MaxDeferred  \* bounds of the model

Clips == Range(Captures)

ASSUME CapturesAssumption == Captures \in Seq(Clips) /\ IsInjective(Captures)
ASSUME PlacesAssumption ==
  /\ Drivers \subseteq Nat /\ IsFiniteSet(Drivers)
  /\ Unknown \in Nat /\ Cardinality(Drivers) < Unknown
ASSUME BoundsAssumption == {MaxRev, MaxRuns, MaxDeferred} \subseteq Nat

VARIABLES
  said,      \* how many clips the feed's list has
  runs, up,  \* processes so far; is one running
  path,      \* session_path_holder: has SessionInfo come?
  seen, deferred, pending,  \* seen_clips, deferred_radio, pending_radio
  running,   \* running_positions
  latest,    \* latest_cars, in the order of insertion: number, pos, out
  snapshot,  \* the rev and the radio of the process's snapshot
  stored,    \* the same of the key in Redis
  board,     \* the same of a hub that subscribed before
  \* history of this process: clips read or parked; of these, seen in a batch that
  \* was aborted; has a call failed?
  heard, lost, failed

feedVars == <<path, seen, deferred, pending, heard, lost>>
carVars == <<running, latest>>
outVars == <<snapshot, stored, board, failed>>
ingestVars == <<said, runs, up, feedVars, carVars, outVars>>

Nothing == [rev |-> 0, radio |-> <<>>]

IngestInit ==
  /\ said = 0 /\ runs = 0 /\ up = FALSE
  /\ path = FALSE /\ seen = {} /\ deferred = <<>> /\ pending = <<>>
  /\ heard = {} /\ lost = {}
  /\ running = [d \in Drivers |-> Unknown] /\ latest = <<>>
  /\ snapshot = Nothing /\ stored = Nothing /\ board = Nothing
  /\ failed = FALSE

\* A process starts from the stored Rev, and stores an empty snapshot at once.
Start ==
  /\ ~up /\ runs < MaxRuns
  /\ up' = TRUE /\ runs' = runs + 1
  /\ path' = FALSE /\ seen' = {} /\ deferred' = <<>> /\ pending' = <<>>
  /\ heard' = {} /\ lost' = {}
  /\ running' = [d \in Drivers |-> Unknown] /\ latest' = <<>>
  /\ snapshot' = [rev |-> stored.rev, radio |-> <<>>] /\ stored' = snapshot'
  /\ failed' = FALSE
  /\ UNCHANGED <<said, board>>

-----------------------------------------------------------------------------
\* The captures of a payload are read in their order. One whose Path is not a text
\* raises (path.lstrip is outside the try), and the rest is not looked at.
Read(cs) == {cs[i] : i \in {j \in DOMAIN cs : \A k \in 1 .. j : cs[k] \notin Untexted}}
Aborts(cs) == Range(cs) \cap Untexted # {}

Fresh_Again(cs) == Read(cs) \ Malformed

\* live_radio_refs: of what is read, the clips that were not seen before.
Fresh(cs) == Read(cs) \ (seen \cup Malformed)

\* The fresh clips are marked as seen one by one, and are returned at the end: where
\* the batch is aborted they are nowhere.
Resolve(cs) ==
  /\ seen' = seen \cup Fresh(cs)
  /\ IF Aborts(cs)
     THEN lost' = lost \cup Fresh(cs) /\ UNCHANGED pending
     ELSE pending' = pending \o SetToSeq(Fresh(cs)) /\ UNCHANGED lost

\* SessionInfo: the path, and the payloads parked until it came, one after the
\* other; deferred is cleared at the end.
SessionInfo ==
  /\ up
  /\ path' = TRUE
  /\ Resolve(deferred)
  /\ deferred' = IF Aborts(deferred) THEN deferred ELSE <<>>
  /\ UNCHANGED <<said, runs, up, heard, carVars, outVars>>

\* _radio_or_defer: a TeamRadio payload with these clips.
TeamRadio(cs) ==
  /\ IF path
     THEN /\ Resolve(cs)
          /\ heard' = heard \cup (Read(cs) \ Malformed)
          /\ UNCHANGED deferred
     ELSE /\ Len(deferred) + Len(cs) <= MaxDeferred
          /\ deferred' = deferred \o cs
          /\ heard' = heard \cup (Range(cs) \ (Malformed \cup Untexted))
          /\ UNCHANGED <<pending, seen, lost>>
  /\ UNCHANGED <<runs, up, path, carVars, outVars>>

\* A new clip, or the whole list after a subscription; a new clip that comes while
\* the process is not connected is in the next list only.
Clip ==
  \/ up /\ said < Len(Captures) /\ said' = said + 1 /\ TeamRadio(<<Captures[said']>>)
  \/ up /\ TeamRadio(SubSeq(Captures, 1, said)) /\ UNCHANGED said
  \/ said < Len(Captures) /\ said' = said + 1
     /\ UNCHANGED <<runs, up, feedVars, carVars, outVars>>

TimingData(d, p) ==
  /\ up
  /\ running' = [running EXCEPT ![d] = p]
  /\ UNCHANGED <<said, runs, up, feedVars, latest, outVars>>

-----------------------------------------------------------------------------
\* _apply_position_samples: the driver's car is a new object, with its raw place.
Sampled(d, out) ==
  LET car == [number |-> d, pos |-> running[d], out |-> out]
  IN  IF \E i \in DOMAIN latest : latest[i].number = d
      THEN [i \in DOMAIN latest |-> IF latest[i].number = d THEN car ELSE latest[i]]
      ELSE Append(latest, car)

\* reconcile_positions' key: cars still running by their place and then their number,
\* retired cars at the tail as they come.
Ahead(cars, j, i) ==
  \/ ~cars[j].out /\ cars[i].out
  \/ cars[j].out /\ cars[i].out /\ j < i
  \/ /\ ~cars[j].out /\ ~cars[i].out
     /\ \/ cars[j].pos < cars[i].pos
        \/ cars[j].pos = cars[i].pos /\ cars[j].number < cars[i].number

\* It renumbers the cars in place, by their rank.
Renumbered(cars) ==
  LET ahead(i) == {j \in DOMAIN cars : Ahead(cars, j, i)}
  IN  [i \in DOMAIN cars |-> [cars[i] EXCEPT !.pos = Cardinality(ahead(i)) + 1]]

Restamped_Not(cars) == cars

\* _publish_frame: every car's raw place again, lest its last rank stand for it.
Restamped(cars) == [i \in DOMAIN cars |-> [cars[i] EXCEPT !.pos = running[cars[i].number]]]

\* SET, then PUBLISH, of a frame with this radio and the cars; either may fail.
Send(rev, radio) ==
  /\ rev <= MaxRev
  /\ snapshot' = [rev |-> rev, radio |-> snapshot.radio \o radio]
  /\ \/ failed' = TRUE /\ UNCHANGED <<stored, board>>
     \/ failed' = TRUE /\ stored' = snapshot' /\ UNCHANGED board
     \/ /\ stored' = snapshot' /\ UNCHANGED failed
        /\ board' = IF rev <= board.rev THEN board
                    ELSE [rev |-> rev, radio |-> board.radio \o radio]

\* Position.z. The rate limit decides whether a frame is due; one that fails is
\* logged by _dispatch_message, with its clips in the snapshot and not in pending.
Position(d, out) ==
  /\ up
  /\ \/ latest' = Sampled(d, out) /\ UNCHANGED <<pending, outVars>>
     \/ LET cars == Restamped(Sampled(d, out))
        IN  /\ latest' = Renumbered(cars)
            /\ pending' = <<>>
            /\ Send(snapshot.rev + 1, pending)
  /\ UNCHANGED <<said, runs, up, path, seen, deferred, heard, lost, running>>

\* The process is gone, and its memory with it.
Exit ==
  /\ up /\ up' = FALSE
  /\ path' = FALSE /\ seen' = {} /\ pending' = <<>>
  /\ latest' = <<>> /\ running' = [d \in Drivers |-> Unknown]
  /\ UNCHANGED <<said, runs, deferred, heard, lost>>

Stop_NoFlush == Exit /\ UNCHANGED outVars

\* client.start() returns or raises: _shutdown_flush_radio. The trailing frame does
\* not restamp the cars.
Stop ==
  /\ Exit
  /\ IF pending = <<>> THEN UNCHANGED outVars ELSE Send(snapshot.rev + 1, pending)

Crash == Exit /\ failed' = TRUE /\ UNCHANGED <<snapshot, stored, board>>

IngestNext ==
  \/ Start \/ SessionInfo \/ Clip \/ Stop \/ Crash
  \/ \E d \in Drivers, p \in 1 .. Cardinality(Drivers) : TimingData(d, p)
  \/ \E d \in Drivers, out \in BOOLEAN : Position(d, out)

IngestSpec == IngestInit /\ [][IngestNext]_ingestVars

-----------------------------------------------------------------------------
\* While it runs, a process holds every clip it has seen in exactly one place,
\* waiting or in its snapshot, but for those of an aborted batch, which it holds
\* nowhere: however often the feed sends its list, whichever of path and clips comes
\* first, and whichever calls fail. The list that a browser gets from Redis has no
\* clip twice.
RadioOnce ==
  /\ IsInjective(stored.radio)
  /\ up => /\ IsInjective(pending \o snapshot.radio)
           /\ Range(pending \o snapshot.radio) = seen \ lost
           /\ heard = seen \cup (Range(deferred) \ (Malformed \cup Untexted))

\* "already-connected clients actually receiving the refs": unless a call failed, or
\* a batch was aborted after the clip was seen in it, what a process has heard is on
\* the boards when it ends, and waits until then.
NoClipLost ==
  ~failed => heard \subseteq Range(board.radio) \cup Range(deferred) \cup lost
                              \cup (IF up THEN Range(pending) ELSE {})

\* The order of a frame is the feed's latest, for cars still running: neither a car
\* that has sent no sample since, nor one that was overtaken in between, keeps the
\* rank of the frame before.
OrderFollowsFeed ==
  [][up' /\ board' # board =>
       \A c, e \in Range(latest') :
         c.pos < e.pos /\ ~c.out /\ ~e.out => running[c.number] <= running[e.number]]_ingestVars
=============================================================================
