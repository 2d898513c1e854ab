------------------------------ MODULE FeedProofs ------------------------------
(***************************************************************************)
(* Three parts on the way from the feed to the board. They share no state. *)
(*                                                                         *)
(* The live ingester (LiveIngest), for any clips, cars, frames, restarts   *)
(* and failing calls: no clip twice in what Redis has, none lost between   *)
(* the feed and the boards as long as no call fails and no batch is        *)
(* aborted after it was seen there, and frames in the feed's order.        *)
(*                                                                         *)
(* What the browser's connections (LaneSocket) keep to, for any lanes,     *)
(* components and budget: the type invariant, OneWayOn, SharedLane and     *)
(* StatusTruthful.                                                         *)
(*                                                                         *)
(* The memo, the folds and the gap columns of the tower (Tower), for any   *)
(* feed, sessions and number of frames: the kept chart is the one that     *)
(* would be drawn; green is earned, in this pass where the board could     *)
(* notice that it began; the folds hold readings of their own driver and   *)
(* session, and of that pass; and the two columns agree.                   *)
(***************************************************************************)
EXTENDS LaneSocket, Tower, LiveIngest, ListProofs

-----------------------------------------------------------------------------
(* The live ingester: LiveIngest *)

USE CapturesAssumption, PlacesAssumption, BoundsAssumption

LEMMA ClipsFinite == IsFiniteSet(Clips)
<1>1. Captures \in Surjection(1 .. Len(Captures), Clips)
  BY DEF Surjection, Clips, Range
<1> QED  BY <1>1, FS_Interval, FS_Surjection

\* What a payload brings, of what is read of it: listed once each, and all of it
\* unless the batch is aborted.
LEMMA FreshFacts ==
  ASSUME NEW cs \in Seq(Clips)
  PROVE  /\ Fresh(cs) = Read(cs) \ (seen \cup Malformed)
         /\ Fresh(cs) \subseteq Clips
         /\ Read(cs) \subseteq Range(cs) \ Untexted
         /\ ~Aborts(cs) => Read(cs) = Range(cs)
         /\ SetToSeq(Fresh(cs)) \in Seq(Clips) /\ IsInjective(SetToSeq(Fresh(cs)))
         /\ Range(SetToSeq(Fresh(cs))) = Fresh(cs)
<1>1. IsFiniteSet(Clips)
  BY ClipsFinite
<1>2. Range(cs) \subseteq Clips /\ DOMAIN cs = 1 .. Len(cs) /\ Len(cs) \in Nat
  BY RangeOfSeq
<1>3. Read(cs) \subseteq Range(cs) \ Untexted
  <2> SUFFICES ASSUME NEW i \in DOMAIN cs, \A k \in 1 .. i : cs[k] \notin Untexted
               PROVE  cs[i] \in Range(cs) \ Untexted
    BY DEF Read
  <2>1. i \in 1 .. i
    BY <1>2
  <2> QED  BY <2>1 DEF Range
<1>4. ASSUME ~Aborts(cs)
      PROVE  Read(cs) = Range(cs)
  <2>1. \A i \in DOMAIN cs : \A k \in 1 .. i : cs[k] \notin Untexted
    BY <1>2, <1>4 DEF Aborts, Range
  <2> QED  BY <2>1 DEF Read, Range
<1>5. Fresh(cs) \subseteq Clips
  BY <1>2, <1>3 DEF Fresh
<1>6. IsFiniteSet(Fresh(cs))
  BY <1>1, <1>5, FS_Subset
<1>7. /\ SetToSeq(Fresh(cs)) \in Seq(Fresh(cs)) /\ IsInjective(SetToSeq(Fresh(cs)))
      /\ Range(SetToSeq(Fresh(cs))) = Fresh(cs)
  BY <1>6, Listed
<1>8. Seq(Fresh(cs)) \subseteq Seq(Clips)
  BY <1>5
<1> QED  BY <1>3, <1>4, <1>5, <1>7, <1>8 DEF Fresh

-----------------------------------------------------------------------------
(* The invariant *)

Frames == [rev : Nat, radio : Seq(Clips)]

IngestTypeOK ==
  /\ said \in 0 .. Len(Captures) /\ up \in BOOLEAN /\ path \in BOOLEAN /\ failed \in BOOLEAN
  /\ seen \subseteq Clips /\ heard \subseteq Clips /\ lost \subseteq Clips
  /\ deferred \in Seq(Clips) /\ pending \in Seq(Clips)
  /\ snapshot \in Frames /\ stored \in Frames /\ board \in Frames

\* A frame of the running process is newer than any that a board has, and unless a
\* call failed the boards have every clip of its snapshot. What an aborted batch
\* lost was seen in it.
BoardInv ==
  /\ board.rev <= stored.rev
  /\ up => stored.rev <= snapshot.rev
  /\ up /\ ~failed => Range(snapshot.radio) \subseteq Range(board.radio)
  /\ up => lost \subseteq seen

IngestInv == IngestTypeOK /\ RadioOnce /\ BoardInv /\ NoClipLost

LEMMA IngestInitially == IngestInit => IngestInv
<1> SUFFICES ASSUME IngestInit
             PROVE  IngestInv
  OBVIOUS
<1>1. /\ <<>> \in Seq(Clips) /\ IsInjective(<<>>)
      /\ 0 \in 0 .. Len(Captures)
  BY DEF IsInjective
<1>2. Nothing \in Frames /\ Nothing.rev = 0 /\ Nothing.radio = <<>>
  BY <1>1 DEF Nothing, Frames
<1>3. IngestTypeOK
  BY <1>1, <1>2 DEF IngestInit, IngestTypeOK
<1> QED
  BY <1>1, <1>2, <1>3 DEF IngestInit, IngestInv, RadioOnce, BoardInv, NoClipLost

LEMMA StartKeeps ==
  ASSUME IngestInv, Start
  PROVE  IngestInv'
<1>1. /\ <<>> \in Seq(Clips) /\ IsInjective(<<>>)
      /\ Range(<<>>) = {} /\ <<>> \o <<>> = <<>>
  BY DEF IsInjective, Range
<1>2. /\ snapshot' = stored' /\ stored' \in Frames
      /\ stored'.rev = stored.rev /\ stored'.radio = <<>>
  BY <1>1 DEF Start, IngestInv, IngestTypeOK, Frames
<1>3. IngestTypeOK'
  BY <1>1, <1>2 DEF Start, IngestInv, IngestTypeOK
<1>4. RadioOnce'
  BY <1>1, <1>2 DEF Start, RadioOnce
<1>5. BoardInv'
  BY <1>1, <1>2, <1>3 DEF Start, IngestInv, BoardInv, IngestTypeOK, Frames
<1> QED  BY <1>3, <1>4, <1>5 DEF Start, IngestInv, NoClipLost

\* Fresh clips are seen, and go to the end of pending or are lost.
LEMMA ResolveKeeps ==
  ASSUME IngestInv, up, UNCHANGED <<up, stored, snapshot>>,
         NEW cs \in Seq(Clips), Resolve(cs)
  PROVE  /\ pending' \in Seq(Clips) /\ seen' \subseteq Clips /\ lost' \subseteq seen'
         /\ seen' = seen \cup (Read(cs) \ Malformed)
         /\ IsInjective(pending' \o snapshot'.radio)
         /\ Range(pending' \o snapshot'.radio) = seen' \ lost'
<1> DEFINE refs == SetToSeq(Fresh(cs))
           radio == snapshot.radio
<1>1. /\ refs \in Seq(Clips) /\ IsInjective(refs) /\ Range(refs) = Fresh(cs)
      /\ Fresh(cs) = Read(cs) \ (seen \cup Malformed) /\ Fresh(cs) \subseteq Clips
  BY FreshFacts
<1>2. pending \in Seq(Clips) /\ radio \in Seq(Clips) /\ seen \subseteq Clips /\ lost \subseteq seen
  BY DEF IngestInv, IngestTypeOK, BoardInv, Frames
<1>3. IsInjective(pending \o radio) /\ Range(pending \o radio) = seen \ lost
  BY DEF IngestInv, RadioOnce
<1>4. seen' = seen \cup Fresh(cs) /\ seen' = seen \cup (Read(cs) \ Malformed) /\ seen' \subseteq Clips
  BY <1>1, <1>2 DEF Resolve
<1>5. CASE Aborts(cs)
  <2>1. lost' = lost \cup Fresh(cs) /\ pending' = pending
    BY <1>5 DEF Resolve
  <2>2. seen' \ lost' = seen \ lost /\ lost' \subseteq seen'
    BY <1>1, <1>2, <1>4, <2>1
  <2> QED  BY <1>2, <1>3, <1>4, <2>1, <2>2
<1>6. CASE ~Aborts(cs)
  <2>1. lost' = lost /\ pending' = pending \o refs
    BY <1>6 DEF Resolve
  <2>2. /\ IsInjective(pending) /\ IsInjective(radio) /\ Range(pending) \cap Range(radio) = {}
        /\ Range(pending) \cup Range(radio) = seen \ lost
    BY <1>2, <1>3, Joined
  <2> DEFINE both == pending \o refs
  <2> HIDE DEF refs, radio
  <2>3. both \in Seq(Clips) /\ Range(both) = Range(pending) \cup Range(refs) /\ IsInjective(both)
    BY <1>1, <1>2, <2>2, Joined
  <2> HIDE DEF both
  <2>4. Range(both) \cap Range(radio) = {}
    BY <1>1, <2>2, <2>3
  <2>5. Range(both \o radio) = Range(both) \cup Range(radio) /\ IsInjective(both \o radio)
    BY <1>2, <2>2, <2>3, <2>4, Joined
  <2>6. seen' \ lost' = Range(both) \cup Range(radio) /\ lost' \subseteq seen'
    BY <1>1, <1>2, <1>4, <2>1, <2>2, <2>3
  <2>7. pending' = both /\ snapshot'.radio = radio
    BY <2>1 DEF both, radio
  <2> QED  BY <1>4, <2>3, <2>5, <2>6, <2>7
<1> QED  BY <1>5, <1>6

\* What is heard is seen, or is parked; and where calls did not fail, it is on the
\* boards, or waits, or is lost.
LEMMA HeardKeeps ==
  ASSUME IngestInv, up, UNCHANGED <<up, stored, snapshot, board, failed>>,
         IngestTypeOK', IsInjective(pending' \o snapshot'.radio),
         Range(pending' \o snapshot'.radio) = seen' \ lost', lost' \subseteq seen',
         heard' = seen' \cup (Range(deferred') \ (Malformed \cup Untexted))
  PROVE  IngestInv'
<1>1. RadioOnce'
  BY DEF IngestInv, RadioOnce
<1>2. BoardInv'
  BY DEF IngestInv, BoardInv
<1>3. Range(pending' \o snapshot'.radio) = Range(pending') \cup Range(snapshot'.radio)
  BY Joined DEF IngestTypeOK, Frames
<1>4. NoClipLost'
  BY <1>2, <1>3 DEF NoClipLost, BoardInv
<1> QED  BY <1>1, <1>2, <1>4 DEF IngestInv

LEMMA SessionInfoKeeps ==
  ASSUME IngestInv, SessionInfo
  PROVE  IngestInv'
<1>1. up /\ UNCHANGED <<up, stored, snapshot, board, failed, heard, said>>
  BY DEF SessionInfo, outVars
<1>2. /\ Resolve(deferred) /\ path' = TRUE
      /\ deferred' = IF Aborts(deferred) THEN deferred ELSE <<>>
  BY DEF SessionInfo
<1>3. deferred \in Seq(Clips)
  BY DEF IngestInv, IngestTypeOK
<1>4. /\ pending' \in Seq(Clips) /\ seen' \subseteq Clips /\ lost' \subseteq seen'
      /\ seen' = seen \cup (Read(deferred) \ Malformed)
      /\ IsInjective(pending' \o snapshot'.radio)
      /\ Range(pending' \o snapshot'.radio) = seen' \ lost'
  BY <1>1, <1>2, <1>3, ResolveKeeps
<1>5. deferred' \in Seq(Clips)
  BY <1>2, <1>3
<1>6. IngestTypeOK'
  BY <1>1, <1>2, <1>4, <1>5 DEF IngestInv, IngestTypeOK
<1>7. heard' = seen' \cup (Range(deferred') \ (Malformed \cup Untexted))
  <2>1. heard = seen \cup (Range(deferred) \ (Malformed \cup Untexted))
    BY <1>1 DEF IngestInv, RadioOnce
  <2>2. Read(deferred) \subseteq Range(deferred) \ Untexted
        /\ (~Aborts(deferred) => Read(deferred) = Range(deferred))
    BY <1>3, FreshFacts
  <2>3. Range(<<>>) = {}
    BY DEF Range
  <2>4. CASE Aborts(deferred)
    <3>1. deferred' = deferred
      BY <1>2, <2>4
    <3> QED  BY <1>1, <1>4, <2>1, <2>2, <3>1
  <2>5. CASE ~Aborts(deferred)
    <3>1. deferred' = <<>> /\ Read(deferred) = Range(deferred)
      BY <1>2, <2>2, <2>5
    <3> QED  BY <1>1, <1>4, <2>1, <2>2, <2>3, <3>1
  <2> QED  BY <2>4, <2>5
<1> QED  BY <1>1, <1>4, <1>6, <1>7, HeardKeeps

LEMMA TeamRadioKeeps ==
  ASSUME IngestInv, up, NEW cs \in Seq(Clips), TeamRadio(cs), said' \in 0 .. Len(Captures)
  PROVE  IngestInv'
<1>1. UNCHANGED <<up, path, stored, snapshot, board, failed>>
  BY DEF TeamRadio, outVars
<1>2. heard = seen \cup (Range(deferred) \ (Malformed \cup Untexted))
  BY DEF IngestInv, RadioOnce
<1>3. Range(cs) \subseteq Clips /\ Read(cs) \subseteq Clips
  BY RangeOfSeq, FreshFacts
<1>4. CASE path
  <2>1. Resolve(cs) /\ deferred' = deferred /\ heard' = heard \cup (Read(cs) \ Malformed)
    BY <1>4 DEF TeamRadio
  <2>2. /\ pending' \in Seq(Clips) /\ seen' \subseteq Clips /\ lost' \subseteq seen'
        /\ seen' = seen \cup (Read(cs) \ Malformed)
        /\ IsInjective(pending' \o snapshot'.radio)
        /\ Range(pending' \o snapshot'.radio) = seen' \ lost'
    BY <1>1, <2>1, ResolveKeeps
  <2>3. IngestTypeOK'
    BY <1>1, <1>3, <2>1, <2>2 DEF IngestInv, IngestTypeOK
  <2>4. heard' = seen' \cup (Range(deferred') \ (Malformed \cup Untexted))
    BY <1>2, <2>1, <2>2
  <2> QED  BY <1>1, <2>2, <2>3, <2>4, HeardKeeps
<1>5. CASE ~path
  <2>1. /\ deferred' = deferred \o cs /\ UNCHANGED <<pending, seen, lost>>
        /\ heard' = heard \cup (Range(cs) \ (Malformed \cup Untexted))
    BY <1>5 DEF TeamRadio
  <2>2. deferred' \in Seq(Clips) /\ Range(deferred') = Range(deferred) \cup Range(cs)
    <3>1. deferred \in Seq(Clips)
      BY DEF IngestInv, IngestTypeOK
    <3> QED  BY <2>1, <3>1, Joined
  <2>3. IngestTypeOK'
    BY <1>1, <1>3, <2>1, <2>2 DEF IngestInv, IngestTypeOK
  <2>4. heard' = seen' \cup (Range(deferred') \ (Malformed \cup Untexted))
    BY <1>2, <2>1, <2>2
  <2>5. /\ IsInjective(pending' \o snapshot'.radio) /\ lost' \subseteq seen'
        /\ Range(pending' \o snapshot'.radio) = seen' \ lost'
    BY <1>1, <2>1 DEF IngestInv, RadioOnce, BoardInv
  <2> QED  BY <1>1, <2>3, <2>4, <2>5, HeardKeeps
<1> QED  BY <1>4, <1>5

LEMMA ClipKeeps ==
  ASSUME IngestInv, Clip
  PROVE  IngestInv'
<1>1. said \in 0 .. Len(Captures)
  BY DEF IngestInv, IngestTypeOK
<1>2. CASE up /\ said < Len(Captures) /\ said' = said + 1 /\ TeamRadio(<<Captures[said']>>)
  <2>1. said' \in 0 .. Len(Captures) /\ said' \in DOMAIN Captures
    BY <1>1, <1>2
  <2>2. <<Captures[said']>> \in Seq(Clips)
    BY <2>1 DEF Clips, Range
  <2> QED  BY <1>2, <2>1, <2>2, TeamRadioKeeps
<1>3. CASE up /\ TeamRadio(SubSeq(Captures, 1, said)) /\ UNCHANGED said
  <2>1. SubSeq(Captures, 1, said) \in Seq(Clips)
    BY <1>1
  <2> QED  BY <1>1, <1>3, <2>1, TeamRadioKeeps
<1>4. CASE said < Len(Captures) /\ said' = said + 1
           /\ UNCHANGED <<runs, up, feedVars, carVars, outVars>>
  <2>1. said' \in 0 .. Len(Captures)
    BY <1>1, <1>4
  <2> QED  BY <1>4, <2>1 DEF IngestInv, IngestTypeOK, RadioOnce, BoardInv, NoClipLost, feedVars, outVars
<1> QED  BY <1>2, <1>3, <1>4 DEF Clip

\* A frame takes everything that waits, whether or not it gets through.
LEMMA SendKeeps ==
  ASSUME IngestInv, up, Send(snapshot.rev + 1, pending)
  PROVE  /\ snapshot' \in Frames /\ stored' \in Frames /\ board' \in Frames /\ failed' \in BOOLEAN
         /\ IsInjective(snapshot'.radio) /\ Range(snapshot'.radio) = seen \ lost
         /\ IsInjective(stored'.radio)
         /\ board'.rev <= stored'.rev /\ stored'.rev <= snapshot'.rev
         /\ ~failed' => Range(snapshot'.radio) \subseteq Range(board'.radio)
<1> DEFINE radio == snapshot.radio
<1>1. /\ snapshot \in Frames /\ stored \in Frames /\ board \in Frames
      /\ pending \in Seq(Clips) /\ failed \in BOOLEAN
  BY DEF IngestInv, IngestTypeOK
<1>2. /\ snapshot.rev \in Nat /\ stored.rev \in Nat /\ board.rev \in Nat
      /\ radio \in Seq(Clips) /\ board.radio \in Seq(Clips)
  BY <1>1 DEF Frames
<1>3. IsInjective(pending \o radio) /\ Range(pending \o radio) = seen \ lost /\ IsInjective(stored.radio)
  BY DEF IngestInv, RadioOnce
<1>4. board.rev <= stored.rev /\ stored.rev <= snapshot.rev
      /\ (~failed => Range(radio) \subseteq Range(board.radio))
  BY DEF IngestInv, BoardInv
<1>5. snapshot' = [rev |-> snapshot.rev + 1, radio |-> radio \o pending]
  BY DEF Send
<1> HIDE DEF radio
<1>6. /\ radio \o pending \in Seq(Clips) /\ IsInjective(radio \o pending)
      /\ Range(radio \o pending) = seen \ lost
      /\ Range(radio \o pending) = Range(radio) \cup Range(pending)
  <2>1. /\ IsInjective(pending) /\ IsInjective(radio) /\ Range(pending) \cap Range(radio) = {}
        /\ Range(pending) \cup Range(radio) = seen \ lost
    BY <1>1, <1>2, <1>3, Joined
  <2>2. /\ radio \o pending \in Seq(Clips)
        /\ Range(radio \o pending) = Range(radio) \cup Range(pending)
        /\ IsInjective(radio \o pending)
    BY <1>1, <1>2, <2>1, Joined
  <2> QED  BY <2>1, <2>2
<1>7. /\ snapshot' \in Frames /\ snapshot'.rev = snapshot.rev + 1
      /\ snapshot'.radio = radio \o pending
  BY <1>2, <1>5, <1>6, SMTT(30) DEF Frames
<1>8. CASE failed' = TRUE /\ stored' = stored /\ board' = board
  BY <1>1, <1>2, <1>3, <1>4, <1>6, <1>7, <1>8
<1>9. CASE failed' = TRUE /\ stored' = snapshot' /\ board' = board
  <2>1. board.rev <= snapshot.rev + 1 /\ snapshot.rev + 1 <= snapshot.rev + 1
    BY <1>2, <1>4
  <2>2. board'.rev = board.rev /\ stored'.rev = snapshot.rev + 1 /\ stored'.radio = radio \o pending
    BY <1>7, <1>9
  <2> QED  BY <1>1, <1>6, <1>7, <1>9, <2>1, <2>2
<1>10. CASE /\ stored' = snapshot' /\ failed' = failed
            /\ board' = [rev |-> snapshot.rev + 1, radio |-> board.radio \o pending]
  <2>1. board.radio \o pending \in Seq(Clips)
        /\ Range(board.radio \o pending) = Range(board.radio) \cup Range(pending)
    BY <1>1, <1>2, Joined
  <2>2. /\ board'.rev = snapshot.rev + 1 /\ board'.radio = board.radio \o pending
        /\ stored'.rev = snapshot.rev + 1 /\ stored'.radio = radio \o pending
    BY <1>7, <1>10
  <2>3. snapshot.rev + 1 \in Nat /\ snapshot.rev + 1 <= snapshot.rev + 1
    BY <1>2
  <2>4. board' \in Frames
    BY <1>10, <2>1, <2>3 DEF Frames
  <2>5. ~failed' => Range(snapshot'.radio) \subseteq Range(board'.radio)
    BY <1>4, <1>6, <1>7, <1>10, <2>1, <2>2
  <2> QED  BY <1>1, <1>6, <1>7, <1>10, <2>2, <2>3, <2>4, <2>5
<1>11. ~(snapshot.rev + 1 <= board.rev)
  BY <1>2, <1>4
<1> QED  BY <1>8, <1>9, <1>10, <1>11 DEF Send

LEMMA PositionKeeps ==
  ASSUME IngestInv, NEW d \in Drivers, NEW out \in BOOLEAN, Position(d, out)
  PROVE  IngestInv'
<1>1. up /\ UNCHANGED <<said, up, path, deferred, seen, heard, lost>>
  BY DEF Position
<1>2. CASE UNCHANGED <<pending, outVars>>
  BY <1>1, <1>2 DEF IngestInv, IngestTypeOK, RadioOnce, BoardInv, NoClipLost, outVars
<1>3. CASE pending' = <<>> /\ Send(snapshot.rev + 1, pending)
  <2>1. /\ snapshot' \in Frames /\ stored' \in Frames /\ board' \in Frames /\ failed' \in BOOLEAN
        /\ IsInjective(snapshot'.radio) /\ Range(snapshot'.radio) = seen \ lost
        /\ IsInjective(stored'.radio)
        /\ board'.rev <= stored'.rev /\ stored'.rev <= snapshot'.rev
        /\ ~failed' => Range(snapshot'.radio) \subseteq Range(board'.radio)
    BY <1>1, <1>3, SendKeeps
  <2>2. pending' \o snapshot'.radio = snapshot'.radio /\ pending' \in Seq(Clips)
    BY <1>3, <2>1 DEF Frames
  <2>3. IngestTypeOK'
    BY <1>1, <2>1, <2>2 DEF IngestInv, IngestTypeOK
  <2>4. RadioOnce'
    BY <1>1, <2>1, <2>2 DEF IngestInv, RadioOnce
  <2>5. BoardInv'
    BY <1>1, <2>1 DEF IngestInv, BoardInv
  <2>6. NoClipLost'
    BY <1>1, <2>1, <2>4 DEF NoClipLost, RadioOnce
  <2> QED  BY <2>3, <2>4, <2>5, <2>6 DEF IngestInv
<1> QED  BY <1>2, <1>3 DEF Position

\* Whatever the last calls did, a process that is gone holds nothing.
LEMMA ExitKeeps ==
  ASSUME IngestInv, Exit,
         snapshot' \in Frames, stored' \in Frames, board' \in Frames, failed' \in BOOLEAN,
         IsInjective(stored'.radio), board'.rev <= stored'.rev, NoClipLost'
  PROVE  IngestInv'
<1>1. <<>> \in Seq(Clips) /\ {} \subseteq Clips
  OBVIOUS
<1>2. IngestTypeOK'
  BY <1>1 DEF Exit, IngestInv, IngestTypeOK
<1> QED  BY <1>2 DEF Exit, IngestInv, RadioOnce, BoardInv

LEMMA StopKeeps ==
  ASSUME IngestInv, Stop
  PROVE  IngestInv'
<1>1. Exit /\ up /\ ~up' /\ UNCHANGED <<deferred, heard, lost>>
  BY DEF Stop, Exit
<1>2. heard = seen \cup (Range(deferred) \ (Malformed \cup Untexted))
  BY <1>1 DEF IngestInv, RadioOnce
<1>3. CASE pending = <<>> /\ UNCHANGED outVars
  <2>1. Range(pending) = {}
    BY <1>3 DEF Range
  <2>2. NoClipLost'
    BY <1>1, <1>3, <2>1 DEF IngestInv, NoClipLost, outVars
  <2>3. /\ snapshot' \in Frames /\ stored' \in Frames /\ board' \in Frames /\ failed' \in BOOLEAN
        /\ IsInjective(stored'.radio) /\ board'.rev <= stored'.rev
    BY <1>3 DEF IngestInv, IngestTypeOK, RadioOnce, BoardInv, outVars
  <2> QED  BY <1>1, <2>2, <2>3, ExitKeeps
<1>4. CASE Send(snapshot.rev + 1, pending)
  <2> DEFINE s == seen
  <2>1. /\ snapshot' \in Frames /\ stored' \in Frames /\ board' \in Frames /\ failed' \in BOOLEAN
        /\ Range(snapshot'.radio) = seen \ lost
        /\ IsInjective(stored'.radio) /\ board'.rev <= stored'.rev
        /\ ~failed' => Range(snapshot'.radio) \subseteq Range(board'.radio)
    BY <1>1, <1>4, SendKeeps
  <2>2. NoClipLost'
    BY <1>1, <1>2, <2>1 DEF NoClipLost
  <2> QED  BY <1>1, <2>1, <2>2, ExitKeeps
<1> QED  BY <1>3, <1>4 DEF Stop

LEMMA CrashKeeps ==
  ASSUME IngestInv, Crash
  PROVE  IngestInv'
<1>1. NoClipLost'
  BY DEF Crash, NoClipLost
<1>2. /\ snapshot' \in Frames /\ stored' \in Frames /\ board' \in Frames /\ failed' \in BOOLEAN
      /\ IsInjective(stored'.radio) /\ board'.rev <= stored'.rev
  BY DEF Crash, IngestInv, IngestTypeOK, RadioOnce, BoardInv
<1> QED  BY <1>1, <1>2, ExitKeeps DEF Crash

LEMMA IngestHolds == IngestSpec => []IngestInv
<1>1. IngestInv /\ [IngestNext]_ingestVars => IngestInv'
  <2> SUFFICES ASSUME IngestInv, [IngestNext]_ingestVars
               PROVE  IngestInv'
    OBVIOUS
  <2>1. ASSUME NEW d, NEW p, TimingData(d, p)
        PROVE  IngestInv'
    BY <2>1 DEF TimingData, IngestInv, IngestTypeOK, RadioOnce, BoardInv, NoClipLost, feedVars, outVars
  <2>2. CASE UNCHANGED ingestVars
    BY <2>2 DEF ingestVars, IngestInv, IngestTypeOK, RadioOnce, BoardInv, NoClipLost, feedVars, outVars
  <2> QED
    BY <2>1, <2>2, StartKeeps, SessionInfoKeeps, ClipKeeps, PositionKeeps, StopKeeps, CrashKeeps
    DEF IngestNext
<1> QED  BY <1>1, IngestInitially, PTL DEF IngestSpec

-----------------------------------------------------------------------------
\* The list that a browser gets from Redis has no clip twice, and a process holds
\* every clip it has seen in one place, or lost it with an aborted batch, however
\* often the feed sends its list and whichever of path and clips comes first.
THEOREM Once == IngestSpec => []RadioOnce
BY IngestHolds, PTL DEF IngestInv

\* Unless a call failed, every clip that a process heard is on the boards, or waits
\* in the process for its path or for a frame, or went with an aborted batch.
THEOREM NothingLost == IngestSpec => []NoClipLost
BY IngestHolds, PTL DEF IngestInv

-----------------------------------------------------------------------------
(* The order of the cars *)

Cars == [number : Drivers, pos : Nat, out : BOOLEAN]

CarInv == running \in [Drivers -> Nat] /\ latest \in Seq(Cars)

\* A sample puts one car in its place, with the feed's; a rank is a number.
LEMMA SampledCars ==
  ASSUME CarInv, NEW d \in Drivers, NEW out \in BOOLEAN
  PROVE  Sampled(d, out) \in Seq(Cars)
<1> DEFINE car == [number |-> d, pos |-> running[d], out |-> out]
<1>1. car \in Cars
  BY DEF CarInv, Cars
<1>2. latest \in Seq(Cars) /\ Len(latest) \in Nat /\ DOMAIN latest = 1 .. Len(latest)
      /\ \A i \in 1 .. Len(latest) : latest[i] \in Cars
  BY DEF CarInv
<1> HIDE DEF car
<1>3. Append(latest, car) \in Seq(Cars)
  BY <1>1, <1>2
<1>4. [i \in DOMAIN latest |-> IF latest[i].number = d THEN car ELSE latest[i]] \in Seq(Cars)
  BY <1>1, <1>2
<1> QED  BY <1>3, <1>4 DEF Sampled, car

LEMMA RestampedCars ==
  ASSUME CarInv, NEW cs \in Seq(Cars)
  PROVE  /\ Restamped(cs) \in Seq(Cars) /\ DOMAIN Restamped(cs) = DOMAIN cs
         /\ \A i \in DOMAIN cs : Restamped(cs)[i].pos = running[Restamped(cs)[i].number]
<1>1. Len(cs) \in Nat /\ DOMAIN cs = 1 .. Len(cs) /\ \A i \in 1 .. Len(cs) : cs[i] \in Cars
  OBVIOUS
<1> DEFINE car(i) == [cs[i] EXCEPT !.pos = running[cs[i].number]]
<1>2. \A i \in 1 .. Len(cs) :
        car(i) \in Cars /\ car(i).number = cs[i].number /\ car(i).pos = running[cs[i].number]
  BY <1>1 DEF Cars, CarInv
<1>3. Restamped(cs) = [i \in 1 .. Len(cs) |-> car(i)]
  BY <1>1 DEF Restamped
<1> HIDE DEF car
<1>4. Restamped(cs) \in Seq(Cars)
  BY <1>1, <1>2, <1>3
<1> QED  BY <1>1, <1>2, <1>3, <1>4

LEMMA RenumberedCars ==
  ASSUME NEW cs \in Seq(Cars)
  PROVE  /\ Renumbered(cs) \in Seq(Cars) /\ DOMAIN Renumbered(cs) = DOMAIN cs
         /\ \A i \in DOMAIN cs :
              /\ Renumbered(cs)[i].number = cs[i].number /\ Renumbered(cs)[i].out = cs[i].out
              /\ Renumbered(cs)[i].pos = Cardinality({j \in DOMAIN cs : Ahead(cs, j, i)}) + 1
<1> DEFINE rank(i) == Cardinality({j \in DOMAIN cs : Ahead(cs, j, i)})
<1>1. Len(cs) \in Nat /\ DOMAIN cs = 1 .. Len(cs) /\ \A i \in 1 .. Len(cs) : cs[i] \in Cars
  OBVIOUS
<1>2. \A i \in 1 .. Len(cs) : rank(i) \in Nat
  <2>1. IsFiniteSet(1 .. Len(cs))
    BY <1>1, FS_Interval
  <2>2. \A i : {j \in DOMAIN cs : Ahead(cs, j, i)} \in SUBSET (1 .. Len(cs))
    BY <1>1
  <2> QED  BY <2>1, <2>2, FS_Subset, FS_CardinalityType
<1> DEFINE car(i) == [cs[i] EXCEPT !.pos = rank(i) + 1]
<1>3. Renumbered(cs) = [i \in 1 .. Len(cs) |-> car(i)]
  BY <1>1 DEF Renumbered
<1> HIDE DEF rank
<1>4. \A i \in 1 .. Len(cs) : /\ car(i) \in Cars /\ car(i).number = cs[i].number
                              /\ car(i).out = cs[i].out /\ car(i).pos = rank(i) + 1
  <2> SUFFICES ASSUME NEW i \in 1 .. Len(cs)
               PROVE  /\ car(i) \in Cars /\ car(i).number = cs[i].number
                      /\ car(i).out = cs[i].out /\ car(i).pos = rank(i) + 1
    OBVIOUS
  <2> DEFINE n == rank(i) + 1
  <2>1. n \in Nat /\ cs[i] \in Cars
    BY <1>1, <1>2
  <2> HIDE DEF n
  <2>2. [cs[i] EXCEPT !.pos = n] \in Cars
    BY <2>1 DEF Cars
  <2>3. /\ [cs[i] EXCEPT !.pos = n].number = cs[i].number
        /\ [cs[i] EXCEPT !.pos = n].out = cs[i].out /\ [cs[i] EXCEPT !.pos = n].pos = n
    BY <2>1 DEF Cars
  <2> QED  BY <2>2, <2>3 DEF n
<1> HIDE DEF car
<1>5. Renumbered(cs) \in Seq(Cars) /\ DOMAIN Renumbered(cs) = DOMAIN cs
  BY <1>1, <1>3, <1>4
<1> QED  BY <1>1, <1>3, <1>4, <1>5 DEF rank

\* Whoever is ahead of a car that is behind by the feed has a smaller rank than it.
LEMMA RankFollows ==
  ASSUME NEW cs \in Seq(Cars), NEW i \in DOMAIN cs, NEW k \in DOMAIN cs,
         ~cs[i].out, ~cs[k].out, cs[k].pos < cs[i].pos
  PROVE  Renumbered(cs)[k].pos < Renumbered(cs)[i].pos
<1> DEFINE ahead(n) == {j \in DOMAIN cs : Ahead(cs, j, n)}
<1>1. Len(cs) \in Nat /\ DOMAIN cs = 1 .. Len(cs)
      /\ \A j \in 1 .. Len(cs) : cs[j].pos \in Nat /\ cs[j].number \in Nat /\ cs[j].out \in BOOLEAN
  <2>1. Len(cs) \in Nat /\ DOMAIN cs = 1 .. Len(cs) /\ \A j \in 1 .. Len(cs) : cs[j] \in Cars
    OBVIOUS
  <2> QED  BY <2>1 DEF Cars
<1>2. IsFiniteSet(ahead(i)) /\ Cardinality(ahead(i)) \in Nat
      /\ IsFiniteSet(ahead(k)) /\ Cardinality(ahead(k)) \in Nat
  <2>1. IsFiniteSet(1 .. Len(cs))
    BY <1>1, FS_Interval
  <2>2. \A n : ahead(n) \in SUBSET (1 .. Len(cs))
    BY <1>1
  <2> QED  BY <2>1, <2>2, FS_Subset, FS_CardinalityType
<1>3. ahead(k) \subseteq ahead(i)
  <2> SUFFICES ASSUME NEW j \in DOMAIN cs, Ahead(cs, j, k)
               PROVE  Ahead(cs, j, i)
    OBVIOUS
  <2>1. /\ cs[j].pos \in Nat /\ cs[k].pos \in Nat /\ cs[i].pos \in Nat
        /\ cs[j].number \in Nat /\ cs[k].number \in Nat
    BY <1>1
  <2>2. ~cs[j].out /\ (cs[j].pos < cs[k].pos \/ cs[j].pos = cs[k].pos)
    BY DEF Ahead
  <2>3. cs[j].pos < cs[i].pos
    BY <2>1, <2>2
  <2> QED  BY <2>2, <2>3 DEF Ahead
<1>4. k \in ahead(i) /\ k \notin ahead(k)
  BY <1>1 DEF Ahead
<1> HIDE DEF ahead
<1>5. Cardinality(ahead(k)) <= Cardinality(ahead(i)) /\ Cardinality(ahead(k)) # Cardinality(ahead(i))
  BY <1>2, <1>3, <1>4, FS_Subset
<1>6. Renumbered(cs)[k].pos = Cardinality(ahead(k)) + 1
      /\ Renumbered(cs)[i].pos = Cardinality(ahead(i)) + 1
  BY RenumberedCars DEF ahead
<1> QED  BY <1>2, <1>5, <1>6

LEMMA CarInvHolds == IngestSpec => []CarInv
<1>1. Unknown \in Nat /\ <<>> \in Seq(Cars)
  BY PlacesAssumption
<1>2. IngestInit => CarInv
  BY <1>1 DEF IngestInit, CarInv
<1>3. CarInv /\ [IngestNext]_ingestVars => CarInv'
  <2> SUFFICES ASSUME CarInv, [IngestNext]_ingestVars
               PROVE  CarInv'
    OBVIOUS
  <2>1. CASE Start \/ Stop \/ Crash
    BY <1>1, <2>1 DEF Start, Stop, Crash, Exit, CarInv
  <2>2. CASE SessionInfo \/ Clip \/ UNCHANGED ingestVars
    BY <2>2 DEF SessionInfo, Clip, TeamRadio, ingestVars, carVars, CarInv
  <2>3. ASSUME NEW d \in Drivers, NEW p \in 1 .. Cardinality(Drivers), TimingData(d, p)
        PROVE  CarInv'
    BY <2>3 DEF TimingData, CarInv
  <2>4. ASSUME NEW d \in Drivers, NEW out \in BOOLEAN, Position(d, out)
        PROVE  CarInv'
    <3>1. running' = running
          /\ latest' \in {Sampled(d, out), Renumbered(Restamped(Sampled(d, out)))}
      BY <2>4 DEF Position
    <3>2. Sampled(d, out) \in Seq(Cars)
      BY SampledCars
    <3>3. Renumbered(Restamped(Sampled(d, out))) \in Seq(Cars)
      BY <3>2, RestampedCars, RenumberedCars
    <3> QED  BY <3>1, <3>2, <3>3 DEF CarInv
  <2> QED  BY <2>1, <2>2, <2>3, <2>4 DEF IngestNext
<1> QED  BY <1>2, <1>3, PTL DEF IngestSpec

\* A frame has the running cars in the feed's order, whatever ranks the frames before
\* gave them (live_signalr.py, _publish_frame and reconcile_positions).
THEOREM InOrder == IngestSpec => OrderFollowsFeed
<1>1. ASSUME CarInv, [IngestNext]_ingestVars, up', board' # board,
             NEW c \in Range(latest'), NEW e \in Range(latest'),
             c.pos < e.pos, ~c.out, ~e.out
      PROVE  running[c.number] <= running[e.number]
  <2>1. PICK d \in Drivers, out \in BOOLEAN : Position(d, out)
    BY <1>1 DEF IngestNext, ingestVars, outVars, Start, SessionInfo, Clip, TeamRadio, Stop, Exit, Crash,
                TimingData
  <2> DEFINE cs == Restamped(Sampled(d, out))
  <2>2. latest' = Renumbered(cs)
    BY <1>1, <2>1 DEF Position, outVars
  <2>3. cs \in Seq(Cars) /\ \A i \in DOMAIN cs : cs[i].pos = running[cs[i].number]
    BY <1>1, SampledCars, RestampedCars
  <2> HIDE DEF cs
  <2>4. /\ DOMAIN latest' = DOMAIN cs
        /\ \A i \in DOMAIN cs : latest'[i].number = cs[i].number /\ latest'[i].out = cs[i].out
    BY <2>2, <2>3, RenumberedCars
  <2>5. PICK i \in DOMAIN cs : c = latest'[i]
    BY <1>1, <2>4 DEF Range
  <2>6. PICK k \in DOMAIN cs : e = latest'[k]
    BY <1>1, <2>4 DEF Range
  <2>7. cs[i] \in Cars /\ cs[k] \in Cars /\ latest'[i].pos \in Nat /\ latest'[k].pos \in Nat
    <3>1. latest' \in Seq(Cars)
      BY <2>2, <2>3, RenumberedCars
    <3> DEFINE now == latest'
    <3>2. now[i] \in Cars /\ now[k] \in Cars /\ cs[i] \in Cars /\ cs[k] \in Cars
      BY <2>3, <2>4, <3>1
    <3> HIDE DEF now
    <3>3. now[i].pos \in Nat /\ now[k].pos \in Nat
      BY <3>2 DEF Cars
    <3> QED  BY <3>2, <3>3 DEF now
  <2>8. ~(cs[k].pos < cs[i].pos)
    BY <1>1, <2>2, <2>3, <2>4, <2>5, <2>6, <2>7, RankFollows
  <2> QED  BY <2>3, <2>4, <2>5, <2>6, <2>7, <2>8 DEF Cars
<1>2. CarInv /\ [IngestNext]_ingestVars =>
        (up' /\ board' # board =>
           \A c, e \in Range(latest') :
             c.pos < e.pos /\ ~c.out /\ ~e.out => running[c.number] <= running[e.number])
  BY <1>1
<1> QED  BY <1>2, CarInvHolds, PTL DEF IngestSpec, OrderFollowsFeed

HIDE BoundsAssumption
HIDE PlacesAssumption
HIDE CapturesAssumption

-----------------------------------------------------------------------------
(* The connections: LaneSocket *)

\* A socket is the `ws` of the call it belongs to, and the other way round.
OwnedInv ==
  \A w \in Sockets : socket[w] # Null =>
    conn[socket[w].conn] # Null /\ conn[socket[w].conn].ws = w

WsInv ==
  \A c \in Conns : conn[c] # Null /\ conn[c].ws # Null =>
    socket[conn[c].ws] # Null /\ socket[conn[c].ws].conn = c

\* OneWayOn in terms of `ws`.
WayInv ==
  \A c \in Conns : conn[c] # Null =>
    /\ conn[c].timer => conn[c].ws = Null /\ ~conn[c].exhausted
    /\ conn[c].exhausted => conn[c].ws = Null
    /\ conn[c].closed \/ conn[c].timer \/ conn[c].exhausted \/ conn[c].ws # Null

\* The phases a socket can be in while its call reports a status.
Silent(w) == socket[w].phase \in {"connecting", "open"} /\ ~socket[w].live

StatusInv ==
  \A c \in Conns : conn[c] # Null /\ ~conn[c].closed =>
    LET w == conn[c].ws IN
    /\ conn[c].status = "live" => w # Null /\ socket[w].phase = "open" /\ socket[w].live
    /\ conn[c].status = "reconnecting" =>
         \/ conn[c].timer
         \/ w # Null /\ socket[w].phase = "connecting" /\ ~socket[w].live
    /\ conn[c].status = "offline" => conn[c].exhausted
    /\ conn[c].status = "connecting" =>
         w # Null /\ Silent(w) /\ (socket[w].phase = "connecting" => conn[c].attempts = 0)

\* A call that can still count a failure has budget left.
BudgetInv ==
  \A c \in Conns : conn[c] # Null /\ ~conn[c].exhausted => conn[c].attempts <= MaxAttempts

WatchInv ==
  /\ SharedLane
  /\ \A l \in Watchers : watch[l] # Null => conn[watch[l]].session \in Lanes

IInv ==
  /\ TypeOK
  /\ OwnedInv /\ WsInv /\ WayInv /\ StatusInv /\ BudgetInv /\ WatchInv

USE LaneSocketAssumption, NullRecordAssumption

LEMMA InitHolds == Init => IInv
  BY DEF Init, IInv, TypeOK, OwnedInv, WsInv, WayInv, StatusInv, BudgetInv, WatchInv, SharedLane

\* open() on a call that has no socket: what connectRace, the timer and retry share.
LEMMA OpenHolds ==
  ASSUME IInv, NEW c \in Conns, NEW call \in Calls, Open(c, call),
         ~call.timer, ~call.exhausted, call.attempts <= MaxAttempts,
         \/ call.closed
         \/ call.status = "reconnecting"
         \/ call.status = "connecting" /\ call.attempts = 0,
         conn[c] = Null \/ conn[c].ws = Null
  PROVE  /\ conn' \in [Conns -> Calls \cup {Null}]
         /\ socket' \in [Sockets -> WebSockets \cup {Null}]
         /\ \A d \in Conns \ {c} : conn'[d] = conn[d]
         /\ conn'[c] # Null
         /\ conn'[c].session = call.session /\ conn'[c].closed = call.closed
         /\ OwnedInv' /\ WsInv' /\ WayInv' /\ StatusInv' /\ BudgetInv'
<1>1. PICK w \in Sockets :
        /\ socket[w] = Null
        /\ socket' = [socket EXCEPT ![w] = [conn |-> c, phase |-> "connecting", live |-> FALSE]]
        /\ conn' = [conn EXCEPT ![c] = [call EXCEPT !.ws = w]]
  BY DEF Open
<1> DEFINE sock == [conn |-> c, phase |-> "connecting", live |-> FALSE]
           rec == [call EXCEPT !.ws = w]
<1>2. sock \in WebSockets /\ sock # Null
  <2>1. sock \in WebSockets
    BY DEF WebSockets
  <2> QED BY <2>1, NullRecordAssumption
<1>3. /\ rec \in Calls /\ rec # Null /\ rec.ws = w /\ w # Null
      /\ rec.session = call.session /\ rec.closed = call.closed /\ rec.timer = call.timer
      /\ rec.exhausted = call.exhausted /\ rec.attempts = call.attempts
      /\ rec.status = call.status
  BY DEF Calls
<1>4. /\ conn' \in [Conns -> Calls \cup {Null}]
      /\ conn'[c] = rec
      /\ \A d \in Conns \ {c} : conn'[d] = conn[d]
  BY <1>1, <1>3 DEF IInv, TypeOK
<1>5. /\ socket' \in [Sockets -> WebSockets \cup {Null}]
      /\ socket'[w] = sock
      /\ \A v \in Sockets \ {w} : socket'[v] = socket[v]
  BY <1>1, <1>2 DEF IInv, TypeOK
<1>6. \A v \in Sockets : socket[v] # Null => socket[v].conn \in Conns /\ socket[v].conn # c
  BY DEF IInv, TypeOK, OwnedInv, WebSockets
<1>7. \A d \in Conns \ {c} : conn[d] # Null /\ conn[d].ws # Null => conn[d].ws \in Sockets \ {w}
  BY <1>1 DEF IInv, TypeOK, WsInv, Calls
<1> HIDE DEF rec
<1>8. OwnedInv'
  BY <1>3, <1>4, <1>5, <1>6 DEF IInv, OwnedInv
<1>9. WsInv'
  BY <1>2, <1>3, <1>4, <1>5, <1>7 DEF IInv, WsInv
<1>10. WayInv'
  BY <1>3, <1>4 DEF IInv, WayInv
<1>11. StatusInv'
  <2>1. ASSUME NEW d \in Conns \ {c}, conn[d] # Null, conn[d].ws # Null
        PROVE  socket'[conn[d].ws] = socket[conn[d].ws]
    BY <1>5, <1>7, <2>1
  <2>2. (call.status # "live" /\ call.status # "offline") \/ call.closed
    OBVIOUS
  <2> QED BY <1>2, <1>3, <1>4, <1>5, <2>1, <2>2 DEF IInv, StatusInv, Silent
<1>12. BudgetInv'
  BY <1>3, <1>4 DEF IInv, BudgetInv
<1> QED BY <1>3, <1>4, <1>5, <1>8, <1>9, <1>10, <1>11, <1>12

\* A call that is not in use is watched by nobody, and has no socket.
LEMMA NotInUse ==
  ASSUME IInv, NEW c \in Conns, ~InUse(c)
  PROVE  /\ conn[c] = Null \/ conn[c].ws = Null
         /\ \A l \in Watchers : watch[l] # c
         /\ \A s \in Lanes : lanes[s] # c
<1>1. conn[c] = Null \/ conn[c].ws = Null
  <2> SUFFICES ASSUME conn[c] # Null, conn[c].ws # Null PROVE FALSE
    OBVIOUS
  <2>1. conn[c].ws \in Sockets
    BY DEF IInv, TypeOK, Calls
  <2> QED BY <2>1 DEF IInv, WsInv, InUse, SocketsOf
<1>2. ~Unreleased(c)
  BY DEF InUse, Unreleased
<1> QED BY <1>1, <1>2, Null \notin Conns DEF IInv, WatchInv, SharedLane

LEMMA ConnectHolds ==
  ASSUME IInv, NEW c \in Conns, NEW s \in Lanes \cup {Board}, Connect(c, s)
  PROVE  /\ conn' \in [Conns -> Calls \cup {Null}]
         /\ socket' \in [Sockets -> WebSockets \cup {Null}]
         /\ \A d \in Conns \ {c} : conn'[d] = conn[d]
         /\ Unreleased(c)' /\ conn'[c].session = s
         /\ OwnedInv' /\ WsInv' /\ WayInv' /\ StatusInv' /\ BudgetInv'
<1> DEFINE call == [session |-> s, closed |-> FALSE, exhausted |-> FALSE, attempts |-> 0,
                    timer |-> FALSE, ws |-> Null, status |-> "connecting"]
<1>1. call \in Calls
  BY DEF Calls
<1>2. Open(c, call) /\ (conn[c] = Null \/ conn[c].ws = Null)
  BY NotInUse DEF Connect
<1>3. /\ ~call.timer /\ ~call.exhausted /\ call.attempts <= MaxAttempts
      /\ call.status = "connecting" /\ call.attempts = 0
      /\ call.session = s /\ ~call.closed
  OBVIOUS
<1> HIDE DEF call
<1> QED BY <1>1, <1>2, <1>3, OpenHolds DEF Unreleased

LEMMA OpenBoardHolds == IInv /\ OpenBoard => IInv'
<1> SUFFICES ASSUME IInv, OpenBoard PROVE IInv'
  OBVIOUS
<1>1. PICK c \in Conns : Connect(c, Board)
  BY DEF OpenBoard
<1>2. lanes' = lanes /\ watch' = watch
  BY DEF OpenBoard
<1>3. /\ conn' \in [Conns -> Calls \cup {Null}]
      /\ socket' \in [Sockets -> WebSockets \cup {Null}]
      /\ \A d \in Conns \ {c} : conn'[d] = conn[d]
      /\ OwnedInv' /\ WsInv' /\ WayInv' /\ StatusInv' /\ BudgetInv'
  BY <1>1, ConnectHolds
<1>4. TypeOK'
  BY <1>2, <1>3 DEF IInv, TypeOK
<1>5. WatchInv'
  <2>1. \A l \in Watchers : watch[l] # c
    BY <1>1, NotInUse DEF Connect
  <2>2. \A s \in Lanes : lanes[s] # c
    BY <1>1, NotInUse DEF Connect
  <2> QED BY <1>2, <1>3, <2>1, <2>2 DEF IInv, TypeOK, WatchInv, SharedLane, Unreleased
<1> QED BY <1>3, <1>4, <1>5 DEF IInv

LEMMA SubscribeHolds ==
  ASSUME NEW l \in Watchers, NEW s \in Lanes
  PROVE  IInv /\ Subscribe(l, s) => IInv'
<1> SUFFICES ASSUME IInv, Subscribe(l, s) PROVE IInv'
  OBVIOUS
<1>1. CASE lanes[s] # Null /\ watch' = [watch EXCEPT ![l] = lanes[s]]
           /\ UNCHANGED <<lanes, conn, socket>>
  <2>1. TypeOK'
    BY <1>1 DEF IInv, TypeOK
  <2>2. OwnedInv' /\ WsInv' /\ WayInv' /\ StatusInv' /\ BudgetInv'
    BY <1>1 DEF IInv, OwnedInv, WsInv, WayInv, StatusInv, BudgetInv, Silent
  <2>3. WatchInv'
    <3>1. watch[l] = Null
      BY DEF Subscribe
    <3>2. \A k \in Watchers : watch'[k] = IF k = l THEN lanes[s] ELSE watch[k]
      BY <1>1 DEF IInv, TypeOK
    <3>3. PICK k \in Watchers : watch[k] = lanes[s]
      BY <1>1 DEF IInv, WatchInv, SharedLane
    <3>4. Unreleased(lanes[s]) /\ conn[lanes[s]].session = s
      BY <1>1, <3>3 DEF IInv, WatchInv, SharedLane
    <3> QED BY <1>1, <3>1, <3>2, <3>4 DEF IInv, WatchInv, SharedLane, Unreleased
  <2> QED BY <2>1, <2>2, <2>3 DEF IInv
<1>2. CASE lanes[s] = Null /\ \E c \in Conns :
             /\ Connect(c, s)
             /\ lanes' = [lanes EXCEPT ![s] = c]
             /\ watch' = [watch EXCEPT ![l] = c]
  <2>1. PICK c \in Conns : /\ Connect(c, s)
                           /\ lanes' = [lanes EXCEPT ![s] = c]
                           /\ watch' = [watch EXCEPT ![l] = c]
    BY <1>2
  <2>2. /\ conn' \in [Conns -> Calls \cup {Null}]
        /\ socket' \in [Sockets -> WebSockets \cup {Null}]
        /\ \A d \in Conns \ {c} : conn'[d] = conn[d]
        /\ Unreleased(c)' /\ conn'[c].session = s
        /\ OwnedInv' /\ WsInv' /\ WayInv' /\ StatusInv' /\ BudgetInv'
    BY <2>1, ConnectHolds
  <2>3. TypeOK'
    BY <2>1, <2>2 DEF IInv, TypeOK
  <2>4. WatchInv'
    <3>1. watch[l] = Null /\ \A k \in Watchers : watch[k] # c
      BY <2>1, NotInUse DEF Subscribe, Connect
    <3>2. \A t \in Lanes : lanes[t] # c
      BY <2>1, NotInUse DEF Connect
    <3>3. /\ \A k \in Watchers : watch'[k] = IF k = l THEN c ELSE watch[k]
          /\ \A t \in Lanes : lanes'[t] = IF t = s THEN c ELSE lanes[t]
      BY <2>1 DEF IInv, TypeOK
    <3>4. ASSUME NEW k \in Watchers, watch'[k] # Null
          PROVE  /\ Unreleased(watch[k])' /\ (lanes[conn[watch[k]].session] = watch[k])'
                 /\ conn'[watch'[k]].session \in Lanes
      <4>1. CASE k = l
        BY <2>2, <3>3, <4>1
      <4>2. CASE k # l
        <5>1. watch'[k] = watch[k] /\ watch[k] # Null /\ watch[k] \in Conns \ {c}
          BY <3>1, <3>3, <3>4, <4>2 DEF IInv, TypeOK
        <5>2. conn'[watch[k]] = conn[watch[k]] /\ conn[watch[k]].session \in Lanes
          BY <2>2, <5>1 DEF IInv, WatchInv
        <5>3. Unreleased(watch[k]) /\ lanes[conn[watch[k]].session] = watch[k]
          BY <5>1 DEF IInv, WatchInv, SharedLane
        <5>4. conn[watch[k]].session # s
          BY <1>2, <5>1, <5>3
        <5> QED BY <3>3, <5>1, <5>2, <5>3, <5>4 DEF Unreleased
      <4> QED BY <4>1, <4>2
    <3>5. ASSUME NEW t \in Lanes, lanes'[t] # Null
          PROVE  /\ conn'[lanes'[t]].session = t
                 /\ \E k \in Watchers : watch'[k] = lanes'[t]
      <4>1. CASE t = s
        BY <2>2, <3>3, <4>1
      <4>2. CASE t # s
        <5>1. lanes'[t] = lanes[t] /\ lanes[t] \in Conns \ {c}
          BY <3>2, <3>3, <3>5, <4>2 DEF IInv, TypeOK
        <5>2. /\ conn[lanes[t]].session = t
              /\ \E k \in Watchers : watch[k] = lanes[t]
          BY <3>5, <5>1 DEF IInv, WatchInv, SharedLane
        <5> QED BY <2>2, <3>1, <3>3, <3>5, <5>1, <5>2
      <4> QED BY <4>1, <4>2
    <3> QED BY <3>4, <3>5 DEF WatchInv, SharedLane
  <2> QED BY <2>2, <2>3, <2>4 DEF IInv
<1> QED BY <1>1, <1>2 DEF Subscribe

LEMMA UnsubscribeHolds ==
  ASSUME NEW l \in Watchers
  PROVE  IInv /\ Unsubscribe(l) => IInv'
<1> SUFFICES ASSUME IInv, Unsubscribe(l) PROVE IInv'
  OBVIOUS
<1> DEFINE c == watch[l]
<1>1. /\ c \in Conns /\ conn[c] # Null /\ ~conn[c].closed
      /\ conn[c].session \in Lanes /\ lanes[conn[c].session] = c
      /\ conn[c] \in Calls
  BY DEF Unsubscribe, IInv, TypeOK, WatchInv, SharedLane, Unreleased
<1>2. \A k \in Watchers : watch'[k] = IF k = l THEN Null ELSE watch[k]
  BY DEF Unsubscribe, IInv, TypeOK
<1>3. watch' \in [Watchers -> Conns \cup {Null}]
  BY DEF Unsubscribe, IInv, TypeOK
<1> HIDE DEF c
<1>4. CASE ~LastOne(l)
  <2>1. UNCHANGED <<lanes, conn, socket>>
    BY <1>4 DEF Unsubscribe
  <2>2. TypeOK'
    BY <1>3, <2>1 DEF IInv, TypeOK
  <2>3. OwnedInv' /\ WsInv' /\ WayInv' /\ StatusInv' /\ BudgetInv'
    BY <2>1 DEF IInv, OwnedInv, WsInv, WayInv, StatusInv, BudgetInv, Silent
  <2>4. PICK k \in Watchers \ {l} : watch[k] = watch[l]
    BY <1>4 DEF LastOne
  <2>5. WatchInv'
    BY <1>2, <2>1, <2>4 DEF IInv, WatchInv, SharedLane, Unreleased
  <2> QED BY <2>2, <2>3, <2>5 DEF IInv
<1>5. CASE LastOne(l)
  <2>1. /\ lanes' = [lanes EXCEPT ![conn[c].session] = Null]
        /\ conn' = [conn EXCEPT ![c].closed = TRUE]
        /\ socket' = [w \in Sockets |->
                        IF w = conn[c].ws THEN [socket[w] EXCEPT !.phase = "closing"]
                                          ELSE socket[w]]
    BY <1>5 DEF Unsubscribe, Close, c
  <2>2. /\ conn' \in [Conns -> Calls \cup {Null}]
        /\ \A d \in Conns \ {c} : conn'[d] = conn[d]
        /\ conn'[c] \in Calls /\ conn'[c].closed /\ conn'[c].ws = conn[c].ws
        /\ conn'[c].timer = conn[c].timer /\ conn'[c].exhausted = conn[c].exhausted
        /\ conn'[c].attempts = conn[c].attempts
    BY <1>1, <2>1 DEF IInv, TypeOK, Calls
  <2>3. /\ socket' \in [Sockets -> WebSockets \cup {Null}]
        /\ \A w \in Sockets : w # conn[c].ws => socket'[w] = socket[w]
        /\ conn[c].ws # Null => /\ socket'[conn[c].ws] \in WebSockets
                               /\ socket'[conn[c].ws].conn = c
    <3>1. ASSUME NEW w \in Sockets, w = conn[c].ws
          PROVE  socket'[w] \in WebSockets /\ socket'[w].conn = c
      <4>1. socket[w] \in WebSockets /\ socket[w].conn = c
        BY <1>1, <3>1 DEF IInv, TypeOK, WsInv
      <4> QED BY <2>1, <3>1, <4>1 DEF WebSockets
    <3>2. conn[c].ws \in Sockets \cup {Null}
      BY <1>1 DEF Calls
    <3> QED BY <2>1, <3>1, <3>2 DEF IInv, TypeOK
  <2>4. \A d \in Conns \ {c} : conn[d] # Null /\ conn[d].ws # Null =>
          conn[d].ws \in Sockets /\ conn[d].ws # conn[c].ws
    BY <1>1 DEF IInv, TypeOK, WsInv, Calls
  <2>5. TypeOK'
    BY <1>3, <2>1, <2>2, <2>3 DEF IInv, TypeOK
  <2>6. OwnedInv'
    <3> SUFFICES ASSUME NEW w \in Sockets, socket'[w] # Null
                 PROVE  conn'[socket'[w].conn] # Null /\ conn'[socket'[w].conn].ws = w
      BY DEF OwnedInv
    <3>1. CASE w = conn[c].ws
      BY <2>2, <2>3, <3>1
    <3>2. CASE w # conn[c].ws
      <4>1. /\ socket'[w] = socket[w] /\ socket[w].conn \in Conns
            /\ conn[socket[w].conn] # Null /\ conn[socket[w].conn].ws = w
        BY <2>3, <3>2 DEF IInv, TypeOK, OwnedInv, WebSockets
      <4> QED BY <2>2, <3>2, <4>1
    <3> QED BY <3>1, <3>2
  <2>7. WsInv'
    BY <2>2, <2>3, <2>4 DEF IInv, WsInv
  <2>8. WayInv'
    BY <1>1, <2>2 DEF IInv, WayInv
  <2>9. StatusInv'
    <3>1. \A d \in Conns \ {c} : conn[d] # Null /\ conn[d].ws # Null =>
            socket'[conn[d].ws] = socket[conn[d].ws]
      BY <2>3, <2>4
    <3> QED BY <2>2, <3>1 DEF IInv, StatusInv, Silent
  <2>10. BudgetInv'
    BY <1>1, <2>2 DEF IInv, BudgetInv
  <2>11. WatchInv'
    <3>1. \A s \in Lanes : lanes'[s] = IF s = conn[c].session THEN Null ELSE lanes[s]
      BY <2>1 DEF IInv, TypeOK
    <3>2. \A k \in Watchers : watch'[k] # Null =>
            k # l /\ watch'[k] = watch[k] /\ watch[k] \in Conns \ {c}
      BY <1>2, <1>5 DEF IInv, TypeOK, LastOne, c
    <3>3. ASSUME NEW k \in Watchers, watch'[k] # Null
          PROVE  /\ Unreleased(watch[k])' /\ (lanes[conn[watch[k]].session] = watch[k])'
                 /\ conn'[watch'[k]].session \in Lanes
      <4>1. /\ watch'[k] = watch[k] /\ conn'[watch[k]] = conn[watch[k]]
            /\ watch[k] # c /\ watch[k] # Null
        BY <2>2, <3>2, <3>3
      <4>2. /\ Unreleased(watch[k]) /\ lanes[conn[watch[k]].session] = watch[k]
            /\ conn[watch[k]].session \in Lanes
        BY <4>1 DEF IInv, WatchInv, SharedLane
      <4>3. conn[watch[k]].session # conn[c].session
        BY <1>1, <4>1, <4>2
      <4> QED BY <3>1, <4>1, <4>2, <4>3 DEF Unreleased
    <3>4. ASSUME NEW s \in Lanes, lanes'[s] # Null
          PROVE  /\ conn'[lanes'[s]].session = s
                 /\ \E k \in Watchers : watch'[k] = lanes'[s]
      <4>1. /\ lanes'[s] = lanes[s] /\ lanes[s] \in Conns
            /\ s # conn[c].session /\ lanes[s] # Null
        BY <3>1, <3>4 DEF IInv, TypeOK
      <4>2. conn[lanes[s]].session = s
        BY <4>1 DEF IInv, WatchInv, SharedLane
      <4>3. lanes[s] # c
        BY <4>1, <4>2
      <4>4. PICK k \in Watchers : watch[k] = lanes[s]
        BY <4>1 DEF IInv, WatchInv, SharedLane
      <4>5. watch'[k] = lanes[s]
        BY <1>2, <4>3, <4>4 DEF c
      <4> QED BY <2>2, <4>1, <4>2, <4>3, <4>5
    <3> QED BY <3>3, <3>4 DEF WatchInv, SharedLane
  <2> QED BY <2>5, <2>6, <2>7, <2>8, <2>9, <2>10, <2>11 DEF IInv
<1> QED BY <1>4, <1>5

\* The call a socket belongs to waits for nothing else.
LEMMA OwnerFacts ==
  ASSUME IInv, NEW w \in Sockets, socket[w] # Null
  PROVE  LET c == socket[w].conn IN
         /\ socket[w] \in WebSockets /\ c \in Conns
         /\ conn[c] # Null /\ conn[c] \in Calls /\ conn[c].ws = w
         /\ ~conn[c].timer /\ ~conn[c].exhausted
         /\ conn[c].attempts <= MaxAttempts
         /\ \A d \in Conns \ {c} : conn[d] # Null /\ conn[d].ws # Null =>
              conn[d].ws \in Sockets \ {w}
<1> DEFINE c == socket[w].conn
<1>1. socket[w] \in WebSockets /\ c \in Conns
  BY DEF IInv, TypeOK, WebSockets
<1>2. conn[c] # Null /\ conn[c] \in Calls /\ conn[c].ws = w
  BY <1>1 DEF IInv, TypeOK, OwnedInv
<1>3. ~conn[c].timer /\ ~conn[c].exhausted /\ conn[c].attempts <= MaxAttempts
  BY <1>1, <1>2 DEF IInv, WayInv, BudgetInv
<1>4. \A d \in Conns \ {c} : conn[d] # Null /\ conn[d].ws # Null =>
        conn[d].ws \in Sockets \ {w}
  BY <1>1 DEF IInv, TypeOK, WsInv, Calls
<1> QED BY <1>1, <1>2, <1>3, <1>4

\* An event of a socket that stays changes its call's attempts and status only.
LEMMA HeardHolds ==
  ASSUME IInv, NEW w \in Sockets, socket[w] # Null, UNCHANGED <<lanes, watch>>,
         NEW sock \in WebSockets, NEW rec \in Calls,
         socket' = [socket EXCEPT ![w] = sock],
         conn' = [conn EXCEPT ![socket[w].conn] = rec],
         sock.conn = socket[w].conn,
         rec.session = conn[socket[w].conn].session,
         rec.closed = conn[socket[w].conn].closed,
         ~rec.timer, ~rec.exhausted, rec.ws = w, rec.attempts <= MaxAttempts,
         rec.closed \/ /\ sock.phase = "open"
                       /\ rec.status = IF sock.live THEN "live" ELSE "connecting"
  PROVE  IInv'
<1> DEFINE c == socket[w].conn
<1>1. /\ c \in Conns /\ conn[c] # Null /\ conn[c].ws = w
      /\ \A d \in Conns \ {c} : conn[d] # Null /\ conn[d].ws # Null =>
           conn[d].ws \in Sockets \ {w}
  BY OwnerFacts
<1>2. /\ conn' \in [Conns -> Calls \cup {Null}]
      /\ conn'[c] = rec /\ \A d \in Conns \ {c} : conn'[d] = conn[d]
  BY <1>1 DEF IInv, TypeOK
<1>3. /\ socket' \in [Sockets -> WebSockets \cup {Null}]
      /\ socket'[w] = sock /\ \A v \in Sockets \ {w} : socket'[v] = socket[v]
  BY DEF IInv, TypeOK
<1>4. sock # Null /\ rec # Null /\ w # Null
  OBVIOUS
<1>5. TypeOK'
  BY <1>2, <1>3 DEF IInv, TypeOK
<1>6. OwnedInv'
  <2>1. \A v \in Sockets \ {w} : socket[v] # Null =>
          /\ socket[v].conn \in Conns \ {c} /\ conn[socket[v].conn] # Null
          /\ conn[socket[v].conn].ws = v
    BY <1>1 DEF IInv, TypeOK, OwnedInv, WebSockets
  <2> QED BY <1>2, <1>3, <1>4, <2>1 DEF OwnedInv
<1>7. WsInv'
  BY <1>1, <1>2, <1>3, <1>4 DEF IInv, WsInv
<1>8. WayInv'
  BY <1>2, <1>4 DEF IInv, WayInv
<1>9. StatusInv'
  <2>1. \A d \in Conns \ {c} : conn[d] # Null /\ conn[d].ws # Null =>
          socket'[conn[d].ws] = socket[conn[d].ws]
    BY <1>1, <1>3
  <2>2. sock.live \in BOOLEAN
    BY DEF WebSockets
  <2> QED BY <1>2, <1>3, <1>4, <2>1, <2>2 DEF IInv, StatusInv, Silent
<1>10. BudgetInv'
  BY <1>2, <1>4 DEF IInv, BudgetInv
<1>11. WatchInv'
  <2>1. \A d \in Conns : conn[d] # Null =>
          /\ conn'[d] # Null /\ conn'[d].session = conn[d].session
          /\ conn'[d].closed = conn[d].closed
    BY <1>2, <1>4
  <2>2. \A s \in Lanes : lanes[s] # Null => lanes[s] \in Conns /\ conn[lanes[s]] # Null
    BY DEF IInv, TypeOK, WatchInv, SharedLane, Unreleased
  <2>3. \A l \in Watchers : watch[l] # Null => watch[l] \in Conns
    BY DEF IInv, TypeOK
  <2> QED BY <2>1, <2>2, <2>3 DEF IInv, WatchInv, SharedLane, Unreleased
<1> QED BY <1>5, <1>6, <1>7, <1>8, <1>9, <1>10, <1>11 DEF IInv

LEMMA OpenedHolds ==
  ASSUME NEW w \in Sockets
  PROVE  IInv /\ Opened(w) => IInv'
<1> SUFFICES ASSUME IInv, Opened(w) PROVE IInv'
  OBVIOUS
<1> DEFINE c == socket[w].conn
           sock == [socket[w] EXCEPT !.phase = "open"]
           rec == [conn[c] EXCEPT !.status = "connecting"]
<1>1. /\ socket[w] # Null /\ socket[w].phase = "connecting" /\ UNCHANGED <<lanes, watch>>
      /\ socket' = [socket EXCEPT ![w] = sock] /\ conn' = [conn EXCEPT ![c] = rec]
  BY DEF Opened
<1>2. /\ socket[w] \in WebSockets /\ c \in Conns
      /\ conn[c] # Null /\ conn[c] \in Calls /\ conn[c].ws = w
      /\ ~conn[c].timer /\ ~conn[c].exhausted /\ conn[c].attempts <= MaxAttempts
  BY <1>1, OwnerFacts
<1>3. sock \in WebSockets /\ sock.conn = c /\ sock.phase = "open" /\ sock.live = socket[w].live
  BY <1>2 DEF WebSockets
<1>4. /\ rec \in Calls /\ rec.session = conn[c].session /\ rec.closed = conn[c].closed
      /\ ~rec.timer /\ ~rec.exhausted /\ rec.ws = w /\ rec.attempts <= MaxAttempts
      /\ rec.status = "connecting"
  BY <1>2 DEF Calls
<1>5. conn[c].closed \/ ~socket[w].live
  BY <1>1, <1>2 DEF IInv, StatusInv, Silent, Calls
<1> HIDE DEF sock, rec
<1> QED BY <1>1, <1>3, <1>4, <1>5, HeardHolds

LEMMA FirstMessageHolds ==
  ASSUME NEW w \in Sockets
  PROVE  IInv /\ FirstMessage(w) => IInv'
<1> SUFFICES ASSUME IInv, FirstMessage(w) PROVE IInv'
  OBVIOUS
<1> DEFINE c == socket[w].conn
           sock == [socket[w] EXCEPT !.live = TRUE]
           rec == [conn[c] EXCEPT !.attempts = 0, !.status = "live"]
<1>1. /\ socket[w] # Null /\ socket[w].phase = "open" /\ UNCHANGED <<lanes, watch>>
      /\ socket' = [socket EXCEPT ![w] = sock]
  BY DEF FirstMessage
<1>2. /\ socket[w] \in WebSockets /\ c \in Conns
      /\ conn[c] # Null /\ conn[c] \in Calls /\ conn[c].ws = w
      /\ ~conn[c].timer /\ ~conn[c].exhausted /\ conn[c].attempts <= MaxAttempts
  BY <1>1, OwnerFacts
<1>3. sock \in WebSockets /\ sock.conn = c /\ sock.phase = "open" /\ sock.live
  BY <1>1, <1>2 DEF WebSockets
<1>4. /\ rec \in Calls /\ rec.session = conn[c].session /\ rec.closed = conn[c].closed
      /\ ~rec.timer /\ ~rec.exhausted /\ rec.ws = w /\ rec.attempts <= MaxAttempts
      /\ rec.status = "live"
  <2> DEFINE full == [conn[c] EXCEPT !.attempts = 0]
  <2>1. full \in Calls /\ rec = [full EXCEPT !.status = "live"]
    BY <1>2 DEF Calls
  <2>2. /\ full.session = conn[c].session /\ full.closed = conn[c].closed
        /\ ~full.timer /\ ~full.exhausted /\ full.ws = w /\ full.attempts <= MaxAttempts
    BY <1>2 DEF Calls
  <2> HIDE DEF full
  <2> QED BY <2>1, <2>2 DEF Calls
<1>5. conn' = [conn EXCEPT ![c] = rec]
  BY <1>2 DEF FirstMessage, IInv, TypeOK
<1> HIDE DEF sock, rec
<1> QED BY <1>1, <1>3, <1>4, <1>5, HeardHolds

\* A socket that goes leaves its call with a timer, or out of budget, or closed.
LEMMA GoneHolds ==
  ASSUME IInv, NEW w \in Sockets, socket[w] # Null, Gone(w), NEW rec \in Calls,
         conn' = [conn EXCEPT ![socket[w].conn] = rec],
         rec.session = conn[socket[w].conn].session,
         rec.closed = conn[socket[w].conn].closed,
         rec.ws = Null,
         rec.timer => ~rec.exhausted,
         ~rec.exhausted => rec.attempts <= MaxAttempts,
         \/ rec.closed
         \/ rec.timer /\ rec.status = "reconnecting"
         \/ rec.exhausted /\ rec.status = "offline"
  PROVE  IInv'
<1> DEFINE c == socket[w].conn
<1>1. /\ c \in Conns /\ conn[c] # Null /\ conn[c].ws = w
      /\ \A d \in Conns \ {c} : conn[d] # Null /\ conn[d].ws # Null =>
           conn[d].ws \in Sockets \ {w}
  BY OwnerFacts
<1>2. /\ conn' \in [Conns -> Calls \cup {Null}]
      /\ conn'[c] = rec /\ \A d \in Conns \ {c} : conn'[d] = conn[d]
  BY <1>1 DEF IInv, TypeOK
<1>3. /\ socket' \in [Sockets -> WebSockets \cup {Null}]
      /\ socket'[w] = Null /\ \A v \in Sockets \ {w} : socket'[v] = socket[v]
      /\ UNCHANGED <<lanes, watch>>
  BY DEF IInv, TypeOK, Gone
<1>4. rec # Null
  OBVIOUS
<1>5. TypeOK'
  BY <1>2, <1>3 DEF IInv, TypeOK
<1>6. OwnedInv'
  <2>1. \A v \in Sockets \ {w} : socket[v] # Null =>
          /\ socket[v].conn \in Conns \ {c} /\ conn[socket[v].conn] # Null
          /\ conn[socket[v].conn].ws = v
    BY <1>1 DEF IInv, TypeOK, OwnedInv, WebSockets
  <2> QED BY <1>2, <1>3, <2>1 DEF OwnedInv
<1>7. WsInv'
  BY <1>1, <1>2, <1>3, <1>4 DEF IInv, WsInv
<1>8. WayInv'
  BY <1>2, <1>4 DEF IInv, WayInv
<1>9. StatusInv'
  <2>1. \A d \in Conns \ {c} : conn[d] # Null /\ conn[d].ws # Null =>
          socket'[conn[d].ws] = socket[conn[d].ws]
    BY <1>1, <1>3
  <2> QED BY <1>2, <1>4, <2>1 DEF IInv, StatusInv, Silent
<1>10. BudgetInv'
  BY <1>2, <1>4 DEF IInv, BudgetInv
<1>11. WatchInv'
  <2>1. \A d \in Conns : conn[d] # Null =>
          /\ conn'[d] # Null /\ conn'[d].session = conn[d].session
          /\ conn'[d].closed = conn[d].closed
    BY <1>2, <1>4
  <2>2. \A s \in Lanes : lanes[s] # Null => lanes[s] \in Conns /\ conn[lanes[s]] # Null
    BY DEF IInv, TypeOK, WatchInv, SharedLane, Unreleased
  <2>3. \A l \in Watchers : watch[l] # Null => watch[l] \in Conns
    BY DEF IInv, TypeOK
  <2> QED BY <1>3, <2>1, <2>2, <2>3 DEF IInv, WatchInv, SharedLane, Unreleased
<1> QED BY <1>5, <1>6, <1>7, <1>8, <1>9, <1>10, <1>11 DEF IInv

LEMMA LostHolds ==
  ASSUME NEW w \in Sockets
  PROVE  IInv /\ Lost(w) => IInv'
<1> SUFFICES ASSUME IInv, Lost(w) PROVE IInv'
  OBVIOUS
<1> DEFINE c == socket[w].conn
           counted == [conn[c] EXCEPT !.attempts = @ + 1, !.ws = Null]
           spent == [counted EXCEPT !.exhausted = TRUE, !.status = "offline"]
           again == [counted EXCEPT !.timer = TRUE, !.status = "reconnecting"]
<1>1. socket[w] # Null /\ ~conn[c].closed /\ Gone(w)
  BY DEF Lost, Unreleased
<1>2. /\ c \in Conns /\ conn[c] # Null /\ conn[c] \in Calls
      /\ ~conn[c].timer /\ ~conn[c].exhausted /\ conn[c].attempts <= MaxAttempts
  BY <1>1, OwnerFacts
<1>3. /\ counted \in Calls /\ counted.session = conn[c].session /\ ~counted.closed
      /\ counted.ws = Null /\ ~counted.timer /\ ~counted.exhausted
      /\ counted.attempts = conn[c].attempts + 1
  <2> DEFINE more == [conn[c] EXCEPT !.attempts = @ + 1]
  <2>1. conn[c].attempts + 1 \in 0 .. MaxAttempts + 1
    BY <1>2 DEF Calls
  <2>2. more \in Calls /\ counted = [more EXCEPT !.ws = Null]
    BY <1>2, <2>1 DEF Calls
  <2>3. /\ more.session = conn[c].session /\ ~more.closed
        /\ ~more.timer /\ ~more.exhausted /\ more.attempts = conn[c].attempts + 1
    BY <1>1, <1>2, <2>1 DEF Calls
  <2> HIDE DEF more, counted
  <2> QED BY <2>2, <2>3 DEF Calls
<1>4. CASE conn[c].attempts + 1 > MaxAttempts
  <2>1. conn' = [conn EXCEPT ![c] = spent]
    BY <1>2, <1>4 DEF Lost, IInv, TypeOK, Calls
  <2> HIDE DEF counted
  <2>2. /\ spent \in Calls /\ spent.session = conn[c].session /\ spent.closed = conn[c].closed
        /\ spent.ws = Null /\ ~spent.timer /\ spent.exhausted /\ spent.status = "offline"
    <3> DEFINE over == [counted EXCEPT !.exhausted = TRUE]
    <3>1. over \in Calls /\ spent = [over EXCEPT !.status = "offline"]
      BY <1>3 DEF Calls
    <3>2. /\ over.session = conn[c].session /\ over.closed = conn[c].closed
          /\ over.ws = Null /\ ~over.timer /\ over.exhausted
      BY <1>1, <1>2, <1>3 DEF Calls
    <3> HIDE DEF over, spent
    <3> QED BY <3>1, <3>2 DEF Calls
  <2> HIDE DEF spent
  <2> QED BY <1>1, <2>1, <2>2, GoneHolds
<1>5. CASE ~(conn[c].attempts + 1 > MaxAttempts)
  <2>1. conn' = [conn EXCEPT ![c] = again]
    BY <1>2, <1>5 DEF Lost, IInv, TypeOK, Calls
  <2>2. conn[c].attempts + 1 <= MaxAttempts
    BY <1>2, <1>5 DEF Calls
  <2> HIDE DEF counted
  <2>3. /\ again \in Calls /\ again.session = conn[c].session /\ again.closed = conn[c].closed
        /\ again.ws = Null /\ again.timer /\ ~again.exhausted /\ again.status = "reconnecting"
        /\ again.attempts = conn[c].attempts + 1
    <3> DEFINE armed == [counted EXCEPT !.timer = TRUE]
    <3>1. armed \in Calls /\ again = [armed EXCEPT !.status = "reconnecting"]
      BY <1>3 DEF Calls
    <3>2. /\ armed.session = conn[c].session /\ armed.closed = conn[c].closed
          /\ armed.ws = Null /\ armed.timer /\ ~armed.exhausted
          /\ armed.attempts = conn[c].attempts + 1
      BY <1>1, <1>2, <1>3 DEF Calls
    <3> HIDE DEF armed, again
    <3> QED BY <3>1, <3>2 DEF Calls
  <2> HIDE DEF again
  <2> QED BY <1>1, <2>1, <2>2, <2>3, GoneHolds
<1> QED BY <1>4, <1>5

LEMMA ClosedHolds ==
  ASSUME NEW w \in Sockets
  PROVE  IInv /\ Closed(w) => IInv'
<1> SUFFICES ASSUME IInv, Closed(w) PROVE IInv'
  OBVIOUS
<1> DEFINE c == socket[w].conn
           rec == [conn[c] EXCEPT !.ws = Null]
<1>1. socket[w] # Null /\ Gone(w) /\ conn' = [conn EXCEPT ![c] = rec]
  BY DEF Closed
<1>2. /\ c \in Conns /\ conn[c] # Null /\ conn[c] \in Calls
      /\ ~conn[c].timer /\ ~conn[c].exhausted /\ conn[c].attempts <= MaxAttempts
  BY <1>1, OwnerFacts
<1>3. conn[c].closed
  BY <1>2 DEF Closed, Unreleased
<1>4. /\ rec \in Calls /\ rec.session = conn[c].session /\ rec.closed = conn[c].closed
      /\ rec.ws = Null /\ ~rec.timer /\ ~rec.exhausted /\ rec.attempts <= MaxAttempts
  BY <1>2 DEF Calls
<1> HIDE DEF rec
<1> QED BY <1>1, <1>3, <1>4, GoneHolds

\* A dial for a call that stays: nothing changes for those who watch.
LEMMA RedialHolds ==
  ASSUME IInv, NEW c \in Conns, conn[c] # Null, conn[c].ws = Null,
         NEW call \in Calls, Open(c, call), UNCHANGED <<lanes, watch>>,
         ~call.timer, ~call.exhausted, call.attempts <= MaxAttempts,
         call.session = conn[c].session, call.closed = conn[c].closed,
         call.closed \/ call.status = "reconnecting"
  PROVE  IInv'
<1>1. /\ conn' \in [Conns -> Calls \cup {Null}]
      /\ socket' \in [Sockets -> WebSockets \cup {Null}]
      /\ \A d \in Conns \ {c} : conn'[d] = conn[d]
      /\ conn'[c] # Null
      /\ conn'[c].session = call.session /\ conn'[c].closed = call.closed
      /\ OwnedInv' /\ WsInv' /\ WayInv' /\ StatusInv' /\ BudgetInv'
  BY OpenHolds
<1>2. TypeOK'
  BY <1>1 DEF IInv, TypeOK
<1>3. WatchInv'
  <2>1. \A d \in Conns : conn[d] # Null =>
          /\ conn'[d] # Null /\ conn'[d].session = conn[d].session
          /\ conn'[d].closed = conn[d].closed
    BY <1>1
  <2>2. \A s \in Lanes : lanes[s] # Null => lanes[s] \in Conns /\ conn[lanes[s]] # Null
    BY DEF IInv, TypeOK, WatchInv, SharedLane, Unreleased
  <2>3. \A l \in Watchers : watch[l] # Null => watch[l] \in Conns
    BY DEF IInv, TypeOK
  <2> QED BY <2>1, <2>2, <2>3 DEF IInv, WatchInv, SharedLane, Unreleased
<1> QED BY <1>1, <1>2, <1>3 DEF IInv

LEMMA TimerFiresHolds ==
  ASSUME NEW c \in Conns
  PROVE  IInv /\ TimerFires(c) => IInv'
<1> SUFFICES ASSUME IInv, TimerFires(c) PROVE IInv'
  OBVIOUS
<1> DEFINE call == [conn[c] EXCEPT !.timer = FALSE]
<1>1. /\ conn[c] # Null /\ conn[c].timer /\ Open(c, call) /\ UNCHANGED <<lanes, watch>>
      /\ conn[c] \in Calls
  BY DEF TimerFires, IInv, TypeOK
<1>2. conn[c].ws = Null /\ ~conn[c].exhausted /\ conn[c].attempts <= MaxAttempts
  BY <1>1 DEF IInv, WayInv, BudgetInv
<1>3. conn[c].closed \/ conn[c].status = "reconnecting"
  BY <1>1, <1>2 DEF IInv, StatusInv, Calls
<1>4. /\ call \in Calls /\ ~call.timer /\ ~call.exhausted /\ call.attempts <= MaxAttempts
      /\ call.session = conn[c].session /\ call.closed = conn[c].closed
      /\ call.status = conn[c].status
  BY <1>1, <1>2 DEF Calls
<1> HIDE DEF call
<1> QED BY <1>1, <1>2, <1>3, <1>4, RedialHolds

LEMMA RetryHolds ==
  ASSUME NEW c \in Conns
  PROVE  IInv /\ Retry(c) => IInv'
<1> SUFFICES ASSUME IInv, Retry(c) PROVE IInv'
  OBVIOUS
<1> DEFINE fresh == [conn[c] EXCEPT !.exhausted = FALSE, !.attempts = 0]
           call == [fresh EXCEPT !.status = "reconnecting"]
<1>1. /\ conn[c] # Null /\ conn[c].exhausted /\ UNCHANGED <<lanes, watch>>
      /\ conn[c] \in Calls
  BY DEF Retry, Unreleased, IInv, TypeOK
<1>2. Open(c, call)
  BY DEF Retry
<1>3. conn[c].ws = Null /\ ~conn[c].timer
  BY <1>1 DEF IInv, WayInv
<1>4. /\ fresh \in Calls /\ ~fresh.timer /\ ~fresh.exhausted /\ fresh.attempts = 0
      /\ fresh.session = conn[c].session /\ fresh.closed = conn[c].closed
  <2> DEFINE released == [conn[c] EXCEPT !.exhausted = FALSE]
  <2>1. released \in Calls /\ fresh = [released EXCEPT !.attempts = 0]
    BY <1>1 DEF Calls
  <2>2. /\ ~released.timer /\ ~released.exhausted
        /\ released.session = conn[c].session /\ released.closed = conn[c].closed
    BY <1>1, <1>3 DEF Calls
  <2> HIDE DEF released, fresh
  <2> QED BY <2>1, <2>2 DEF Calls
<1> HIDE DEF fresh
<1>5. /\ call \in Calls /\ ~call.timer /\ ~call.exhausted /\ call.attempts = 0
      /\ call.session = conn[c].session /\ call.closed = conn[c].closed
      /\ call.status = "reconnecting"
  BY <1>4 DEF Calls
<1> HIDE DEF call
<1> QED BY <1>1, <1>2, <1>3, <1>5, RedialHolds

-----------------------------------------------------------------------------
\* Every step of socket.ts and lanes.ts keeps the invariant.
THEOREM Invariant == Spec => []IInv
<1>1. IInv /\ [Next]_vars => IInv'
  <2> SUFFICES ASSUME IInv, [Next]_vars PROVE IInv'
    OBVIOUS
  <2>1. CASE OpenBoard
    BY <2>1, OpenBoardHolds
  <2>2. ASSUME NEW l \in Watchers, Unsubscribe(l) PROVE IInv'
    BY <2>2, UnsubscribeHolds
  <2>3. ASSUME NEW l \in Watchers, NEW s \in Lanes, Subscribe(l, s) PROVE IInv'
    BY <2>3, SubscribeHolds
  <2>4. ASSUME NEW w \in Sockets, Opened(w) \/ FirstMessage(w) \/ Lost(w) \/ Closed(w)
        PROVE  IInv'
    BY <2>4, OpenedHolds, FirstMessageHolds, LostHolds, ClosedHolds
  <2>5. ASSUME NEW c \in Conns, TimerFires(c) \/ Retry(c) PROVE IInv'
    BY <2>5, TimerFiresHolds, RetryHolds
  <2>6. CASE UNCHANGED vars
    BY <2>6 DEF vars, IInv, TypeOK, OwnedInv, WsInv, WayInv, StatusInv, BudgetInv, Silent,
                WatchInv, SharedLane, Unreleased
  <2> QED BY <2>1, <2>2, <2>3, <2>4, <2>5, <2>6 DEF Next
<1> QED BY InitHolds, <1>1, PTL DEF Spec

LEMMA SocketsFacts ==
  ASSUME IInv, NEW c \in Conns, conn[c] # Null
  PROVE  SocketsOf(c) = IF conn[c].ws = Null THEN {} ELSE {conn[c].ws}
<1>1. conn[c].ws \in Sockets \cup {Null}
  BY DEF IInv, TypeOK, Calls
<1>2. \A w \in SocketsOf(c) : w = conn[c].ws /\ w # Null
  BY DEF IInv, OwnedInv, SocketsOf
<1>3. conn[c].ws # Null => conn[c].ws \in SocketsOf(c)
  BY <1>1 DEF IInv, WsInv, SocketsOf
<1> QED BY <1>2, <1>3

\* The variables of socket.ts and lanes.ts keep their types; in particular no
\* connection counts more than one failure above its budget.
THEOREM TypeCorrect == Spec => []TypeOK
<1>1. IInv => TypeOK
  BY DEF IInv
<1> QED BY Invariant, <1>1, PTL

\* connectRace's retry loop and its Reconnect button never race each other: an
\* unreleased connection has a socket, or a timer, or has given up, and only one
\* of them, for any budget and any pattern of outages.
THEOREM OneWay == Spec => []OneWayOn
<1>1. IInv => OneWayOn
  <2> SUFFICES ASSUME IInv, NEW c \in Conns, conn[c] # Null
               PROVE  /\ \A v, w \in SocketsOf(c) : v = w
                      /\ conn[c].timer => SocketsOf(c) = {} /\ ~conn[c].exhausted
                      /\ conn[c].exhausted => SocketsOf(c) = {}
                      /\ conn[c].closed \/ conn[c].timer \/ conn[c].exhausted \/ SocketsOf(c) # {}
    BY DEF OneWayOn
  <2>1. SocketsOf(c) = IF conn[c].ws = Null THEN {} ELSE {conn[c].ws}
    BY SocketsFacts
  <2> QED BY <2>1 DEF IInv, WayInv
<1> QED BY Invariant, <1>1, PTL

\* lanes.ts's registry: all who watch a lane share its one unreleased connection.
THEOREM Shared == Spec => []SharedLane
<1>1. IInv => SharedLane
  BY DEF IInv, WatchInv
<1> QED BY Invariant, <1>1, PTL

\* The status that connectRace last reported is what its connection is doing.
THEOREM Truthful == Spec => []StatusTruthful
<1>1. IInv => StatusTruthful
  <2> SUFFICES ASSUME IInv, NEW c \in Conns, Unreleased(c)
               PROVE  CASE conn[c].status = "live" ->
                             \E w \in SocketsOf(c) : socket[w].live
                        [] conn[c].status = "reconnecting" ->
                             conn[c].timer \/ \E w \in SocketsOf(c) : socket[w].phase = "connecting"
                        [] conn[c].status = "offline" ->
                             conn[c].exhausted
                        [] conn[c].status = "connecting" ->
                             \E w \in SocketsOf(c) :
                               /\ ~socket[w].live
                               /\ socket[w].phase = "open"
                                    \/ (socket[w].phase = "connecting" /\ conn[c].attempts = 0)
    BY DEF StatusTruthful
  <2>1. conn[c] # Null /\ ~conn[c].closed
    BY DEF Unreleased
  <2>2. conn[c].ws # Null => SocketsOf(c) = {conn[c].ws}
    BY <2>1, SocketsFacts
  <2>3. conn[c].status \in {"connecting", "live", "reconnecting", "offline"}
    BY <2>1 DEF IInv, TypeOK, Calls
  <2>4. CASE conn[c].status = "live"
    BY <2>1, <2>2, <2>4 DEF IInv, StatusInv
  <2>5. CASE conn[c].status = "reconnecting"
    BY <2>1, <2>2, <2>5 DEF IInv, StatusInv
  <2>6. CASE conn[c].status = "offline"
    BY <2>1, <2>6 DEF IInv, StatusInv
  <2>7. CASE conn[c].status = "connecting"
    BY <2>1, <2>2, <2>7 DEF IInv, StatusInv, Silent
  <2> QED BY <2>3, <2>4, <2>5, <2>6, <2>7
<1> QED BY Invariant, <1>1, PTL

HIDE NullRecordAssumption
HIDE LaneSocketAssumption

-----------------------------------------------------------------------------
(* The tower: Tower *)

-----------------------------------------------------------------------------
(* The memo *)

Current == Props(cars, Stints[session], snapshotSeq, selected)

\* What was drawn is what is current, not only something that looks the same; and
\* no snapshot to come has its identity.
MemoInv ==
  /\ snapshotSeq \in Nat /\ drawn.identity \in Nat /\ drawn.identity <= snapshotSeq
  /\ session # Nil => drawn = Current

\* The comparator tells any two of the chart's inputs apart.
LEMMA SameOrderSameCars ==
  ASSUME NEW cs, NEW ds, NEW p, NEW q, NEW m, NEW n, NEW k, NEW l,
         sameRunningOrder(Props(cs, p, m, k).cars, Props(ds, q, n, l).cars)
  PROVE  Props(cs, p, m, k).cars = Props(ds, q, n, l).cars
<1> DEFINE a == [d \in DOMAIN cs |-> [driverNum |-> d, pos |-> cs[d].pos, lap |-> cs[d].lap]]
           b == [d \in DOMAIN ds |-> [driverNum |-> d, pos |-> ds[d].pos, lap |-> ds[d].lap]]
<1>1. Props(cs, p, m, k).cars = a /\ Props(ds, q, n, l).cars = b
  BY DEF Props
<1>2. DOMAIN a = DOMAIN cs /\ DOMAIN b = DOMAIN ds /\ DOMAIN cs = DOMAIN ds
  BY <1>1 DEF sameRunningOrder
<1>3. \A d \in DOMAIN cs : cs[d].pos = ds[d].pos /\ cs[d].lap = ds[d].lap
  BY <1>1, <1>2 DEF sameRunningOrder
<1>4. a = b
  BY <1>2, <1>3
<1> QED  BY <1>1, <1>4

\* A render with the same plan, or of a new snapshot, leaves the current chart.
LEMMA MemoKeeps ==
  ASSUME NEW plan, NEW cs, NEW ds, NEW seq \in Nat, NEW snaps \in Nat, NEW sel, NEW sel2,
         Memo(Props(ds, plan, snaps, sel2)),
         drawn.identity \in Nat, drawn.identity <= seq,
         \/ snaps = seq + 1
         \/ snaps = seq /\ drawn = Props(cs, plan, seq, sel)
  PROVE  drawn' = Props(ds, plan, snaps, sel2)
<1> DEFINE next == Props(ds, plan, snaps, sel2)
<1>1. /\ next.identity = snaps /\ next.selected = sel2 /\ next.stints = plan
      /\ next = [cars |-> next.cars, stints |-> plan, identity |-> snaps, selected |-> sel2]
  BY DEF Props
<1>2. CASE snaps = seq + 1
  <2>1. drawn.identity # next.identity
    BY <1>1, <1>2
  <2> QED  BY <2>1 DEF Memo
<1>3. CASE /\ drawn = Props(cs, plan, seq, sel)
           /\ drawn.identity = next.identity /\ drawn.selected = next.selected
           /\ sameRunningOrder(drawn.cars, next.cars)
  <2>1. drawn.cars = next.cars
    BY <1>3, SameOrderSameCars
  <2>2. drawn = [cars |-> drawn.cars, stints |-> plan, identity |-> seq, selected |-> sel]
    BY <1>3 DEF Props
  <2>3. drawn.identity = seq /\ drawn.selected = sel
    BY <2>2
  <2>4. drawn = next
    BY <1>1, <1>3, <2>1, <2>2, <2>3
  <2> QED  BY <1>3, <2>4 DEF Memo
<1> QED  BY <1>2, <1>3 DEF Memo

\* The chart that the memo keeps is the one that rendering it now would draw
\* (StintChart.tsx).
THEOREM ChartKept == TowerSpec => []ChartFresh
<1>1. TowerInit => MemoInv
  BY DEF TowerInit, MemoInv, Props
<1>2. MemoInv /\ [TowerNext]_towerVars => MemoInv'
  <2> SUFFICES ASSUME MemoInv, [TowerNext]_towerVars
               PROVE  MemoInv'
    OBVIOUS
  <2>1. ASSUME NEW s, NEW cs, NEW t, NEW loops, NEW snaps, NEW pass,
               Receive(s, cs, t, loops, snaps, pass),
               \/ snaps = snapshotSeq + 1
               \/ snaps = snapshotSeq /\ s = session /\ session # Nil
        PROVE  MemoInv'
    <3>1. /\ session' = s /\ cars' = cs /\ snapshotSeq' = snaps /\ selected' = selected
          /\ Memo(Props(cs, Stints[s], snaps, selected))
      BY <2>1 DEF Receive
    <3>2. snaps \in Nat /\ snapshotSeq \in Nat /\ snapshotSeq <= snaps
      BY <2>1 DEF MemoInv
    <3>3. drawn' = Props(cs, Stints[s], snaps, selected)
      BY <2>1, <3>1, <3>2, MemoKeeps DEF MemoInv, Current
    <3>4. drawn'.identity = snaps
      BY <3>3 DEF Props
    <3> QED  BY <3>1, <3>2, <3>3, <3>4 DEF MemoInv, Current
  <2>2. CASE Frame
    BY <2>1, <2>2 DEF Frame
  <2>3. CASE Wrap
    BY <2>1, <2>3 DEF Wrap
  <2>4. CASE Snapshot \/ Reconnect
    BY <2>1, <2>4 DEF Snapshot, Reconnect
  <2>5. CASE ScrubBack
    BY <2>1, <2>5 DEF ScrubBack
  <2>6. ASSUME NEW d, Select(d)
        PROVE  MemoInv'
    <3>1. UNCHANGED <<session, cars, snapshotSeq>>
          /\ Memo(Props(cars, Stints[session], snapshotSeq, selected'))
      BY <2>6 DEF Select, raceVars
    <3>2. CASE session = Nil
      <4>1. drawn' = drawn \/ drawn' = Props(cars, Stints[session], snapshotSeq, selected')
        BY <3>1 DEF Memo
      <4>2. drawn'.identity = drawn.identity \/ drawn'.identity = snapshotSeq
        BY <4>1 DEF Props
      <4> QED  BY <3>1, <3>2, <4>2 DEF MemoInv
    <3>3. CASE session # Nil
      <4>1. drawn' = Props(cars, Stints[session], snapshotSeq, selected')
        BY <3>1, <3>3, MemoKeeps DEF MemoInv, Current
      <4>2. drawn'.identity = snapshotSeq
        BY <4>1 DEF Props
      <4> QED  BY <3>1, <4>1, <4>2 DEF MemoInv, Current
    <3> QED  BY <3>2, <3>3
  <2>7. CASE PointerEnter \/ PointerLeave \/ UNCHANGED towerVars
    BY <2>7 DEF PointerEnter, PointerLeave, towerVars, raceVars, MemoInv, Current
  <2> QED
    BY <2>2, <2>3, <2>4, <2>5, <2>6, <2>7 DEF TowerNext
<1>3. MemoInv => ChartFresh
  BY DEF MemoInv, Current, ChartFresh
<1> QED  BY <1>1, <1>2, <1>3, PTL DEF TowerSpec

-----------------------------------------------------------------------------
(* Where the cars come from *)

\* Every car on the page is one that a frame of the session carried.
FromFeed(s, cs) ==
  /\ IsFiniteSet(DOMAIN cs)
  /\ \A d \in DOMAIN cs : \E f \in Feed[s] : d \in DOMAIN f /\ cs[d] = f[d]

\* What a state says of the pass it is of. The tower starts again if it is "seen",
\* and only then; the histories do so then, and if the clock goes back.
Told(pass) ==
  /\ pass \in {"same", "seen", "back", "round"}
  /\ pass = "seen" <=> NewPass
  /\ pass = "seen" => session' # session \/ timeMs' < timeMs
  /\ pass = "back" => timeMs' < timeMs

\* All a step can bring: the cars of a session's feed.
Brought(s, cs) ==
  /\ s \in Sessions /\ FromFeed(s, cs)
  /\ \E t, loops, snaps, pass : Receive(s, cs, t, loops, snaps, pass) /\ Told(pass)

CarsInv ==
  /\ timeMs \in Nat /\ loopSeq \in Nat
  /\ session # Nil => session \in Sessions /\ FromFeed(session, cars)

Quiet == UNCHANGED <<raceVars, foldVars>>

LEMMA TowerSteps ==
  ASSUME CarsInv, [TowerNext]_towerVars
  PROVE  /\ Quiet \/ Brought(session', cars')
         /\ timeMs' \in Nat /\ loopSeq' \in Nat
<1>1. ASSUME NEW s \in Sessions, NEW f \in Feed[s], FromFeed(s, cars)
      PROVE  FromFeed(s, Merged(f, cars))
  <2>1. DOMAIN Merged(f, cars) = DOMAIN f \cup DOMAIN cars
    BY DEF Merged
  <2>2. IsFiniteSet(DOMAIN f) /\ IsFiniteSet(DOMAIN cars)
    BY <1>1, FeedAssumption DEF FromFeed
  <2>3. IsFiniteSet(DOMAIN Merged(f, cars))
    BY <2>1, <2>2, FS_Union
  <2> QED  BY <1>1, <2>1, <2>3 DEF FromFeed, Merged
<1>2. ASSUME NEW s \in Sessions, NEW f \in Feed[s] \cup {<<>>}
      PROVE  FromFeed(s, f)
  <2>1. IsFiniteSet(DOMAIN f)
    BY FeedAssumption, FS_EmptySet
  <2> QED  BY <2>1 DEF FromFeed
<1>3. ASSUME NEW s, NEW cs, NEW t, NEW loops, NEW snaps, NEW pass,
             Receive(s, cs, t, loops, snaps, pass)
      PROVE  session' = s /\ cars' = cs /\ timeMs' = t /\ loopSeq' = loops
  BY <1>3 DEF Receive
<1>4. ASSUME NEW s \in Sessions, NEW cs, NEW t \in Nat, NEW loops \in Nat, NEW snaps, NEW pass,
             FromFeed(s, cs), Receive(s, cs, t, loops, snaps, pass),
             pass \in {"same", "seen", "back", "round"},
             pass = "seen" <=> (s # session \/ loops # loopSeq),
             pass = "seen" => s # session \/ t < timeMs,
             pass = "back" => t < timeMs
      PROVE  Brought(session', cars') /\ timeMs' \in Nat /\ loopSeq' \in Nat
  <2>1. Told(pass)
    BY <1>3, <1>4 DEF Told, NewPass
  <2> QED  BY <1>3, <1>4, <2>1 DEF Brought
<1>5. CASE Frame
  <2>1. PICK f \in Feed[session] :
          session # Nil /\ Receive(session, Merged(f, cars), timeMs + 1, loopSeq, snapshotSeq, "same")
    BY <1>5 DEF Frame
  <2> QED  BY <1>1, <1>4, <2>1 DEF CarsInv
<1>6. CASE Wrap
  <2>1. PICK f \in Feed[session] :
          /\ session # Nil /\ timeMs > 0
          /\ Receive(session, Merged(f, cars), 0, loopSeq + 1, snapshotSeq, "seen")
    BY <1>6 DEF Wrap
  <2>2. loopSeq + 1 \in Nat /\ loopSeq + 1 # loopSeq
    BY DEF CarsInv
  <2> QED  BY <1>1, <1>4, <2>1, <2>2 DEF CarsInv
<1>7. CASE Snapshot
  <2>1. PICK s \in Sessions \ {session} :
          \E f \in Feed[s] \cup {<<>>} : Receive(s, f, 0, loopSeq, snapshotSeq + 1, "seen")
    BY <1>7 DEF Snapshot
  <2>2. PICK f \in Feed[s] \cup {<<>>} : Receive(s, f, 0, loopSeq, snapshotSeq + 1, "seen")
    BY <2>1
  <2>3. FromFeed(s, f)
    BY <1>2
  <2>4. loopSeq \in Nat /\ 0 \in Nat
    BY DEF CarsInv
  <2> QED  BY <1>4, <2>1, <2>2, <2>3, <2>4
<1>8. CASE Reconnect
  <2>1. PICK f \in Feed[session] \cup {<<>>} :
          /\ session # Nil
          /\ \/ \E pass \in {"same", "round"} :
                  Receive(session, f, timeMs + 1, loopSeq, snapshotSeq + 1, pass)
             \/ timeMs > 0 /\ Receive(session, f, 0, loopSeq, snapshotSeq + 1, "back")
    BY <1>8 DEF Reconnect
  <2>2. session \in Sessions /\ FromFeed(session, f)
    BY <1>2, <2>1 DEF CarsInv
  <2>3. CASE timeMs > 0 /\ Receive(session, f, 0, loopSeq, snapshotSeq + 1, "back")
    BY <1>4, <2>2, <2>3 DEF CarsInv
  <2>4. ASSUME NEW pass \in {"same", "round"},
               Receive(session, f, timeMs + 1, loopSeq, snapshotSeq + 1, pass)
        PROVE  Brought(session', cars') /\ timeMs' \in Nat /\ loopSeq' \in Nat
    BY <1>4, <2>2, <2>4 DEF CarsInv
  <2> QED  BY <2>1, <2>3, <2>4
<1>9. CASE ScrubBack
  <2>1. PICK f \in Feed[session] :
          /\ session # Nil /\ timeMs > 0
          /\ Receive(session, f, timeMs - 1, 0, snapshotSeq, IF loopSeq = 0 THEN "back" ELSE "seen")
    BY <1>9 DEF ScrubBack
  <2>2. session \in Sessions /\ FromFeed(session, f) /\ timeMs - 1 \in Nat /\ timeMs - 1 < timeMs
    BY <1>2, <2>1 DEF CarsInv
  <2> QED  BY <1>4, <2>1, <2>2
<1>10. CASE PointerEnter \/ PointerLeave \/ (\E d \in AllDrivers : Select(d)) \/ UNCHANGED towerVars
  BY <1>10 DEF PointerEnter, PointerLeave, Select, towerVars, raceVars, Quiet, CarsInv
<1> QED  BY <1>5, <1>6, <1>7, <1>8, <1>9, <1>10 DEF TowerNext

LEMMA CarsHold == TowerSpec => []CarsInv
<1>1. TowerInit => CarsInv
  BY DEF TowerInit, CarsInv
<1>2. CarsInv /\ [TowerNext]_towerVars => CarsInv'
  BY TowerSteps DEF CarsInv, Quiet, raceVars, Brought
<1> QED  BY <1>1, <1>2, PTL DEF TowerSpec

-----------------------------------------------------------------------------
(* The cars of a pass, and of a session *)

Fed(c) == \E s \in Sessions : \E f \in Feed[s] : \E d \in DOMAIN f : c = f[d]
FedCars(cs) == \A d \in DOMAIN cs : cs[d].driverNum = d /\ d \in AllDrivers /\ Fed(cs[d])

PastInv ==
  /\ passCars \subseteq sessionCars /\ \A c \in sessionCars : Fed(c)
  /\ FedCars(cars) /\ Range(cars) \subseteq passCars

LEMMA FedFacts ==
  ASSUME NEW c, Fed(c)
  PROVE  /\ c.lap \in Int \cup {Nil} /\ c.gapMs \in Int \cup {Nil} /\ c.intMs \in Int \cup {Nil}
         /\ \A i \in Sectors : c.sectors[i] \in 0 .. Infinity - 1
  BY FeedAssumption DEF Fed

LEMMA FeedLists ==
  ASSUME NEW s \in Sessions, NEW cs, FromFeed(s, cs)
  PROVE  FedCars(cs)
<1> SUFFICES ASSUME NEW d \in DOMAIN cs
             PROVE  cs[d].driverNum = d /\ d \in AllDrivers /\ Fed(cs[d])
  BY DEF FedCars
<1>1. PICK f \in Feed[s] : d \in DOMAIN f /\ cs[d] = f[d]
  BY DEF FromFeed
<1> QED  BY <1>1, FeedAssumption DEF AllDrivers, Fed

\* What a received state does to the two sets.
LEMMA BroughtPast ==
  ASSUME PastInv, Brought(session', cars')
  PROVE  /\ PastInv'
         /\ sessionCars' = Range(cars') \cup (IF session' # session THEN {} ELSE sessionCars)
<1>1. PICK pass : Remember(pass) /\ Told(pass)
  BY DEF Brought, Receive
<1>2. FedCars(cars)'
  BY FeedLists DEF Brought, FedCars
<1>3. \A c \in Range(cars') : Fed(c)
  BY <1>2 DEF FedCars, Range
<1>4. pass = "same" => session' = session
  BY <1>1 DEF Told, NewPass
<1> QED  BY <1>1, <1>2, <1>3, <1>4 DEF Remember, PastInv

LEMMA PastHolds == TowerSpec => []PastInv
<1>1. TowerInit => PastInv
  BY DEF TowerInit, PastInv, FedCars, Range
<1>2. CarsInv /\ PastInv /\ [TowerNext]_towerVars => PastInv'
  BY TowerSteps, BroughtPast DEF Quiet, raceVars, foldVars, PastInv, FedCars
<1> QED  BY <1>1, <1>2, CarsHold, PTL DEF TowerSpec

-----------------------------------------------------------------------------
(* Readings *)

SectorsIn(from, d, i) == {c.sectors[i] : c \in {e \in from : e.driverNum = d}}
GapsIn(from, d) == {c.gapMs : c \in {e \in from : e.driverNum = d}}
IntsIn(from, d) == {c.intMs : c \in {e \in from : e.driverNum = d}}
LapsIn(from, d) == {c.lap : c \in {e \in from : e.driverNum = d}}
LapTimesIn(from, d) == {c.lastLapMs : c \in {e \in from : e.driverNum = d}}

-----------------------------------------------------------------------------
(* Personal bests *)

\* A fold and the times on the board: none is below its best; and if it has folded
\* no others than these, its last is one of them, and two samples are not the same.
Agree(p, ts, whole) ==
  /\ p.samples \in Nat /\ p.last \in Nat /\ p.best \in Nat
  /\ p.last # 0 => p.best <= p.last
  /\ \A t \in ts : p.best <= t
  /\ whole => /\ p.samples >= 1 => p.last \in ts
              /\ p.samples >= 2 => \E a, b \in ts : a # b

LEMMA FoldKeeps ==
  ASSUME NEW p, NEW ts \in SUBSET Nat, NEW whole \in BOOLEAN, NEW v \in Nat, Agree(p, ts, whole)
  PROVE  /\ Agree(foldSector(p, v), ts \cup ({v} \ {0}), whole)
         /\ v \in {0, foldSector(p, v).last}
<1>1. CASE v = 0 \/ v = p.last
  <2>1. foldSector(p, v) = p
    BY <1>1 DEF foldSector
  <2> QED  BY <1>1, <2>1 DEF Agree
<1>2. CASE v # 0 /\ v # p.last
  <2> DEFINE m == Min({p.best, v})
  <2>1. foldSector(p, v) = [best |-> m, last |-> v, samples |-> p.samples + 1]
    BY <1>2 DEF foldSector
  <2>2. m \in {p.best, v} /\ m <= p.best /\ m <= v
    <3>1. \E x \in {p.best, v} : \A y \in {p.best, v} : x <= y
      BY DEF Agree
    <3> QED  BY <3>1 DEF Min
  <2> HIDE DEF m
  <2>3. m \in Nat
    BY <2>2 DEF Agree
  <2>4. \A t \in ts \cup {v} : m <= t
    BY <2>2, <2>3 DEF Agree
  <2>5. whole /\ p.samples + 1 >= 2 => \E a, b \in ts \cup {v} : a # b
    BY <1>2 DEF Agree
  <2>6. p.samples + 1 \in Nat
    BY DEF Agree
  <2>7. Agree([best |-> m, last |-> v, samples |-> p.samples + 1], ts \cup {v}, whole)
    BY <2>2, <2>3, <2>4, <2>5, <2>6 DEF Agree
  <2> QED  BY <1>2, <2>1, <2>7
<1> QED  BY <1>1, <1>2

PbOf(p, d) == IF d \in DOMAIN p THEN p[d] ELSE NO_PBS
TimesOf(d, i) == SectorsIn(passCars, d, i) \ {0}

\* Each fold agrees with the times of this pass, and has the time that is on screen.
PbInv ==
  /\ missed \in {"nothing", "back", "round"}
  /\ \A d \in AllDrivers : \A i \in Sectors :
       Agree(PbOf(pb, d)[i], TimesOf(d, i), missed = "nothing")
  /\ \A d \in DOMAIN cars :
       d \in DOMAIN pb /\ \A i \in Sectors : cars[d].sectors[i] \in {0, pb[d][i].last}

LEMMA TimesAreNat ==
  ASSUME PastInv, NEW d, NEW i \in Sectors
  PROVE  TimesOf(d, i) \subseteq Nat
  BY FedFacts, HysteresisAssumption DEF PastInv, TimesOf, SectorsIn

LEMMA BroughtKeepsPbs ==
  ASSUME PastInv, PbInv, Brought(session', cars')
  PROVE  PbInv'
<1> DEFINE old == IF NewPass THEN <<>> ELSE pb
           v(d, i) == IF d \in DOMAIN cars' THEN cars'[d].sectors[i] ELSE 0
<1>1. pb' = updatePersonalBests(old, cars')
  BY DEF Brought, Receive, TowerEffect
<1>2. PICK pass : Remember(pass) /\ Told(pass)
  BY DEF Brought, Receive
<1> DEFINE from == IF pass # "same" THEN {} ELSE passCars
           past(d, i) == SectorsIn(from, d, i) \ {0}
<1>3. FedCars(cars') /\ passCars' = from \cup Range(cars')
  BY <1>2, FeedLists DEF Brought, Remember
<1>4. missed' \in {"nothing", "back", "round"}
  BY <1>2 DEF Told, Remember, PbInv
<1>5. \A d \in AllDrivers : \A i \in Sectors : v(d, i) \in Nat
  BY <1>3, FedFacts, HysteresisAssumption DEF FedCars
<1>6. \A d : \A i \in Sectors : past(d, i) \in SUBSET Nat
  BY TimesAreNat DEF TimesOf, SectorsIn
<1>7. \A d \in AllDrivers : \A i \in Sectors :
        Agree(PbOf(old, d)[i], past(d, i), missed' = "nothing")
  <2> SUFFICES ASSUME NEW d \in AllDrivers, NEW i \in Sectors
               PROVE  Agree(PbOf(old, d)[i], past(d, i), missed' = "nothing")
    OBVIOUS
  <2>1. CASE pass = "seen"
    <3>1. NewPass
      BY <1>2, <2>1 DEF Told
    <3>2. PbOf(old, d)[i] = [best |-> Infinity, last |-> 0, samples |-> 0] /\ past(d, i) = {}
      BY <2>1, <3>1 DEF PbOf, NO_PBS, SectorsIn
    <3>3. \A w : Agree([best |-> Infinity, last |-> 0, samples |-> 0], {}, w)
      BY HysteresisAssumption DEF Agree
    <3> QED  BY <3>2, <3>3
  <2>2. CASE pass # "seen"
    <3>1. old = pb
      BY <1>2, <2>2 DEF Told
    <3>2. Agree(PbOf(pb, d)[i], TimesOf(d, i), missed = "nothing")
      BY DEF PbInv
    <3>3. CASE pass = "same"
      <4>1. missed' = missed /\ past(d, i) = TimesOf(d, i)
        BY <1>2, <3>3 DEF Remember, TimesOf
      <4> QED  BY <3>1, <3>2, <4>1
    <3>4. CASE pass # "same"
      <4>1. missed' # "nothing" /\ past(d, i) = {}
        BY <1>2, <2>2, <3>4 DEF Told, Remember, SectorsIn
      <4>2. Agree(PbOf(pb, d)[i], {}, FALSE)
        BY <3>2 DEF Agree
      <4> QED  BY <3>1, <4>1, <4>2
    <3> QED  BY <3>3, <3>4
  <2> QED  BY <2>1, <2>2
<1>8. \A d \in AllDrivers : \A i \in Sectors : TimesOf(d, i)' = past(d, i) \cup ({v(d, i)} \ {0})
  <2> SUFFICES ASSUME NEW d \in AllDrivers, NEW i \in Sectors
               PROVE  TimesOf(d, i)' = past(d, i) \cup ({v(d, i)} \ {0})
    OBVIOUS
  <2>2. TimesOf(d, i)' = SectorsIn(from \cup Range(cars'), d, i) \ {0}
    BY <1>3 DEF TimesOf, SectorsIn
  <2>3. past(d, i) = SectorsIn(from, d, i) \ {0}
    OBVIOUS
  <2> HIDE DEF from, past
  <2>1. LET now == SectorsIn(from \cup Range(cars'), d, i)
            before == SectorsIn(from, d, i)
        IN  /\ d \in DOMAIN cars' => now = before \cup {cars'[d].sectors[i]}
            /\ d \notin DOMAIN cars' => now = before
    BY <1>3 DEF SectorsIn, Range, FedCars
  <2>4. CASE d \in DOMAIN cars'
    BY <2>1, <2>2, <2>3, <2>4
  <2>5. CASE d \notin DOMAIN cars'
    BY <2>1, <2>2, <2>3, <2>5
  <2> QED  BY <2>4, <2>5
<1> HIDE DEF old, v, from, past
<1>9. \A d \in AllDrivers : \A i \in Sectors : PbOf(pb', d)[i] = foldSector(PbOf(old, d)[i], v(d, i))
  <2> SUFFICES ASSUME NEW d \in AllDrivers, NEW i \in Sectors
               PROVE  PbOf(pb', d)[i] = foldSector(PbOf(old, d)[i], v(d, i))
    OBVIOUS
  <2>1. DOMAIN pb' = DOMAIN old \cup DOMAIN cars'
    BY <1>1 DEF updatePersonalBests
  <2>2. CASE d \in DOMAIN cars'
    BY <1>1, <2>1, <2>2 DEF updatePersonalBests, PbOf, v
  <2>3. CASE d \notin DOMAIN cars'
    <3>1. PbOf(pb', d) = PbOf(old, d) /\ v(d, i) = 0
      BY <1>1, <2>1, <2>3 DEF updatePersonalBests, PbOf, v
    <3> QED  BY <3>1 DEF foldSector
  <2> QED  BY <2>2, <2>3
<1>10. \A d \in AllDrivers : \A i \in Sectors :
        /\ Agree(PbOf(pb', d)[i], TimesOf(d, i)', missed' = "nothing")
        /\ v(d, i) \in {0, PbOf(pb', d)[i].last}
  <2> SUFFICES ASSUME NEW d \in AllDrivers, NEW i \in Sectors
               PROVE  /\ Agree(PbOf(pb', d)[i], TimesOf(d, i)', missed' = "nothing")
                      /\ v(d, i) \in {0, PbOf(pb', d)[i].last}
    OBVIOUS
  <2>1. (missed' = "nothing") \in BOOLEAN
    OBVIOUS
  <2>2. v(d, i) \in Nat /\ past(d, i) \in SUBSET Nat
    BY <1>5, <1>6
  <2>3. Agree(PbOf(old, d)[i], past(d, i), missed' = "nothing")
    BY <1>7
  <2>4. /\ Agree(foldSector(PbOf(old, d)[i], v(d, i)), past(d, i) \cup ({v(d, i)} \ {0}), missed' = "nothing")
        /\ v(d, i) \in {0, foldSector(PbOf(old, d)[i], v(d, i)).last}
    BY <2>1, <2>2, <2>3, FoldKeeps
  <2> QED  BY <1>8, <1>9, <2>4
<1>11. \A d \in DOMAIN cars' :
         /\ d \in DOMAIN pb' /\ d \in AllDrivers /\ PbOf(pb', d) = pb'[d]
         /\ \A i \in Sectors : v(d, i) = cars'[d].sectors[i]
  BY <1>1, <1>3 DEF updatePersonalBests, PbOf, FedCars, v
<1> QED  BY <1>4, <1>10, <1>11 DEF PbInv

\* Green is never a time that a time of this pass is below; and where the board
\* noticed that the pass began, the driver has been slower in it (TimingTower.tsx).
THEOREM Earned == TowerSpec => []GreenIsEarned
<1>1. TowerInit => PbInv
  <2> SUFFICES ASSUME TowerInit
               PROVE  PbInv
    OBVIOUS
  <2>1. \A d \in AllDrivers : \A i \in Sectors :
          /\ PbOf(pb, d)[i] = [best |-> Infinity, last |-> 0, samples |-> 0]
          /\ TimesOf(d, i) = {}
    BY DEF TowerInit, PbOf, TimesOf, SectorsIn, NO_PBS
  <2>2. \A w : Agree([best |-> Infinity, last |-> 0, samples |-> 0], {}, w)
    BY HysteresisAssumption DEF Agree
  <2>3. missed = "nothing" /\ DOMAIN cars = {}
    BY DEF TowerInit
  <2>4. \A d \in AllDrivers : \A i \in Sectors :
          Agree(PbOf(pb, d)[i], TimesOf(d, i), missed = "nothing")
    BY <2>1, <2>2
  <2> QED  BY <2>3, <2>4 DEF PbInv
<1>2. CarsInv /\ PastInv /\ PbInv /\ [TowerNext]_towerVars => PbInv'
  <2> SUFFICES ASSUME CarsInv, PastInv, PbInv, [TowerNext]_towerVars
               PROVE  PbInv'
    OBVIOUS
  <2>1. CASE Quiet
    BY <2>1 DEF Quiet, raceVars, foldVars, PbInv, TimesOf
  <2> QED  BY <2>1, TowerSteps, BroughtKeepsPbs
<1>3. PastInv /\ PbInv => GreenIsEarned
  <2> SUFFICES ASSUME PastInv, PbInv, NEW d \in DOMAIN cars, NEW i \in Sectors, Mark(d, i) = "P"
               PROVE  /\ \A t \in TimesOf(d, i) : cars[d].sectors[i] <= t
                      /\ missed = "nothing" => \E t \in TimesOf(d, i) : cars[d].sectors[i] < t
                      /\ selected \notin DOMAIN cars => Delta(d, i) = Nil
    BY DEF GreenIsEarned, Readings, TimesOf, SectorsIn
  <2> DEFINE own == cars[d].sectors[i]
  <2>1. /\ d \in AllDrivers /\ d \in DOMAIN pb
        /\ own \in 0 .. Infinity - 1
        /\ Agree(pb[d][i], TimesOf(d, i), missed = "nothing")
    BY FedFacts DEF PbInv, PbOf, PastInv, FedCars
  <2>2. own > 0 /\ own = personalBestOf(pb, d, i)
    BY MarkAssumption, <2>1 DEF Mark, sectorMark
  <2>3. pb[d][i].samples >= 2 /\ own = pb[d][i].best
    BY <2>1, <2>2, HysteresisAssumption DEF personalBestOf, PB_MIN_SAMPLES
  <2>4. selected \notin DOMAIN cars => Delta(d, i) = Nil
    BY <2>1, <2>2 DEF Delta, sectorDelta
  <2> HIDE DEF own
  <2>5. TimesOf(d, i) \subseteq Nat /\ own \in Nat
    BY <2>1, TimesAreNat, HysteresisAssumption
  <2>6. \A t \in TimesOf(d, i) : own <= t
    BY <2>1, <2>3 DEF Agree
  <2>7. ASSUME missed = "nothing"
        PROVE  \E t \in TimesOf(d, i) : own < t
    <3>1. PICK a \in TimesOf(d, i), b \in TimesOf(d, i) : a # b
      BY <2>1, <2>3, <2>7 DEF Agree
    <3> QED  BY <2>5, <2>6, <3>1
  <2> QED  BY <2>4, <2>6, <2>7 DEF own
<1> QED  BY <1>1, <1>2, <1>3, CarsHold, PastHolds, PTL DEF TowerSpec

-----------------------------------------------------------------------------
(* Medians and windows *)

\* A median is a number between two of the window.
LEMMA MedianFacts ==
  ASSUME NEW T \in SUBSET Int, NEW xs \in Seq(T)
  PROVE  /\ xs = <<>> => median(xs) = Nil
         /\ xs # <<>> => /\ median(xs) \in Int
                         /\ \E a, b \in T : a <= median(xs) /\ median(xs) <= b
<1>0. xs = <<>> => median(xs) = Nil
  BY Zenon DEF median
<1> SUFFICES ASSUME xs # <<>>
             PROVE  median(xs) \in Int /\ \E a, b \in T : a <= median(xs) /\ median(xs) <= b
  BY <1>0
<1> DEFINE n == Len(xs)
           mid == n \div 2
<1>1. n \in Nat \ {0} /\ DOMAIN xs = 1 .. n /\ xs \in [1 .. n -> T] /\ xs \in [1 .. n -> Int]
  <2>1. n \in Nat \ {0} /\ DOMAIN xs = 1 .. n /\ \A k \in 1 .. n : xs[k] \in T
    OBVIOUS
  <2>2. xs = [k \in 1 .. n |-> xs[k]]
    OBVIOUS
  <2> HIDE DEF n
  <2> QED  BY <2>1, <2>2
<1> HIDE DEF n
<1>2. IsFiniteSet(1 .. n) /\ Cardinality(1 .. n) = n /\ 1 .. n \in SUBSET Int
  BY <1>1, FS_Interval
<1>3. PICK at \in Bijection(1 .. n, 1 .. n) : StableSort(xs, xs) = [k \in 1 .. n |-> xs[at[k]]]
  <2> DEFINE I == 1 .. n
  <2>1. I \in SUBSET Int /\ IsFiniteSet(I) /\ Cardinality(I) = n /\ xs \in [I -> Int]
    BY <1>1, <1>2
  <2> HIDE DEF I
  <2>2. \E at \in Bijection(1 .. Cardinality(I), I) :
           StableSort(xs, xs) = [k \in 1 .. Cardinality(I) |-> xs[at[k]]]
    BY <2>1, StableSortFacts
  <2> QED  BY <2>1, <2>2 DEF I
<1>4. at \in [1 .. n -> 1 .. n]
  BY DEF Bijection, Injection
<1>5. \A k \in 1 .. n : StableSort(xs, xs)[k] \in T
  BY <1>1, <1>3, <1>4
<1>6. CASE n % 2 = 1
  <2>1. mid + 1 \in 1 .. n
    BY <1>1, <1>6
  <2>2. median(xs) = StableSort(xs, xs)[mid + 1]
    BY <1>6 DEF median, n
  <2>3. median(xs) \in T /\ median(xs) \in Int
    BY <1>5, <2>1, <2>2
  <2> QED  BY <2>3
<1>7. CASE n % 2 # 1
  <2>1. mid \in 1 .. n /\ mid + 1 \in 1 .. n
    BY <1>1, <1>7
  <2>2. PICK a \in T, b \in T : median(xs) = (a + b) \div 2
    <3>1. median(xs) = (StableSort(xs, xs)[mid] + StableSort(xs, xs)[mid + 1]) \div 2
      BY <1>7 DEF median, n
    <3> QED  BY <1>5, <2>1, <3>1
  <2>3. \A x, y \in Int : x <= y => /\ (x + y) \div 2 \in Int /\ (y + x) \div 2 = (x + y) \div 2
                                    /\ x <= (x + y) \div 2 /\ (x + y) \div 2 <= y
    OBVIOUS
  <2>4. a \in Int /\ b \in Int
    OBVIOUS
  <2>5. CASE a <= b
    BY <2>2, <2>3, <2>4, <2>5
  <2>6. CASE b <= a
    BY <2>2, <2>3, <2>4, <2>6
  <2> QED  BY <2>4, <2>5, <2>6
<1> QED  BY <1>6, <1>7

LEMMA MedianType ==
  ASSUME NEW xs \in Seq(Int)
  PROVE  median(xs) \in Int \cup {Nil}
  BY MedianFacts

LEMMA CappedKeeps ==
  ASSUME NEW T, NEW s \in Seq(T), NEW v \in T, NEW n \in Nat \ {0}
  PROVE  Capped(Append(s, v), n) \in Seq(T)
<1>1. Append(s, v) \in Seq(T) /\ Len(Append(s, v)) \in Nat
  OBVIOUS
<1> QED  BY <1>1 DEF Capped

\* A window takes a reading, and what is shown stays among the readings.
LEMMA WindowKeeps ==
  ASSUME NEW R \in SUBSET (Int \cup {Nil}), NEW xs \in Seq(R \ {Nil}), NEW v \in R,
         NEW shown, Among(shown, R)
  PROVE  /\ pushCapped(xs, v) \in Seq(R \ {Nil})
         /\ Among(settle(pushCapped(xs, v), shown), R)
<1>1. pushCapped(xs, v) \in Seq(R \ {Nil})
  BY CappedKeeps, WindowAssumption DEF pushCapped
<1> DEFINE ys == pushCapped(xs, v)
           m == median(ys)
<1>2. R \ {Nil} \in SUBSET Int
  OBVIOUS
<1>3. Among(m, R)
  <2> HIDE DEF ys
  <2>1. ys \in Seq(R \ {Nil})
    BY <1>1 DEF ys
  <2> QED  BY <1>2, <2>1, MedianFacts DEF Among
<1>4. settle(ys, shown) \in {m, shown}
  BY DEF settle
<1> QED  BY <1>1, <1>3, <1>4

-----------------------------------------------------------------------------
(* What is folded *)

PbsOnly(p, from) ==
  \A d \in DOMAIN p : \A i \in Sectors :
    /\ p[d][i].last \in SectorsIn(from, d, i) \cup {0}
    /\ p[d][i].best \in SectorsIn(from, d, i) \cup {Infinity}

WindowOnly(w, gaps, ints) ==
  /\ w.gaps \in Seq(gaps \ {Nil}) /\ Among(w.shownGap, gaps)
  /\ w.ints \in Seq(ints \ {Nil}) /\ Among(w.shownInt, ints)

WindowsOnly(w, from) == \A d \in DOMAIN w : WindowOnly(w[d], GapsIn(from, d), IntsIn(from, d))

LapsOnly(h, from) == \A d \in DOMAIN h : h[d] \in Seq(LapTimesIn(from, d))

GapsOnly(h, from) ==
  \A d \in DOMAIN h : h[d].lap \in LapsIn(from, d) /\ h[d].gaps \in Seq(GapsIn(from, d))

\* Among more cars, the same holds; and of nothing, everything does.
LEMMA More ==
  ASSUME NEW from, NEW all, from \subseteq all
  PROVE  /\ \A p : PbsOnly(p, from) => PbsOnly(p, all)
         /\ \A w : WindowsOnly(w, from) => WindowsOnly(w, all)
         /\ \A h : LapsOnly(h, from) => LapsOnly(h, all)
         /\ \A h : GapsOnly(h, from) => GapsOnly(h, all)
<1>1. \A d : /\ \A i : SectorsIn(from, d, i) \subseteq SectorsIn(all, d, i)
             /\ GapsIn(from, d) \subseteq GapsIn(all, d) /\ IntsIn(from, d) \subseteq IntsIn(all, d)
             /\ LapsIn(from, d) \subseteq LapsIn(all, d)
             /\ LapTimesIn(from, d) \subseteq LapTimesIn(all, d)
  BY DEF SectorsIn, GapsIn, IntsIn, LapsIn, LapTimesIn
<1>2. \A S, T : S \subseteq T => Seq(S) \subseteq Seq(T) /\ Seq(S \ {Nil}) \subseteq Seq(T \ {Nil})
  OBVIOUS
<1>3. \A ms, S, T : S \subseteq T /\ Among(ms, S) => Among(ms, T)
  BY DEF Among
<1>4. \A p : PbsOnly(p, from) => PbsOnly(p, all)
  BY <1>1 DEF PbsOnly
<1>5. \A w : WindowsOnly(w, from) => WindowsOnly(w, all)
  <2> SUFFICES ASSUME NEW w, WindowsOnly(w, from), NEW d \in DOMAIN w
               PROVE  WindowOnly(w[d], GapsIn(all, d), IntsIn(all, d))
    BY DEF WindowsOnly
  <2>1. WindowOnly(w[d], GapsIn(from, d), IntsIn(from, d))
    BY DEF WindowsOnly
  <2>2. /\ w[d].gaps \in Seq(GapsIn(all, d) \ {Nil}) /\ w[d].ints \in Seq(IntsIn(all, d) \ {Nil})
    BY <1>1, <1>2, <2>1 DEF WindowOnly
  <2>3. Among(w[d].shownGap, GapsIn(all, d)) /\ Among(w[d].shownInt, IntsIn(all, d))
    BY <1>1, <1>3, <2>1 DEF WindowOnly
  <2> QED  BY <2>2, <2>3 DEF WindowOnly
<1>6. \A h : LapsOnly(h, from) => LapsOnly(h, all)
  BY <1>1, <1>2 DEF LapsOnly
<1>7. \A h : GapsOnly(h, from) => GapsOnly(h, all)
  BY <1>1, <1>2 DEF GapsOnly
<1> QED  BY <1>4, <1>5, <1>6, <1>7

LEMMA NothingFolded ==
  ASSUME NEW from
  PROVE  PbsOnly(<<>>, from) /\ WindowsOnly(<<>>, from) /\ LapsOnly(<<>>, from) /\ GapsOnly(<<>>, from)
<1>1. DOMAIN <<>> = {}
  OBVIOUS
<1> QED  BY <1>1 DEF PbsOnly, WindowsOnly, LapsOnly, GapsOnly

LEMMA OwnReadings ==
  ASSUME NEW cs, FedCars(cs), NEW from, Range(cs) \subseteq from, NEW d \in DOMAIN cs
  PROVE  /\ \A i \in Sectors : cs[d].sectors[i] \in SectorsIn(from, d, i)
         /\ cs[d].gapMs \in GapsIn(from, d) /\ cs[d].intMs \in IntsIn(from, d)
         /\ cs[d].lap \in LapsIn(from, d) /\ cs[d].lastLapMs \in LapTimesIn(from, d)
<1>1. cs[d] \in from /\ cs[d].driverNum = d
  BY DEF FedCars, Range
<1> QED  BY <1>1 DEF SectorsIn, GapsIn, IntsIn, LapsIn, LapTimesIn

\* Each fold, of what it held of some cars and of the cars received now.
LEMMA PbsStay ==
  ASSUME NEW cs, FedCars(cs), NEW from, Range(cs) \subseteq from,
         \A c \in from : Fed(c), NEW old, PbsOnly(old, from)
  PROVE  PbsOnly(updatePersonalBests(old, cs), from)
<1> SUFFICES ASSUME NEW d \in DOMAIN updatePersonalBests(old, cs), NEW i \in Sectors
             PROVE  LET p == updatePersonalBests(old, cs)[d][i]
                    IN  /\ p.last \in SectorsIn(from, d, i) \cup {0}
                        /\ p.best \in SectorsIn(from, d, i) \cup {Infinity}
  BY DEF PbsOnly
<1> DEFINE cur == IF d \in DOMAIN old THEN old[d] ELSE NO_PBS
<1>1. d \in DOMAIN old \cup DOMAIN cs
  BY DEF updatePersonalBests
<1>2. /\ cur[i].last \in SectorsIn(from, d, i) \cup {0}
      /\ cur[i].best \in SectorsIn(from, d, i) \cup {Infinity}
  BY DEF NO_PBS, PbsOnly
<1>3. CASE d \in DOMAIN cs
  <2> DEFINE v == cs[d].sectors[i]
  <2>1. updatePersonalBests(old, cs)[d][i] = foldSector(cur[i], v)
    BY <1>1, <1>3 DEF updatePersonalBests
  <2>2. v \in SectorsIn(from, d, i)
    BY <1>3, OwnReadings
  <2>3. SectorsIn(from, d, i) \subseteq Int
    BY FedFacts, HysteresisAssumption DEF SectorsIn
  <2> HIDE DEF cur, v
  <2>4. Min({cur[i].best, v}) \in {cur[i].best, v}
    <3>1. cur[i].best \in Int /\ v \in Int
      BY <1>2, <2>2, <2>3, HysteresisAssumption
    <3>2. \E x \in {cur[i].best, v} : \A y \in {cur[i].best, v} : x <= y
      BY <3>1
    <3> QED  BY <3>2 DEF Min
  <2>5. /\ foldSector(cur[i], v).last \in {cur[i].last, v}
        /\ foldSector(cur[i], v).best \in {cur[i].best, v}
    BY <2>4 DEF foldSector
  <2> QED  BY <1>2, <2>1, <2>2, <2>5
<1>4. CASE d \notin DOMAIN cs
  <2>1. updatePersonalBests(old, cs)[d] = cur
    BY <1>1, <1>4 DEF updatePersonalBests
  <2> QED  BY <1>2, <2>1
<1> QED  BY <1>3, <1>4

LEMMA WindowsStay ==
  ASSUME NEW cs, FedCars(cs), NEW from, Range(cs) \subseteq from,
         \A c \in from : Fed(c), NEW old, WindowsOnly(old, from)
  PROVE  WindowsOnly(updateGapSmoothing(old, cs), from)
<1> SUFFICES ASSUME NEW d \in DOMAIN updateGapSmoothing(old, cs)
             PROVE  WindowOnly(updateGapSmoothing(old, cs)[d], GapsIn(from, d), IntsIn(from, d))
  BY DEF WindowsOnly
<1> DEFINE cur == IF d \in DOMAIN old THEN old[d] ELSE NoSamples
           reports == d \in DOMAIN cs /\ (cs[d].gapMs # Nil \/ cs[d].intMs # Nil)
           G == GapsIn(from, d)
           I == IntsIn(from, d)
<1>1. WindowOnly(cur, G, I)
  <2>1. CASE d \in DOMAIN old
    BY <2>1 DEF WindowsOnly
  <2>2. CASE d \notin DOMAIN old
    BY <2>2 DEF NoSamples, WindowOnly, Among
  <2> QED  BY <2>1, <2>2
<1>2. G \in SUBSET (Int \cup {Nil}) /\ I \in SUBSET (Int \cup {Nil})
  BY FedFacts DEF GapsIn, IntsIn
<1>3. CASE reports
  <2> DEFINE g == pushCapped(cur.gaps, cs[d].gapMs)
             t == pushCapped(cur.ints, cs[d].intMs)
  <2>1. updateGapSmoothing(old, cs)[d] =
          [gaps |-> g, ints |-> t, shownGap |-> settle(g, cur.shownGap),
           shownInt |-> settle(t, cur.shownInt)]
    BY <1>3 DEF updateGapSmoothing
  <2>2. cs[d].gapMs \in G /\ cs[d].intMs \in I
    BY <1>3, OwnReadings
  <2> HIDE DEF cur, G, I
  <2>3. g \in Seq(G \ {Nil}) /\ Among(settle(g, cur.shownGap), G)
    BY <1>1, <1>2, <2>2, WindowKeeps DEF WindowOnly
  <2>4. t \in Seq(I \ {Nil}) /\ Among(settle(t, cur.shownInt), I)
    BY <1>1, <1>2, <2>2, WindowKeeps DEF WindowOnly
  <2> HIDE DEF g, t
  <2>5. WindowOnly(updateGapSmoothing(old, cs)[d], G, I)
    BY <2>1, <2>3, <2>4 DEF WindowOnly
  <2> QED  BY <2>5 DEF G, I
<1>4. CASE ~reports
  <2>1. d \in DOMAIN old /\ updateGapSmoothing(old, cs)[d] = old[d]
    BY <1>4 DEF updateGapSmoothing
  <2> QED  BY <2>1 DEF WindowsOnly
<1> QED  BY <1>3, <1>4

LEMMA LapsStay ==
  ASSUME NEW cs, FedCars(cs), NEW from, Range(cs) \subseteq from, NEW old, LapsOnly(old, from)
  PROVE  LapsOnly(updateLapHistory(old, cs), from)
<1> SUFFICES ASSUME NEW d \in DOMAIN updateLapHistory(old, cs)
             PROVE  updateLapHistory(old, cs)[d] \in Seq(LapTimesIn(from, d))
  BY DEF LapsOnly
<1> DEFINE hist == IF d \in DOMAIN old THEN old[d] ELSE <<>>
           fresh == /\ d \in DOMAIN cs /\ cs[d].lastLapMs # 0
                    /\ (hist = <<>> \/ Last(hist) # cs[d].lastLapMs)
<1>1. hist \in Seq(LapTimesIn(from, d))
  BY DEF LapsOnly
<1>2. CASE fresh
  <2>1. updateLapHistory(old, cs)[d] = Capped(Append(hist, cs[d].lastLapMs), MaxHistory)
    BY <1>2 DEF updateLapHistory
  <2>2. cs[d].lastLapMs \in LapTimesIn(from, d)
    BY <1>2, OwnReadings
  <2> HIDE DEF hist
  <2> QED  BY <1>1, <2>1, <2>2, CappedKeeps, WindowAssumption
<1>3. CASE ~fresh
  <2>1. d \in DOMAIN old /\ updateLapHistory(old, cs)[d] = old[d]
    BY <1>3 DEF updateLapHistory
  <2> QED  BY <2>1 DEF LapsOnly
<1> QED  BY <1>2, <1>3

LEMMA GapsStay ==
  ASSUME NEW cs, FedCars(cs), NEW from, Range(cs) \subseteq from, NEW old, GapsOnly(old, from)
  PROVE  GapsOnly(updateGapHistory(old, cs), from)
<1> SUFFICES ASSUME NEW d \in DOMAIN updateGapHistory(old, cs)
             PROVE  /\ updateGapHistory(old, cs)[d].lap \in LapsIn(from, d)
                    /\ updateGapHistory(old, cs)[d].gaps \in Seq(GapsIn(from, d))
  BY DEF GapsOnly
<1> DEFINE hist == IF d \in DOMAIN old THEN old[d].gaps ELSE <<>>
           fresh == /\ d \in DOMAIN cs /\ cs[d].lap # Nil
                    /\ (d \in DOMAIN old => cs[d].lap > old[d].lap)
<1>1. hist \in Seq(GapsIn(from, d))
  BY DEF GapsOnly
<1>2. CASE fresh
  <2>1. updateGapHistory(old, cs)[d] =
          [lap |-> cs[d].lap, gaps |-> Capped(Append(hist, cs[d].gapMs), MaxHistory)]
    BY <1>2 DEF updateGapHistory
  <2>2. cs[d].gapMs \in GapsIn(from, d) /\ cs[d].lap \in LapsIn(from, d)
    BY <1>2, OwnReadings
  <2> HIDE DEF hist
  <2>3. Capped(Append(hist, cs[d].gapMs), MaxHistory) \in Seq(GapsIn(from, d))
    BY <1>1, <2>2, CappedKeeps, WindowAssumption
  <2> QED  BY <2>1, <2>2, <2>3
<1>3. CASE ~fresh
  <2>1. d \in DOMAIN old /\ updateGapHistory(old, cs)[d] = old[d]
    BY <1>3 DEF updateGapHistory
  <2> QED  BY <2>1 DEF GapsOnly
<1> QED  BY <1>2, <1>3

-----------------------------------------------------------------------------
(* One session's and one pass's readings *)

TowerFrom == IF missed = "nothing" THEN passCars ELSE sessionCars
HistoryFrom == IF missed = "round" THEN sessionCars ELSE passCars

BleedInv ==
  /\ missed \in {"nothing", "back", "round"}
  /\ PbsOnly(pb, TowerFrom) /\ WindowsOnly(smoothingRef, TowerFrom)
  /\ LapsOnly(lapHistory, HistoryFrom) /\ GapsOnly(gapHistory, HistoryFrom)

\* Where a fold does not start again, what it held is of the cars it may hold now.
LEMMA BroughtKeepsReadings ==
  ASSUME PastInv, BleedInv, Brought(session', cars')
  PROVE  BleedInv'
<1>1. PICK pass : Remember(pass) /\ Told(pass)
  BY DEF Brought, Receive
<1>2. /\ PastInv'
      /\ sessionCars' = Range(cars') \cup (IF session' # session THEN {} ELSE sessionCars)
  BY BroughtPast
<1>3. missed' \in {"nothing", "back", "round"}
  BY <1>1 DEF Told, Remember, BleedInv
<1> DEFINE again == session' # session \/ timeMs' < timeMs
           oldPb == IF NewPass THEN <<>> ELSE pb
           oldSm == IF NewPass THEN <<>> ELSE smoothingRef
           oldLaps == IF again THEN <<>> ELSE lapHistory
           oldGaps == IF again THEN <<>> ELSE gapHistory
<1>4. /\ pb' = updatePersonalBests(oldPb, cars') /\ smoothingRef' = updateGapSmoothing(oldSm, cars')
      /\ lapHistory' = updateLapHistory(oldLaps, cars')
      /\ gapHistory' = updateGapHistory(oldGaps, cars')
  BY DEF Brought, Receive, TowerEffect, HistoryEffect
<1>5. FedCars(cars') /\ Range(cars') \subseteq TowerFrom' /\ Range(cars') \subseteq HistoryFrom'
  BY <1>2 DEF PastInv, FedCars, TowerFrom, HistoryFrom
<1>6. (\A c \in TowerFrom' : Fed(c)) /\ (\A c \in HistoryFrom' : Fed(c))
  BY <1>2 DEF PastInv, Fed, TowerFrom, HistoryFrom
<1>7. ~NewPass => TowerFrom \subseteq TowerFrom'
  BY <1>1, <1>2 DEF Told, NewPass, Remember, PastInv, TowerFrom, BleedInv
<1>8. ~again => HistoryFrom \subseteq HistoryFrom'
  BY <1>1, <1>2 DEF Told, Remember, PastInv, HistoryFrom, BleedInv
<1> HIDE DEF again
<1>9. PbsOnly(oldPb, TowerFrom') /\ WindowsOnly(oldSm, TowerFrom')
  <2>1. CASE NewPass
    BY <2>1, NothingFolded
  <2>2. CASE ~NewPass
    <3>1. PbsOnly(pb, TowerFrom) /\ WindowsOnly(smoothingRef, TowerFrom)
      BY DEF BleedInv
    <3> QED  BY <1>7, <2>2, <3>1, More
  <2> QED  BY <2>1, <2>2
<1>10. LapsOnly(oldLaps, HistoryFrom') /\ GapsOnly(oldGaps, HistoryFrom')
  <2>1. CASE again
    BY <2>1, NothingFolded
  <2>2. CASE ~again
    <3>1. LapsOnly(lapHistory, HistoryFrom) /\ GapsOnly(gapHistory, HistoryFrom)
      BY DEF BleedInv
    <3> QED  BY <1>8, <2>2, <3>1, More
  <2> QED  BY <2>1, <2>2
<1> HIDE DEF oldPb, oldSm, oldLaps, oldGaps
<1> DEFINE tower == TowerFrom'
           history == HistoryFrom'
<1> HIDE DEF tower, history
<1>11. PbsOnly(pb', tower) /\ WindowsOnly(smoothingRef', tower)
  BY <1>4, <1>5, <1>6, <1>9, PbsStay, WindowsStay DEF tower
<1>12. LapsOnly(lapHistory', history) /\ GapsOnly(gapHistory', history)
  BY <1>4, <1>5, <1>10, LapsStay, GapsStay DEF history
<1>13. PbsOnly(pb', TowerFrom') /\ WindowsOnly(smoothingRef', TowerFrom')
  BY <1>11 DEF tower
<1>14. LapsOnly(lapHistory', HistoryFrom') /\ GapsOnly(gapHistory', HistoryFrom')
  BY <1>12 DEF history
<1> QED  BY <1>3, <1>13, <1>14 DEF BleedInv, PbsOnly, WindowsOnly, LapsOnly, GapsOnly

\* What is folded into the bests, the windows and the histories of a driver are the
\* driver's readings of this session, and of this pass of its clip where the board
\* could notice that it began (TimingTower.tsx, useRollingHistory.ts).
THEOREM Separate == TowerSpec => []NoBleed
<1>1. TowerInit => BleedInv
  <2> SUFFICES ASSUME TowerInit
               PROVE  BleedInv
    OBVIOUS
  <2>1. /\ missed = "nothing" /\ pb = <<>> /\ smoothingRef = <<>>
        /\ lapHistory = <<>> /\ gapHistory = <<>>
    BY DEF TowerInit
  <2> QED  BY <2>1, NothingFolded DEF BleedInv
<1>2. CarsInv /\ PastInv /\ BleedInv /\ [TowerNext]_towerVars => BleedInv'
  <2> SUFFICES ASSUME CarsInv, PastInv, BleedInv, [TowerNext]_towerVars
               PROVE  BleedInv'
    OBVIOUS
  <2>1. CASE Quiet
    BY <2>1 DEF Quiet, raceVars, foldVars, BleedInv, PbsOnly, WindowsOnly, LapsOnly, GapsOnly,
                TowerFrom, HistoryFrom
  <2> QED  BY <2>1, TowerSteps, BroughtKeepsReadings
<1>3. BleedInv => NoBleed
  <2> SUFFICES ASSUME BleedInv
               PROVE  NoBleed
    OBVIOUS
  <2>1. \A T : \A q \in Seq(T) : Range(q) \subseteq T
    BY RangeOfSeq
  <2>2. TowerFoldsOnly(TowerFrom)
    <3>1. \A d \in DOMAIN pb : \A i \in Sectors :
            /\ pb[d][i].last \in SectorsIn(TowerFrom, d, i) \cup {0}
            /\ pb[d][i].best \in SectorsIn(TowerFrom, d, i) \cup {Infinity}
      BY DEF BleedInv, PbsOnly
    <3>2. ASSUME NEW d \in DOMAIN smoothingRef
          PROVE  LET w == smoothingRef[d]
                 IN  /\ Range(w.gaps) \subseteq GapsIn(TowerFrom, d)
                     /\ Among(w.shownGap, GapsIn(TowerFrom, d))
                     /\ Range(w.ints) \subseteq IntsIn(TowerFrom, d)
                     /\ Among(w.shownInt, IntsIn(TowerFrom, d))
      <4>1. WindowOnly(smoothingRef[d], GapsIn(TowerFrom, d), IntsIn(TowerFrom, d))
        BY DEF BleedInv, WindowsOnly
      <4>2. /\ Range(smoothingRef[d].gaps) \subseteq GapsIn(TowerFrom, d) \ {Nil}
            /\ Range(smoothingRef[d].ints) \subseteq IntsIn(TowerFrom, d) \ {Nil}
        BY <2>1, <4>1 DEF WindowOnly
      <4> QED  BY <4>1, <4>2 DEF WindowOnly
    <3> QED  BY <3>1, <3>2 DEF TowerFoldsOnly, Readings, SectorsIn, GapsIn, IntsIn
  <2>3. HistoriesOnly(HistoryFrom)
    <3>1. \A d \in DOMAIN lapHistory : Range(lapHistory[d]) \subseteq LapTimesIn(HistoryFrom, d)
      BY <2>1 DEF BleedInv, LapsOnly
    <3>2. \A d \in DOMAIN gapHistory :
            /\ gapHistory[d].lap \in LapsIn(HistoryFrom, d)
            /\ Range(gapHistory[d].gaps) \subseteq GapsIn(HistoryFrom, d)
      BY <2>1 DEF BleedInv, GapsOnly
    <3> QED  BY <3>1, <3>2 DEF HistoriesOnly, Readings, LapTimesIn, LapsIn, GapsIn
  <2> QED  BY <2>2, <2>3 DEF NoBleed, TowerFrom, HistoryFrom
<1> QED  BY <1>1, <1>2, <1>3, CarsHold, PastHolds, PTL DEF TowerSpec

-----------------------------------------------------------------------------
(* The gap columns *)

\* A row of displayGaps, given the rows before it in f.
Row(rows, sm, f, i) ==
  LET raw(k) == RawGaps(rows[k], sm)[1]
      rawInt(k) == RawGaps(rows[k], sm)[2]
      prevGap == IF i = 2 THEN 0 ELSE f[i - 1].gapMs
      gap == Max({raw(i), prevGap})
  IN  CASE i = 1 -> [gapMs |-> Nil, intMs |-> Nil]
        [] i > 1 /\ raw(i) = Nil -> [gapMs |-> Nil, intMs |-> rawInt(i)]
        [] i > 1 /\ raw(i) # Nil /\ prevGap = Nil -> [gapMs |-> raw(i), intMs |-> rawInt(i)]
        [] OTHER -> [gapMs |-> gap, intMs |-> gap - prevGap]

LEMMA RowsAre ==
  ASSUME NEW rows, NEW sm, NEW f, f = [i \in DOMAIN rows |-> Row(rows, sm, f, i)]
  PROVE  LET row == displayGaps(rows, sm) IN row = [i \in DOMAIN rows |-> Row(rows, sm, row, i)]
<1>1. displayGaps(rows, sm) = CHOOSE g : g = [i \in DOMAIN rows |-> Row(rows, sm, g, i)]
  BY DEF displayGaps, Row
<1> DEFINE row == CHOOSE g : g = [i \in DOMAIN rows |-> Row(rows, sm, g, i)]
<1>2. row = [i \in DOMAIN rows |-> Row(rows, sm, row, i)]
  BY Zenon
<1> QED BY <1>1, <1>2

Ms == Int \cup {Nil}
Rows == [gapMs : Ms, intMs : Ms]

LEMMA GreaterOf ==
  ASSUME NEW a \in Int, NEW b \in Int
  PROVE  Max({a, b}) \in Int /\ Max({a, b}) >= a /\ Max({a, b}) >= b
<1>1. \E x \in {a, b} : \A y \in {a, b} : x >= y
  OBVIOUS
<1>2. Max({a, b}) \in {a, b} /\ \A y \in {a, b} : Max({a, b}) >= y
  BY <1>1 DEF Max
<1> QED  BY <1>2

\* A row's cells are times if what they are made of is.
LEMMA RowType ==
  ASSUME NEW rows, NEW sm, NEW f, NEW i \in Nat \ {0},
         RawGaps(rows[i], sm)[1] \in Ms, RawGaps(rows[i], sm)[2] \in Ms,
         i > 2 => f[i - 1] \in Rows
  PROVE  Row(rows, sm, f, i) \in Rows
<1> DEFINE raw == RawGaps(rows[i], sm)[1]
           rawInt == RawGaps(rows[i], sm)[2]
           prevGap == IF i = 2 THEN 0 ELSE f[i - 1].gapMs
           gap == Max({raw, prevGap})
           r == Row(rows, sm, f, i)
<1>1. /\ i = 1 => r = [gapMs |-> Nil, intMs |-> Nil]
      /\ i > 1 /\ raw = Nil => r = [gapMs |-> Nil, intMs |-> rawInt]
      /\ i > 1 /\ raw # Nil /\ prevGap = Nil => r = [gapMs |-> raw, intMs |-> rawInt]
      /\ i > 1 /\ raw # Nil /\ prevGap # Nil => r = [gapMs |-> gap, intMs |-> gap - prevGap]
  <2>1. i = 1 => ~(i > 1)
    OBVIOUS
  <2> QED  BY <2>1, Zenon DEF Row
<1>2. i > 1 => prevGap \in Ms
  BY DEF Ms, Rows
<1>3. i > 1 /\ raw # Nil /\ prevGap # Nil => gap \in Int /\ prevGap \in Int
  BY <1>2, GreaterOf DEF Ms
<1> SUFFICES r \in Rows
  OBVIOUS
<1> HIDE DEF raw, rawInt, prevGap, gap, r
<1>4. raw \in Ms /\ rawInt \in Ms
  BY DEF raw, rawInt
<1>5. CASE i = 1
  BY <1>1, <1>5 DEF Ms, Rows
<1>6. CASE i > 1 /\ raw = Nil
  BY <1>1, <1>4, <1>6 DEF Ms, Rows
<1>7. CASE i > 1 /\ raw # Nil /\ prevGap = Nil
  BY <1>1, <1>4, <1>7 DEF Rows
<1>8. CASE i > 1 /\ raw # Nil /\ prevGap # Nil
  <2>1. gap \in Ms /\ gap - prevGap \in Ms
    BY <1>3, <1>8 DEF Ms
  <2> QED  BY <1>1, <1>8, <2>1 DEF Rows
<1>9. i = 1 \/ i > 1
  OBVIOUS
<1> QED  BY <1>5, <1>6, <1>7, <1>8, <1>9

\* The rows are what the walk makes of them, one after the other.
LEMMA RowByRow ==
  ASSUME NEW rows, NEW n \in Nat, DOMAIN rows = 1 .. n, NEW sm,
         \A i \in 1 .. n : RawGaps(rows[i], sm)[1] \in Ms /\ RawGaps(rows[i], sm)[2] \in Ms
  PROVE  LET row == displayGaps(rows, sm)
         IN  \A i \in 1 .. n : row[i] \in Rows /\ row[i] = Row(rows, sm, row, i)
<1> DEFINE none == [gapMs |-> Nil, intMs |-> Nil]
           q == [i \in 1 .. n |-> i]
           M == 1 .. n
           step == [p \in Rows \X M |-> Row(rows, sm, [k \in {p[2] - 1} |-> p[1]], p[2])]
<1>1. q \in Seq(M) /\ Len(q) = n /\ none \in Rows
  BY DEF Rows, Ms
<1>2. \A r \in Rows, i \in M : Row(rows, sm, [k \in {i - 1} |-> r], i) \in Rows
  <2> SUFFICES ASSUME NEW r \in Rows, NEW i \in M
               PROVE  Row(rows, sm, [k \in {i - 1} |-> r], i) \in Rows
    OBVIOUS
  <2> DEFINE f == [k \in {i - 1} |-> r]
  <2>1. f[i - 1] \in Rows
    OBVIOUS
  <2>2. i \in Nat \ {0} /\ RawGaps(rows[i], sm)[1] \in Ms /\ RawGaps(rows[i], sm)[2] \in Ms
    OBVIOUS
  <2> HIDE DEF f
  <2>3. Row(rows, sm, f, i) \in Rows
    BY <2>1, <2>2, RowType
  <2> QED  BY <2>3 DEF f
<1>3. \A r \in Rows, i \in M : step[<<r, i>>] = Row(rows, sm, [k \in {i - 1} |-> r], i)
  OBVIOUS
<1>4. IsStep(Rows, M, step)
  <2>1. \A p \in Rows \X M : p[1] \in Rows /\ p[2] \in M
    OBVIOUS
  <2> QED  BY <1>2, <2>1 DEF IsStep
<1> HIDE DEF step, none, q
<1>5. PICK c : Steps(c, Rows, step, none, q)
  BY <1>1, <1>4, StepsExist
<1>6. c \in [0 .. n -> Rows] /\ \A i \in 1 .. n : c[i] = step[<<c[i - 1], q[i]>>]
  BY <1>1, <1>5 DEF Steps
<1> DEFINE d == [i \in 1 .. n |-> c[i]]
<1>7. \A i \in 1 .. n : d[i] = Row(rows, sm, d, i)
  <2> SUFFICES ASSUME NEW i \in 1 .. n
               PROVE  d[i] = Row(rows, sm, d, i)
    OBVIOUS
  <2> DEFINE f == [k \in {i - 1} |-> c[i - 1]]
  <2>1. c[i - 1] \in Rows /\ q[i] = i
    BY <1>6 DEF q
  <2>2. d[i] = Row(rows, sm, f, i)
    BY <1>3, <1>6, <2>1
  <2>3. f[i - 1] = c[i - 1] /\ (i > 2 => d[i - 1] = c[i - 1])
    OBVIOUS
  <2> HIDE DEF f, d
  <2>4. i > 2 => f[i - 1] = d[i - 1]
    BY <2>3
  <2>5. i > 1 /\ i # 2 => i > 2
    OBVIOUS
  <2>6. i = 1 => ~(i > 1)
    OBVIOUS
  <2>7. (i = 1 \/ i = 2 \/ i > 2) /\ i > 0
    OBVIOUS
  <2>8. CASE i > 2
    BY <2>2, <2>4, <2>8, Zenon DEF Row
  <2>9. CASE i = 2
    BY <2>2, <2>9, Zenon DEF Row
  <2>10. CASE i = 1
    <3>1. Row(rows, sm, f, i) = [gapMs |-> Nil, intMs |-> Nil]
          /\ Row(rows, sm, d, i) = [gapMs |-> Nil, intMs |-> Nil]
      BY <2>6, <2>10, Zenon DEF Row
    <3> QED  BY <2>2, <3>1
  <2> QED  BY <2>7, <2>8, <2>9, <2>10
<1>8. d = [i \in DOMAIN rows |-> Row(rows, sm, d, i)]
  BY <1>7
<1> HIDE DEF d
<1> DEFINE row == displayGaps(rows, sm)
<1>9. row = [i \in 1 .. n |-> Row(rows, sm, row, i)]
  BY <1>8, RowsAre
<1> HIDE DEF row
<1>10. \A i \in 1 .. n : row[i] = Row(rows, sm, row, i)
  BY <1>9
<1> DEFINE T == {i \in 0 .. n : i = 0 \/ row[i] \in Rows}
<1>11. \A i \in 0 .. n - 1 : i \in T => i + 1 \in T
  <2> SUFFICES ASSUME NEW i \in 0 .. n - 1, i \in T
               PROVE  row[i + 1] \in Rows
    OBVIOUS
  <2>1. i + 1 \in Nat \ {0} /\ i + 1 \in 1 .. n /\ (i + 1 > 2 => row[(i + 1) - 1] \in Rows)
    OBVIOUS
  <2> DEFINE k == i + 1
  <2>2. k \in Nat \ {0} /\ k \in 1 .. n /\ (k > 2 => row[k - 1] \in Rows)
    BY <2>1
  <2> HIDE DEF k
  <2>3. Row(rows, sm, row, k) \in Rows
    BY <2>2, RowType
  <2> QED  BY <1>10, <2>2, <2>3 DEF k
<1>12. 0 \in T
  OBVIOUS
<1>13. 0 .. n \subseteq T
  <2> HIDE DEF T
  <2> QED  BY <1>11, <1>12, UpTo
<1>14. \A i \in 1 .. n : row[i] \in Rows
  BY <1>13
<1> QED  BY <1>10, <1>14 DEF row

-----------------------------------------------------------------------------
(* The cars, the windows and the order are of the right kinds *)

CarOK(d, c) ==
  /\ c.driverNum = d /\ d \in Int /\ c.pos \in Int
  /\ c.lap \in Ms /\ c.gapMs \in Ms /\ c.intMs \in Ms

CarsOK(cs) == IsFiniteSet(DOMAIN cs) /\ \A d \in DOMAIN cs : CarOK(d, cs[d])

SmoothOK(sm) ==
  \A d \in DOMAIN sm : /\ sm[d].gaps \in Seq(Int) /\ sm[d].ints \in Seq(Int)
                       /\ sm[d].shownGap \in Ms /\ sm[d].shownInt \in Ms

GapInv ==
  /\ CarsOK(cars) /\ SmoothOK(smoothingRef) /\ SmoothOK(smoothing)
  /\ heldOrder \in Seq(Int) \cup {Nil}

LEMMA SettleType ==
  ASSUME NEW xs \in Seq(Int), NEW shown \in Ms
  PROVE  settle(xs, shown) \in Ms
  BY MedianType DEF settle, Ms

LEMMA PushType ==
  ASSUME NEW xs \in Seq(Int), NEW v \in Ms
  PROVE  pushCapped(xs, v) \in Seq(Int)
  BY CappedKeeps, WindowAssumption DEF pushCapped, Ms

LEMMA SmoothStays ==
  ASSUME NEW old, SmoothOK(old), NEW cs, CarsOK(cs)
  PROVE  SmoothOK(updateGapSmoothing(old, cs))
<1> DEFINE sm == updateGapSmoothing(old, cs)
           cur(d) == IF d \in DOMAIN old THEN old[d] ELSE NoSamples
           reports(d) == d \in DOMAIN cs /\ (cs[d].gapMs # Nil \/ cs[d].intMs # Nil)
           gaps(d) == pushCapped(cur(d).gaps, cs[d].gapMs)
           ints(d) == pushCapped(cur(d).ints, cs[d].intMs)
<1>1. \A d : d \in DOMAIN sm => reports(d) \/ (d \in DOMAIN old /\ ~reports(d))
  BY DEF updateGapSmoothing
<1>2. \A d \in DOMAIN sm :
        /\ reports(d) => sm[d] = [gaps |-> gaps(d), ints |-> ints(d),
                                  shownGap |-> settle(gaps(d), cur(d).shownGap),
                                  shownInt |-> settle(ints(d), cur(d).shownInt)]
        /\ ~reports(d) => sm[d] = old[d]
  BY DEF updateGapSmoothing
<1>3. \A d : /\ cur(d).gaps \in Seq(Int) /\ cur(d).ints \in Seq(Int)
             /\ cur(d).shownGap \in Ms /\ cur(d).shownInt \in Ms
  BY DEF SmoothOK, NoSamples, Ms
<1>4. \A d : reports(d) => cs[d].gapMs \in Ms /\ cs[d].intMs \in Ms
  BY DEF CarsOK, CarOK
<1> SUFFICES ASSUME NEW d \in DOMAIN sm
             PROVE  /\ sm[d].gaps \in Seq(Int) /\ sm[d].ints \in Seq(Int)
                    /\ sm[d].shownGap \in Ms /\ sm[d].shownInt \in Ms
  BY DEF SmoothOK
<1>5. CASE reports(d)
  <2> DEFINE g == gaps(d)
             n == ints(d)
             sg == cur(d).shownGap
             si == cur(d).shownInt
  <2>1. sm[d] = [gaps |-> g, ints |-> n, shownGap |-> settle(g, sg), shownInt |-> settle(n, si)]
    BY <1>2, <1>5
  <2>2. sg \in Ms /\ si \in Ms
    BY <1>3
  <2>3. g \in Seq(Int) /\ n \in Seq(Int)
    <3> HIDE DEF cur, reports
    <3> QED  BY <1>3, <1>4, <1>5, PushType
  <2> HIDE DEF g, n, sg, si
  <2>4. settle(g, sg) \in Ms /\ settle(n, si) \in Ms
    BY <2>2, <2>3, SettleType
  <2> QED  BY <2>1, <2>3, <2>4
<1>6. CASE ~reports(d)
  <2>1. d \in DOMAIN old /\ sm[d] = old[d]
    BY <1>1, <1>2, <1>6
  <2> HIDE DEF sm
  <2> QED  BY <2>1 DEF SmoothOK
<1> QED  BY <1>5, <1>6

\* No two cars are before each other, and of two one is.
LEMMA LiveFacts ==
  ASSUME CarsOK(cars)
  PROVE  /\ live \in Seq(Range(cars)) /\ Numbers(live) \in Seq(Int)
         /\ \A c \in Range(cars) : CarOK(c.driverNum, c)
<1> DEFINE S == Range(cars)
           before == {p \in Pairs(cars) : byRunningOrder(p[1], p[2])}
<1>1. \A c \in S : CarOK(c.driverNum, c)
  BY DEF CarsOK, CarOK, Range
<1>2. \A c, e \in S : c.driverNum = e.driverNum => c = e
  BY DEF CarsOK, CarOK, Range
<1>3. IsFiniteSet(S)
  <2>1. IsFiniteSet(DOMAIN cars)
    BY DEF CarsOK
  <2>2. [d \in DOMAIN cars |-> cars[d]] \in Surjection(DOMAIN cars, S)
    BY DEF Surjection, Range
  <2> QED  BY <2>1, <2>2, FS_Surjection
<1>4. live = Sorted(S, before)
  BY DEF live, orderCars
<1>5. \A c, e \in S : <<c, e>> \in before <=> byRunningOrder(c, e)
  BY DEF Pairs
<1> HIDE DEF S, before
<1>6. \A c \in S : c.driverNum \in Int /\ c.pos \in Int /\ Or(c.lap, 0) \in Int
  BY <1>1 DEF CarOK, Or, Ms
<1>7. Orders(before, S)
  BY <1>2, <1>5, <1>6 DEF Orders, byRunningOrder
<1>8. live \in Bijection(1 .. Cardinality(S), S) /\ Cardinality(S) \in Nat
  BY <1>3, <1>4, <1>7, SortedFacts, FS_CardinalityType
<1>9. live \in [1 .. Cardinality(S) -> S]
  BY <1>8 DEF Bijection, Injection
<1>10. live \in Seq(S)
  BY <1>8, <1>9
<1>11. Numbers(live) \in Seq(Int)
  <2> DEFINE rows == live
  <2>1. Len(rows) \in Nat /\ DOMAIN rows = 1 .. Len(rows)
        /\ \A i \in 1 .. Len(rows) : rows[i] \in S
    BY <1>10
  <2> HIDE DEF rows
  <2>2. \A i \in 1 .. Len(rows) : rows[i].driverNum \in Int
    BY <1>6, <2>1
  <2>3. Numbers(rows) \in Seq(Int)
    BY <2>1, <2>2 DEF Numbers
  <2> QED  BY <2>3 DEF rows
<1> QED  BY <1>1, <1>10, <1>11 DEF S

LEMMA HeldFacts ==
  ASSUME NEW T, NEW rows \in Seq(T), NEW held \in Seq(Int)
  PROVE  holdOrder(rows, held) \in Seq(T)
<1> DEFINE I == DOMAIN rows
           key == [i \in I |-> Ranked(rows[i], held)]
<1>1. I = 1 .. Len(rows) /\ Len(rows) \in Nat /\ \A i \in I : rows[i] \in T
  OBVIOUS
<1>2. I \in SUBSET Int /\ IsFiniteSet(I)
  BY <1>1, FS_Interval
<1>3. \A row : Ranked(row, held) \in Int
  <2> SUFFICES ASSUME NEW row
               PROVE  Ranked(row, held) \in Int
    OBVIOUS
  <2>1. Len(held) \in Nat /\ DOMAIN held = 1 .. Len(held)
    OBVIOUS
  <2>2. CASE row.driverNum \in Range(held)
    <3>1. \E i \in DOMAIN held : held[i] = row.driverNum
      BY <2>2 DEF Range
    <3> QED  BY <2>1, <2>2, <3>1 DEF Ranked
  <2>3. CASE row.driverNum \notin Range(held)
    BY <2>1, <2>3 DEF Ranked
  <2> QED  BY <2>2, <2>3
<1>4. key \in [I -> Int]
  BY <1>3
<1>5. holdOrder(rows, held) = StableSort(rows, key)
  BY DEF holdOrder
<1> HIDE DEF I, key
<1>6. StableSort(rows, key) \in Seq(T)
  BY <1>1, <1>2, <1>4, StableSortType
<1> QED  BY <1>5, <1>6

LEMMA OrderFacts ==
  ASSUME GapInv
  PROVE  order \in Seq(Range(cars))
<1>1. live \in Seq(Range(cars))
  BY LiveFacts DEF GapInv
<1>2. CASE heldOrder = Nil
  BY <1>1, <1>2 DEF order
<1>3. CASE heldOrder # Nil
  <2>1. heldOrder \in Seq(Int)
    BY <1>3 DEF GapInv
  <2> QED  BY <1>1, <1>3, <2>1, HeldFacts DEF order
<1> QED  BY <1>2, <1>3

-----------------------------------------------------------------------------
\* A cell with a time prints the row's gap, or its interval.
LEMMA CellFacts ==
  ASSUME NEW rows, NEW gaps, NEW i \in Nat, i > 1, NEW seconds
  PROVE  /\ GapCell(rows, gaps, i, seconds)[1] = "TIME" =>
              /\ gaps[i].gapMs # Nil
              /\ GapCell(rows, gaps, i, seconds)[2] = gaps[i].gapMs
         /\ IntCell(rows, gaps, i, seconds)[1] = "TIME" =>
              IntCell(rows, gaps, i, seconds)[2] = gaps[i].intMs
<1> DEFINE c == rows[i]
           gapMs == gaps[i].gapMs
           intMs == gaps[i].intMs
           gap == GapCell(rows, gaps, i, seconds)
           int == IntCell(rows, gaps, i, seconds)
           Word(cell) == cell[1] # "TIME"
<1>1. /\ Word(Dash) /\ Word(<<"IN PIT">>) /\ Word(<<"OUT">>) /\ Word(<<"NO DATA">>)
      /\ \A x : Word(<<"LAPS", x>>)
  BY DEF Dash
<1>2. \A s : statusLabel(s) \in {<<"IN PIT">>, <<"OUT">>, Dash}
  BY Zenon DEF statusLabel
<1>3. \A ms : fmt(seconds, ms) = Dash \/ (ms # Nil /\ fmt(seconds, ms) = <<"TIME", ms>>)
  BY DEF fmt, fmtLongGap, fmtGapEstimate
<1>4. \A l, a, ll, al : LET x == intLabel(l, a, intMs, FALSE, seconds, ll, al)
                        IN  Word(x) \/ x = fmt(seconds, intMs)
  BY <1>1 DEF intLabel
<1>5. \A l, ll : LET x == gapLabel(gapMs, l, FALSE, seconds, ll)
                 IN  Word(x) \/ x = fmt(seconds, gapMs)
  BY <1>1 DEF gapLabel
<1>6. (i = 1) = FALSE
  OBVIOUS
<1>7. Word(gap) \/ gap = fmt(seconds, gapMs)
  <2>1. \/ gap = statusLabel(c.status)
        \/ gap = <<"NO DATA">>
        \/ gap = gapLabel(gapMs, c.gapLaps, FALSE, seconds, c.lastLapMs)
    BY <1>6 DEF GapCell
  <2>2. Word(statusLabel(c.status))
    BY <1>1, <1>2
  <2> HIDE DEF gap, gapMs, Word
  <2> QED  BY <1>1, <1>5, <2>1, <2>2
<1>8. Word(int) \/ int = fmt(seconds, intMs)
  <2>1. \/ int = Dash
        \/ int = intLabel(c.gapLaps, rows[i - 1].gapLaps, intMs,
                          FALSE, seconds, c.lastLapMs, rows[i - 1].lastLapMs)
    BY DEF IntCell
  <2> HIDE DEF int, intMs, Word
  <2> QED  BY <1>1, <1>4, <2>1
<1> HIDE DEF gap, int, gapMs, intMs
<1>9. \A ms : fmt(seconds, ms)[1] = "TIME" => ms # Nil /\ fmt(seconds, ms)[2] = ms
  <2> SUFFICES ASSUME NEW ms, fmt(seconds, ms)[1] = "TIME"
               PROVE  ms # Nil /\ fmt(seconds, ms)[2] = ms
    OBVIOUS
  <2>1. ms # Nil /\ fmt(seconds, ms) = <<"TIME", ms>>
    BY <1>1, <1>3
  <2> QED  BY <2>1
<1>10. /\ gap[1] = "TIME" => gapMs # Nil /\ gap[2] = gapMs
       /\ int[1] = "TIME" => int[2] = intMs
  BY <1>7, <1>8, <1>9
<1> QED  BY <1>10 DEF gap, int, gapMs, intMs

LEMMA GapInvHolds == TowerSpec => []GapInv
<1>1. TowerInit => GapInv
  BY FS_EmptySet DEF TowerInit, GapInv, CarsOK, SmoothOK
<1>2. CarsInv /\ GapInv /\ [TowerNext]_towerVars => GapInv'
  <2> SUFFICES ASSUME CarsInv, GapInv, [TowerNext]_towerVars
               PROVE  GapInv'
    OBVIOUS
  <2>1. heldOrder' \in Seq(Int) \cup {Nil}
    <3>1. heldOrder' \in {heldOrder, Nil, Numbers(live)}
      BY DEF TowerNext, Frame, Wrap, Snapshot, Reconnect, ScrubBack, Receive, PointerEnter, PointerLeave,
             Select, towerVars
    <3> QED  BY <3>1, LiveFacts DEF GapInv
  <2>2. CASE Quiet
    BY <2>1, <2>2 DEF Quiet, raceVars, foldVars, GapInv
  <2>3. CASE Brought(session', cars')
    <3>1. CarsOK(cars')
      <4>1. session' \in Sessions /\ FromFeed(session', cars')
        BY <2>3 DEF Brought
      <4>2. \A f \in Feed[session'] : \A d \in DOMAIN f : CarOK(d, f[d])
        BY <4>1, FeedAssumption DEF CarOK, Ms
      <4> QED  BY <4>1, <4>2 DEF FromFeed, CarsOK
    <3> DEFINE old == IF NewPass THEN <<>> ELSE smoothingRef
    <3>2. /\ smoothingRef' = updateGapSmoothing(old, cars')
          /\ smoothing' \in {smoothing, smoothingRef'}
      BY <2>3 DEF Brought, Receive, TowerEffect
    <3>3. SmoothOK(old)
      BY DEF GapInv, SmoothOK
    <3> HIDE DEF old
    <3>4. SmoothOK(smoothingRef') /\ SmoothOK(smoothing')
      BY <3>1, <3>2, <3>3, SmoothStays DEF GapInv
    <3> QED  BY <2>1, <3>1, <3>4 DEF GapInv
  <2> QED  BY <2>2, <2>3, TowerSteps
<1> QED  BY <1>1, <1>2, CarsHold, PTL DEF TowerSpec

\* The gap and interval columns agree with each other, whatever the estimator says,
\* in a held order too (displayGaps of timingHelpers.ts, TimingTower.tsx).
THEOREM Columns == TowerSpec => []ColumnsAgree
<1>1. GapInv => ColumnsAgree
  <2> DEFINE rows == order
             gaps == displayGaps(rows, smoothing)
             n == Len(rows)
  <2> SUFFICES ASSUME GapInv, NEW seconds \in BOOLEAN, NEW i \in 3 .. n,
                      GapCell(rows, gaps, i - 1, seconds)[1] = "TIME",
                      GapCell(rows, gaps, i, seconds)[1] = "TIME"
               PROVE  LET ahead == GapCell(rows, gaps, i - 1, seconds)
                          own   == GapCell(rows, gaps, i, seconds)
                          int   == IntCell(rows, gaps, i, seconds)
                      IN  /\ own[2] >= ahead[2]
                          /\ int[1] = "TIME" => int[2] = own[2] - ahead[2]
    BY DEF ColumnsAgree
  <2>1. n \in Nat /\ DOMAIN rows = 1 .. n /\ \A k \in 1 .. n : rows[k] \in Range(cars)
    BY OrderFacts
  <2>2. \A k \in 1 .. n : /\ RawGaps(rows[k], smoothing)[1] \in Ms
                          /\ RawGaps(rows[k], smoothing)[2] \in Ms
    <3> HIDE DEF rows, n
    <3>1. \A k \in 1 .. n : CarOK(rows[k].driverNum, rows[k])
      BY <2>1, LiveFacts DEF GapInv
    <3> QED  BY <3>1 DEF GapInv, SmoothOK, RawGaps, CarOK
  <2> HIDE DEF rows, n
  <2>3. \A k \in 1 .. n : gaps[k] \in Rows /\ gaps[k] = Row(rows, smoothing, gaps, k)
    BY <2>1, <2>2, RowByRow
  <2> HIDE DEF gaps
  <2>4. i - 1 \in 1 .. n /\ i \in 1 .. n /\ i \in Nat /\ i > 1 /\ i - 1 \in Nat /\ i - 1 > 1
        /\ i # 1 /\ i # 2
    BY <2>1
  <2> DEFINE raw == RawGaps(rows[i], smoothing)[1]
             prevGap == gaps[i - 1].gapMs
             gap == Max({raw, prevGap})
  <2>5. /\ gaps[i].gapMs # Nil /\ GapCell(rows, gaps, i, seconds)[2] = gaps[i].gapMs
        /\ IntCell(rows, gaps, i, seconds)[1] = "TIME" =>
             IntCell(rows, gaps, i, seconds)[2] = gaps[i].intMs
    BY <2>4, CellFacts
  <2>6. prevGap # Nil /\ GapCell(rows, gaps, i - 1, seconds)[2] = prevGap
    BY <2>4, CellFacts
  <2>7. prevGap \in Int
    BY <2>3, <2>4, <2>6 DEF Rows, Ms
  <2>8. raw # Nil
    <3>1. ASSUME raw = Nil
          PROVE  gaps[i] = [gapMs |-> Nil, intMs |-> RawGaps(rows[i], smoothing)[2]]
      <4>1. gaps[i] = Row(rows, smoothing, gaps, i)
        BY <2>3, <2>4
      <4> QED  BY <2>4, <3>1, <4>1, Zenon DEF Row
    <3> QED  BY <2>5, <3>1
  <2>9. gaps[i] = [gapMs |-> gap, intMs |-> gap - prevGap]
    <3>1. gaps[i] = Row(rows, smoothing, gaps, i)
      BY <2>3, <2>4
    <3> QED  BY <2>4, <2>6, <2>8, <3>1, Zenon DEF Row
  <2>10. raw \in Int
    BY <2>2, <2>4, <2>8 DEF Ms
  <2> HIDE DEF raw, prevGap
  <2>11. gap \in Int /\ gap >= prevGap
    BY <2>7, <2>10, GreaterOf
  <2> HIDE DEF gap
  <2>12. gaps[i].gapMs = gap /\ gaps[i].intMs = gap - prevGap
    BY <2>9
  <2> QED  BY <2>5, <2>6, <2>11, <2>12
<1> QED  BY <1>1, GapInvHolds, PTL
=============================================================================
