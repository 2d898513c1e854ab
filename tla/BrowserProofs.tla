---------------------------- MODULE BrowserProofs ----------------------------
(***************************************************************************)
(* What a browser's board shows, fed by a hub (Hub: any lanes, frames,     *)
(* resets, connections, buffer and browsers) and, in the static demo, by a *)
(* player (DemoBoard: any baked clip, pauses, scrubs and laps).            *)
(***************************************************************************)
EXTENDS Hub, DemoBoard, RaceModelProofs, SequenceTheorems

-----------------------------------------------------------------------------
(* A queue of envelopes that never shows a board the hub did not have *)

Had(seen, boards) == seen.snapshotSeq > 0 => Shown(seen) \in boards

Honest(seen, q, boards) ==
  \A p, r \in Seq(Envelopes) : q = p \o r => Had(Received(seen, p), boards)

\* Queues of envelopes: grouping, and the last entry.
LEMMA Regroup ==
  \A p, q, r \in Seq(Envelopes) : p \o q \in Seq(Envelopes) /\ (p \o q) \o r = p \o (q \o r)
<1> SUFFICES ASSUME NEW p \in Seq(Envelopes), NEW q \in Seq(Envelopes), NEW r \in Seq(Envelopes)
             PROVE  p \o q \in Seq(Envelopes) /\ (p \o q) \o r = p \o (q \o r)
  OBVIOUS
<1>1. (p \o q) \o r = p \o (q \o r)
  OBVIOUS
<1> QED
  BY <1>1

LEMMA LastEntry ==
  /\ \A q \in Seq(Envelopes), m \in Envelopes :
       <<m>> \in Seq(Envelopes) /\ Append(q, m) = q \o <<m>>
  /\ \A p, q \in Seq(Envelopes), l, m \in Envelopes : Append(p, l) = Append(q, m) => p = q
<1>1. ASSUME NEW q \in Seq(Envelopes), NEW m \in Envelopes
      PROVE  <<m>> \in Seq(Envelopes) /\ Append(q, m) = q \o <<m>>
  OBVIOUS
<1>2. ASSUME NEW p \in Seq(Envelopes), NEW q \in Seq(Envelopes), NEW l \in Envelopes,
             NEW m \in Envelopes, Append(p, l) = Append(q, m)
      PROVE  p = q
  BY <1>2, AppendInjective
<1> QED
  BY <1>1, <1>2

LEMMA ReceivedType ==
  ASSUME NEW seen \in RaceStates, NEW q \in Seq(Envelopes)
  PROVE  Received(seen, q) \in RaceStates
  BY ReceivedFacts

LEMMA HonestNow ==
  ASSUME NEW seen \in RaceStates, NEW q \in Seq(Envelopes), NEW boards, Honest(seen, q, boards)
  PROVE  Had(seen, boards)
<1>1. q = <<>> \o q /\ <<>> \in Seq(Envelopes)
  OBVIOUS
<1>2. Had(Received(seen, <<>>), boards)
  BY <1>1 DEF Honest
<1> QED
  BY <1>2, ReceivedFacts

LEMMA HonestEmpty ==
  ASSUME NEW seen \in RaceStates, NEW boards, Had(seen, boards)
  PROVE  Honest(seen, <<>>, boards)
<1> SUFFICES ASSUME NEW p \in Seq(Envelopes), NEW r \in Seq(Envelopes), <<>> = p \o r
             PROVE  Had(Received(seen, p), boards)
  BY DEF Honest
<1>1. p = <<>>
  <2>1. Len(p) + Len(r) = 0
    OBVIOUS
  <2> QED BY <2>1
<1> QED
  BY <1>1, ReceivedFacts

LEMMA HonestPrefix ==
  ASSUME NEW seen \in RaceStates, NEW q \in Seq(Envelopes), NEW rest \in Seq(Envelopes),
         NEW boards, Honest(seen, q \o rest, boards)
  PROVE  Honest(seen, q, boards)
<1> SUFFICES ASSUME NEW p \in Seq(Envelopes), NEW r \in Seq(Envelopes), q = p \o r
             PROVE  Had(Received(seen, p), boards)
  BY DEF Honest
<1>1. q \o rest = p \o (r \o rest) /\ r \o rest \in Seq(Envelopes)
  OBVIOUS
<1> QED
  BY <1>1 DEF Honest

LEMMA HonestTail ==
  ASSUME NEW seen \in RaceStates, NEW q \in Seq(Envelopes), q # <<>>, NEW boards,
         Honest(seen, q, boards)
  PROVE  Honest(ApplyMessage(seen, Head(q)), Tail(q), boards)
<1> DEFINE m == Head(q)
<1>1. m \in Envelopes /\ <<m>> \in Seq(Envelopes) /\ q = <<m>> \o Tail(q)
  OBVIOUS
<1> HIDE DEF m
<1>2. \A p, r \in Seq(Envelopes) : (<<m>> \o p) \o r = <<m>> \o (p \o r)
  BY <1>1, Regroup
<1> SUFFICES ASSUME NEW p \in Seq(Envelopes), NEW r \in Seq(Envelopes), Tail(q) = p \o r
             PROVE  Had(Received(ApplyMessage(seen, m), p), boards)
  BY DEF Honest, m
<1>3. q = (<<m>> \o p) \o r /\ <<m>> \o p \in Seq(Envelopes)
  <2>1. (<<m>> \o p) \o r = <<m>> \o (p \o r)
    BY <1>2
  <2>2. q = <<m>> \o (p \o r)
    BY <1>1
  <2>3. <<m>> \o p \in Seq(Envelopes)
    BY <1>1, ConcatProperties
  <2> QED BY <2>1, <2>2, <2>3
<1>4. Had(Received(seen, <<m>> \o p), boards)
  BY <1>3 DEF Honest
<1>5. Received(seen, <<m>> \o p) = Received(Received(seen, <<m>>), p)
  <2>1. \A x, y \in Seq(Envelopes) : Received(seen, x \o y) = Received(Received(seen, x), y)
    BY ReceivedFacts, Zenon
  <2> QED BY <2>1, <1>1, Zenon
<1>6. Received(seen, <<m>>) = ApplyMessage(seen, m)
  <2>1. \A x \in Envelopes : Received(seen, <<x>>) = ApplyMessage(seen, x)
    BY ReceivedFacts, Zenon
  <2> QED BY <2>1, <1>1, Zenon
<1> QED
  BY <1>4, <1>5, <1>6

LEMMA HonestAppend ==
  ASSUME NEW seen \in RaceStates, NEW q \in Seq(Envelopes), NEW m \in Envelopes, NEW boards,
         Honest(seen, q, boards), Shown(Received(seen, Append(q, m))) \in boards
  PROVE  Honest(seen, Append(q, m), boards)
<1> SUFFICES ASSUME NEW p \in Seq(Envelopes), NEW r \in Seq(Envelopes), Append(q, m) = p \o r
             PROVE  Had(Received(seen, p), boards)
  BY DEF Honest
<1>1. CASE r = <<>>
  <2>1. p \o <<>> = p
    BY ConcatEmptySeq
  <2>2. p = Append(q, m)
    BY <1>1, <2>1
  <2> QED BY <2>2 DEF Had
<1>2. CASE r # <<>>
  <2>1. PICK front \in Seq(Envelopes), last \in Envelopes : r = Append(front, last)
    BY <1>2, SequenceEmptyOrAppend
  <2>2. /\ Append(front, last) = front \o <<last>> /\ <<last>> \in Seq(Envelopes)
        /\ p \o (front \o <<last>>) = (p \o front) \o <<last>>
        /\ p \o front \in Seq(Envelopes)
    BY LastEntry, Regroup, SMTT(30)
  <2>3. (p \o front) \o <<last>> = Append(p \o front, last)
    BY <2>2, LastEntry, Zenon
  <2>4. Append(q, m) = Append(p \o front, last)
    BY <2>1, <2>2, <2>3
  <2>5. q = p \o front
    <3>1. \A x \in Seq(Envelopes) : Append(q, m) = Append(x, last) => q = x
      BY LastEntry
    <3> QED BY <2>2, <2>4, <3>1, Zenon
  <2> QED BY <2>5 DEF Honest
<1> QED
  BY <1>1, <1>2

LEMMA HonestMore ==
  ASSUME NEW seen, NEW q, NEW boards, NEW more, Honest(seen, q, boards), boards \subseteq more
  PROVE  Honest(seen, q, more)
  BY DEF Honest, Had

-----------------------------------------------------------------------------
(* The life of a connection *)

\* What is on its way through a connection, and the part of it that can still arrive:
\* once the socket is closed at this end or the pump has ended, only what was written.
PendingOf(k) == k.wire \o (IF k.held = Nil THEN <<>> ELSE <<k.held>>) \o k.out
Idle(k) == k.closed = "yes" \/ k.pump = "done"
ChainOf(k) == IF Idle(k) THEN k.wire ELSE PendingOf(k)

Lifecycle(k) ==
  /\ k.reader = "none" => /\ k.pump = "none" /\ k.closed = "no"
                          /\ k.out = <<>> /\ k.wire = <<>>
  /\ k.held # Nil <=> k.pump = "write"
  /\ k.closed = "no" => k.pump # "done"
  /\ k.reader = "done" => k.closed = "yes"

ConnInv == \A c \in Conns : conn[c] # Nil => Lifecycle(conn[c])

\* A connection that is registered, or about to be closed as stale, is open here.
SetInv == \A c \in closing \cup clients : conn[c] # Nil /\ conn[c].reader # "none"

\* A browser has its connection to itself.
AttachInv ==
  /\ \A b \in Browsers :
       browser[b].conn # Nil => conn[browser[b].conn] # Nil /\ conn[browser[b].conn].peer
  /\ \A a, b \in Browsers :
       browser[a].conn = browser[b].conn /\ browser[a].conn # Nil => a = b

IInv == TypeOK /\ ConnInv /\ SetInv /\ AttachInv

LEMMA ChainType ==
  ASSUME NEW k \in Connections
  PROVE  PendingOf(k) \in Seq(Envelopes) /\ ChainOf(k) \in Seq(Envelopes)
<1>1. k.wire \in Seq(Envelopes) /\ k.out \in Seq(Envelopes) /\ k.held \in Envelopes \cup {Nil}
  BY DEF Connections
<1>2. (IF k.held = Nil THEN <<>> ELSE <<k.held>>) \in Seq(Envelopes)
  BY <1>1
<1>3. PendingOf(k) \in Seq(Envelopes)
  BY <1>1, <1>2 DEF PendingOf
<1> QED
  BY <1>1, <1>3 DEF ChainOf

\* What can still arrive after k has become r is the beginning of what could before.
Shortens(k, r) == \E rest \in Seq(Envelopes) : ChainOf(k) = ChainOf(r) \o rest

LEMMA SameShortens ==
  ASSUME NEW k \in Connections, NEW r, ChainOf(r) = ChainOf(k)
  PROVE  Shortens(k, r)
<1>1. ChainOf(k) \o <<>> = ChainOf(k) /\ <<>> \in Seq(Envelopes)
  BY ChainType
<1> QED
  BY <1>1 DEF Shortens

LEMMA IdleShortens ==
  ASSUME NEW k \in Connections, NEW r, Idle(r), r.wire = k.wire
  PROVE  Shortens(k, r)
<1>1. CASE Idle(k)
  BY <1>1, SameShortens DEF ChainOf
<1>2. CASE ~Idle(k)
  <2> DEFINE held == IF k.held = Nil THEN <<>> ELSE <<k.held>>
  <2>1. k.wire \in Seq(Envelopes) /\ held \in Seq(Envelopes) /\ k.out \in Seq(Envelopes)
    BY DEF Connections
  <2>2. ChainOf(k) = k.wire \o held \o k.out
    BY <1>2 DEF ChainOf, PendingOf
  <2>3. ChainOf(r) = k.wire
    BY DEF ChainOf
  <2> HIDE DEF held
  <2>4. (k.wire \o held) \o k.out = k.wire \o (held \o k.out) /\ held \o k.out \in Seq(Envelopes)
    BY <2>1, Regroup, ZenonT(60)
  <2> QED BY <2>2, <2>3, <2>4 DEF Shortens
<1> QED
  BY <1>1, <1>2

\* A step of one connection's goroutines, which never adds to what can arrive.
QuietStep(c, r) ==
  /\ conn[c] # Nil /\ r \in Connections /\ Lifecycle(r) /\ Len(r.out) <= SendBuffer
  /\ r.peer = conn[c].peer /\ (r.reader = "none" => conn[c].reader = "none")
  /\ conn' = [conn EXCEPT ![c] = r]
  /\ UNCHANGED <<snapshot, past, ops, browser>>
  /\ clients' \subseteq clients /\ closing' \subseteq closing
  /\ \A d \in clients' \ closing' : d \in clients \ closing \/ (d = c /\ Idle(r))
  /\ r.peer => /\ Shortens(conn[c], r)
               /\ ~Idle(r) => ~Idle(conn[c]) /\ PendingOf(r) = PendingOf(conn[c])

LEMMA QuietKeeps ==
  ASSUME IInv, NEW c \in Conns, NEW r, QuietStep(c, r)
  PROVE  IInv'
<1> USE DEF IInv, QuietStep
<1>1. /\ conn' \in [Conns -> Connections \cup {Nil}]
      /\ conn'[c] = r /\ \A d \in Conns \ {c} : conn'[d] = conn[d]
  BY DEF TypeOK
<1>2. TypeOK'
  BY <1>1 DEF TypeOK
<1>3. ConnInv'
  BY <1>1 DEF ConnInv
<1>4. r # Nil
  BY NilRecordAssumption
<1>5. SetInv'
  BY <1>1, <1>4 DEF SetInv, TypeOK
<1>6. AttachInv'
  BY <1>1, <1>4 DEF AttachInv, TypeOK
<1> QED
  BY <1>2, <1>3, <1>5, <1>6

LEMMA ConnFacts ==
  ASSUME IInv, NEW c \in Conns, conn[c] # Nil
  PROVE  /\ conn[c] \in Connections /\ Lifecycle(conn[c]) /\ Len(conn[c].out) <= SendBuffer
         /\ c \in closing \cup clients => conn[c].reader # "none"
  BY DEF IInv, TypeOK, ConnInv, SetInv

LEMMA CloseStaleQuiet ==
  ASSUME IInv, NEW c \in Conns, CloseStale(c)
  PROVE  \E r \in Connections : QuietStep(c, r)
<1> DEFINE k == conn[c]
<1>1. k # Nil /\ c \in closing
  BY DEF CloseStale, IInv, SetInv
<1>2. k \in Connections /\ Lifecycle(k) /\ Len(k.out) <= SendBuffer /\ k.reader # "none"
  BY <1>1, ConnFacts
<1>3. conn \in [Conns -> Connections \cup {Nil}] /\ closing \subseteq Conns
  BY DEF IInv, TypeOK
<1>4. CASE k.closed = "yes"
  <2>1. conn' = conn /\ closing' = closing \ {c} /\ UNCHANGED <<snapshot, past, clients, ops, browser>>
    BY <1>4 DEF CloseStale
  <2>2. conn' = [conn EXCEPT ![c] = k]
    BY <1>3, <2>1
  <2>3. Shortens(k, k)
    BY <1>2, SameShortens
  <2>4. Idle(k)
    BY <1>4 DEF Idle
  <2> HIDE DEF k
  <2>5. QuietStep(c, k)
    BY <1>1, <1>2, <2>1, <2>2, <2>3, <2>4 DEF QuietStep, k
  <2> QED BY <1>2, <2>5
<1>5. CASE k.closed # "yes"
  <2> DEFINE r == [k EXCEPT !.closed = "signalled"]
  <2>1. /\ k.closed = "no" /\ closing' = closing
        /\ conn' = [conn EXCEPT ![c] = r] /\ UNCHANGED <<snapshot, past, clients, ops, browser>>
    BY <1>5 DEF CloseStale, Signal
  <2>2. /\ r \in Connections /\ r.out = k.out /\ r.wire = k.wire /\ r.held = k.held
        /\ r.pump = k.pump /\ r.reader = k.reader /\ r.peer = k.peer /\ r.closed = "signalled"
    <3> HIDE DEF k
    <3> QED BY <1>2 DEF Connections
  <2> HIDE DEF k, r
  <2>3. Lifecycle(r)
    BY <1>2, <2>1, <2>2 DEF Lifecycle
  <2>4. PendingOf(r) = PendingOf(k) /\ (Idle(r) <=> Idle(k)) /\ ChainOf(r) = ChainOf(k)
    BY <2>1, <2>2 DEF PendingOf, Idle, ChainOf
  <2>5. Shortens(k, r)
    BY <1>2, <2>4, SameShortens
  <2>6. QuietStep(c, r)
    BY <1>1, <1>2, <2>1, <2>2, <2>3, <2>4, <2>5 DEF QuietStep, k
  <2> QED BY <2>2, <2>6
<1> QED
  BY <1>4, <1>5

LEMMA CloseSocketQuiet ==
  ASSUME IInv, NEW c \in Conns, CloseSocket(c)
  PROVE  \E r \in Connections : QuietStep(c, r)
<1> DEFINE k == conn[c]
           r == [k EXCEPT !.closed = "yes"]
<1>1. /\ k # Nil /\ k.closed = "signalled" /\ conn' = [conn EXCEPT ![c] = r]
      /\ UNCHANGED <<snapshot, past, clients, closing, ops, browser>>
  BY DEF CloseSocket
<1>2. k \in Connections /\ Lifecycle(k) /\ Len(k.out) <= SendBuffer
  BY <1>1, ConnFacts
<1> HIDE DEF k
<1>3. /\ r \in Connections /\ r.out = k.out /\ r.wire = k.wire /\ r.held = k.held
      /\ r.pump = k.pump /\ r.reader = k.reader /\ r.peer = k.peer /\ r.closed = "yes"
  BY <1>2 DEF Connections
<1> HIDE DEF r
<1>4. Lifecycle(r) /\ Idle(r)
  BY <1>1, <1>2, <1>3 DEF Lifecycle, Idle
<1>5. Shortens(k, r)
  BY <1>2, <1>3, <1>4, IdleShortens
<1>6. QuietStep(c, r)
  BY <1>1, <1>2, <1>3, <1>4, <1>5 DEF QuietStep, k
<1> QED
  BY <1>3, <1>6

LEMMA ReadFailsQuiet ==
  ASSUME IInv, NEW c \in Conns, ReadFails(c)
  PROVE  \E r \in Connections : QuietStep(c, r)
<1> DEFINE k == conn[c]
           r == [k EXCEPT !.reader = "closing", !.closed = Signal(c)]
<1>1. /\ k # Nil /\ k.reader = "reading" /\ conn' = [conn EXCEPT ![c] = r]
      /\ UNCHANGED <<snapshot, past, clients, closing, ops, browser>>
  BY DEF ReadFails
<1>2. k \in Connections /\ Lifecycle(k) /\ Len(k.out) <= SendBuffer
  BY <1>1, ConnFacts
<1>3. Signal(c) = IF k.closed = "no" THEN "signalled" ELSE k.closed
  BY DEF Signal
<1> HIDE DEF k
<1>4. /\ r \in Connections /\ r.out = k.out /\ r.wire = k.wire /\ r.held = k.held
      /\ r.pump = k.pump /\ r.reader = "closing" /\ r.peer = k.peer
      /\ r.closed = IF k.closed = "no" THEN "signalled" ELSE k.closed
  BY <1>2, <1>3 DEF Connections
<1> HIDE DEF r
<1>5. Lifecycle(r)
  BY <1>1, <1>2, <1>4 DEF Lifecycle
<1>6. PendingOf(r) = PendingOf(k) /\ (Idle(r) <=> Idle(k)) /\ ChainOf(r) = ChainOf(k)
  BY <1>4 DEF PendingOf, Idle, ChainOf
<1>7. Shortens(k, r)
  BY <1>2, <1>6, SameShortens
<1>8. QuietStep(c, r)
  BY <1>1, <1>2, <1>4, <1>5, <1>6, <1>7 DEF QuietStep, k
<1> QED
  BY <1>4, <1>8

LEMMA UnregisterQuiet ==
  ASSUME IInv, NEW c \in Conns, Unregister(c)
  PROVE  \E r \in Connections : QuietStep(c, r)
<1> DEFINE k == conn[c]
           r == [k EXCEPT !.reader = "done"]
<1>1. /\ k # Nil /\ k.closed = "yes" /\ conn' = [conn EXCEPT ![c] = r]
      /\ clients' = clients \ {c} /\ UNCHANGED <<snapshot, past, closing, ops, browser>>
  BY DEF Unregister
<1>2. k \in Connections /\ Lifecycle(k) /\ Len(k.out) <= SendBuffer
  BY <1>1, ConnFacts
<1> HIDE DEF k
<1>3. /\ r \in Connections /\ r.out = k.out /\ r.wire = k.wire /\ r.held = k.held
      /\ r.pump = k.pump /\ r.reader = "done" /\ r.peer = k.peer /\ r.closed = "yes"
  BY <1>1, <1>2 DEF Connections
<1> HIDE DEF r
<1>4. Lifecycle(r) /\ Idle(r)
  BY <1>1, <1>2, <1>3 DEF Lifecycle, Idle
<1>5. Shortens(k, r)
  BY <1>2, <1>3, <1>4, IdleShortens
<1>6. QuietStep(c, r)
  BY <1>1, <1>2, <1>3, <1>4, <1>5 DEF QuietStep, k
<1> QED
  BY <1>3, <1>6

LEMMA PumpTakeQuiet ==
  ASSUME IInv, NEW c \in Conns, PumpTake(c)
  PROVE  \E r \in Connections : QuietStep(c, r)
<1> DEFINE k == conn[c]
           r == [k EXCEPT !.pump = "write", !.held = Head(k.out), !.out = Tail(k.out)]
<1>1. /\ k # Nil /\ k.pump = "select" /\ k.out # <<>>
      /\ UNCHANGED <<snapshot, past, clients, closing, ops, browser>>
  BY DEF PumpTake
<1>2. conn' = [conn EXCEPT ![c] = r]
  BY DEF PumpTake
<1>3. k \in Connections /\ Lifecycle(k) /\ Len(k.out) <= SendBuffer
  BY <1>1, ConnFacts
<1> HIDE DEF k
<1>4. k.out \in Seq(Envelopes) /\ k.wire \in Seq(Envelopes) /\ k.held = Nil
  BY <1>1, <1>3 DEF Connections, Lifecycle
<1>5. /\ Head(k.out) \in Envelopes /\ Tail(k.out) \in Seq(Envelopes)
      /\ Len(Tail(k.out)) <= SendBuffer
      /\ k.out = <<Head(k.out)>> \o Tail(k.out) /\ <<Head(k.out)>> \in Seq(Envelopes)
  BY <1>1, <1>3, <1>4, HubAssumption
<1>6. /\ r \in Connections /\ r.out = Tail(k.out) /\ r.wire = k.wire /\ r.held = Head(k.out)
      /\ r.pump = "write" /\ r.reader = k.reader /\ r.peer = k.peer /\ r.closed = k.closed
  BY <1>3, <1>5 DEF Connections
<1> HIDE DEF r
<1>7. r.held # Nil
  BY <1>5, <1>6, NilRecordAssumption
<1>8. Lifecycle(r)
  BY <1>1, <1>3, <1>6, <1>7 DEF Lifecycle
<1>9. PendingOf(r) = PendingOf(k)
  <2>1. PendingOf(r) = k.wire \o <<Head(k.out)>> \o Tail(k.out)
    BY <1>6, <1>7 DEF PendingOf
  <2>2. PendingOf(k) = k.wire \o <<>> \o k.out
    BY <1>4 DEF PendingOf
  <2>3. k.wire \o <<>> = k.wire
    BY <1>4
  <2>4. k.wire \o <<Head(k.out)>> \o Tail(k.out) = k.wire \o (<<Head(k.out)>> \o Tail(k.out))
    BY <1>4, <1>5, Regroup
  <2> QED BY <1>5, <2>1, <2>2, <2>3, <2>4
<1>10. (Idle(r) <=> Idle(k)) /\ ChainOf(r) = ChainOf(k)
  BY <1>1, <1>6, <1>9 DEF Idle, ChainOf
<1>11. Shortens(k, r)
  BY <1>3, <1>10, SameShortens
<1>12. QuietStep(c, r)
  BY <1>1, <1>2, <1>5, <1>6, <1>8, <1>9, <1>10, <1>11 DEF QuietStep, k
<1> QED
  BY <1>6, <1>12

LEMMA PumpStopQuiet ==
  ASSUME IInv, NEW c \in Conns, PumpStop(c)
  PROVE  \E r \in Connections : QuietStep(c, r)
<1> DEFINE k == conn[c]
           r == [k EXCEPT !.pump = "done"]
<1>1. /\ k # Nil /\ k.pump = "select" /\ (k.closed # "no" \/ k.reader = "done")
      /\ conn' = [conn EXCEPT ![c] = r]
      /\ UNCHANGED <<snapshot, past, clients, closing, ops, browser>>
  BY DEF PumpStop
<1>2. k \in Connections /\ Lifecycle(k) /\ Len(k.out) <= SendBuffer
  BY <1>1, ConnFacts
<1> HIDE DEF k
<1>3. /\ r \in Connections /\ r.out = k.out /\ r.wire = k.wire /\ r.held = k.held
      /\ r.pump = "done" /\ r.reader = k.reader /\ r.peer = k.peer /\ r.closed = k.closed
  BY <1>1, <1>2 DEF Connections
<1> HIDE DEF r
<1>4. Lifecycle(r) /\ Idle(r)
  BY <1>1, <1>2, <1>3 DEF Lifecycle, Idle
<1>5. Shortens(k, r)
  BY <1>2, <1>3, <1>4, IdleShortens
<1>6. QuietStep(c, r)
  BY <1>1, <1>2, <1>3, <1>4, <1>5 DEF QuietStep, k
<1> QED
  BY <1>3, <1>6

LEMMA PumpWriteQuiet ==
  ASSUME IInv, NEW c \in Conns, PumpWrite(c)
  PROVE  \E r \in Connections : QuietStep(c, r)
<1> DEFINE k == conn[c]
           wire == IF k.peer THEN Append(k.wire, k.held) ELSE k.wire
           r == [k EXCEPT !.pump = "select", !.held = Nil, !.wire = wire]
<1>1. /\ k # Nil /\ k.pump = "write" /\ k.closed # "yes"
      /\ UNCHANGED <<snapshot, past, clients, closing, ops, browser>>
  BY DEF PumpWrite
<1>2. conn' = [conn EXCEPT ![c] = r]
  BY DEF PumpWrite
<1>3. k \in Connections /\ Lifecycle(k) /\ Len(k.out) <= SendBuffer
  BY <1>1, ConnFacts
<1> HIDE DEF k
<1>4. k.out \in Seq(Envelopes) /\ k.wire \in Seq(Envelopes) /\ k.held \in Envelopes /\ k.held # Nil
  BY <1>1, <1>3 DEF Connections, Lifecycle
<1>5. wire \in Seq(Envelopes)
  BY <1>4
<1>6. k.peer => wire = k.wire \o <<k.held>>
  BY <1>4
<1> HIDE DEF wire
<1>7. /\ r \in Connections /\ r.out = k.out /\ r.wire = wire /\ r.held = Nil
      /\ r.pump = "select" /\ r.reader = k.reader /\ r.peer = k.peer /\ r.closed = k.closed
  BY <1>3, <1>5 DEF Connections
<1> HIDE DEF r
<1>8. Lifecycle(r)
  BY <1>1, <1>3, <1>7 DEF Lifecycle
<1>9. ~Idle(r) /\ ~Idle(k)
  BY <1>1, <1>7 DEF Idle
<1>10. ASSUME k.peer PROVE PendingOf(r) = PendingOf(k) /\ Shortens(k, r)
  <2>1. PendingOf(r) = wire \o <<>> \o k.out
    BY <1>7 DEF PendingOf
  <2>2. PendingOf(k) = k.wire \o <<k.held>> \o k.out
    BY <1>4 DEF PendingOf
  <2>3. wire \o <<>> = wire
    BY <1>5
  <2>4. PendingOf(r) = PendingOf(k)
    BY <1>6, <1>10, <2>1, <2>2, <2>3
  <2>5. ChainOf(r) = ChainOf(k)
    BY <1>9, <2>4 DEF ChainOf
  <2> QED BY <1>3, <2>4, <2>5, SameShortens
<1>11. QuietStep(c, r)
  BY <1>1, <1>2, <1>3, <1>7, <1>8, <1>9, <1>10 DEF QuietStep, k
<1> QED
  BY <1>7, <1>11

LEMMA PumpFailsQuiet ==
  ASSUME IInv, NEW c \in Conns, PumpFails(c)
  PROVE  \E r \in Connections : QuietStep(c, r)
<1> DEFINE k == conn[c]
           r == [k EXCEPT !.pump = "done", !.held = Nil, !.closed = Signal(c)]
<1>1. /\ k # Nil /\ k.pump = "write" /\ conn' = [conn EXCEPT ![c] = r]
      /\ UNCHANGED <<snapshot, past, clients, closing, ops, browser>>
  BY DEF PumpFails
<1>2. k \in Connections /\ Lifecycle(k) /\ Len(k.out) <= SendBuffer
  BY <1>1, ConnFacts
<1>3. Signal(c) = IF k.closed = "no" THEN "signalled" ELSE k.closed
  BY DEF Signal
<1> HIDE DEF k
<1>4. /\ r \in Connections /\ r.out = k.out /\ r.wire = k.wire /\ r.held = Nil
      /\ r.pump = "done" /\ r.reader = k.reader /\ r.peer = k.peer
      /\ r.closed = IF k.closed = "no" THEN "signalled" ELSE k.closed
  BY <1>2, <1>3 DEF Connections
<1> HIDE DEF r
<1>5. Lifecycle(r) /\ Idle(r)
  BY <1>1, <1>2, <1>4 DEF Lifecycle, Idle
<1>6. Shortens(k, r)
  BY <1>2, <1>4, <1>5, IdleShortens
<1>7. QuietStep(c, r)
  BY <1>1, <1>2, <1>4, <1>5, <1>6 DEF QuietStep, k
<1> QED
  BY <1>4, <1>7

-----------------------------------------------------------------------------
(* What the browsers show *)

BoardInv ==
  \A b \in Browsers :
    IF browser[b].conn = Nil THEN Had(browser[b].state, past)
    ELSE Honest(browser[b].state, ChainOf(conn[browser[b].conn]), past)

\* What a registered client that no broadcast has missed will have shown.
Fed(c, seen) ==
  c \in clients \ closing /\ ~Idle(conn[c]) => Shown(Received(seen, PendingOf(conn[c]))) = snapshot

SyncInv ==
  \A b \in Browsers : browser[b].conn # Nil => Fed(browser[b].conn, browser[b].state)

ShowInv == snapshot \in past /\ BoardInv /\ SyncInv

LEMMA BrowserFacts ==
  ASSUME IInv, NEW b \in Browsers
  PROVE  /\ browser[b].state \in RaceStates /\ browser[b].conn \in Conns \cup {Nil}
         /\ browser[b].conn # Nil => /\ conn[browser[b].conn] \in Connections
                                     /\ conn[browser[b].conn].peer
  BY DEF IInv, TypeOK, AttachInv

LEMMA QuietShows ==
  ASSUME IInv, ShowInv, NEW c \in Conns, NEW r, QuietStep(c, r)
  PROVE  ShowInv'
<1>1. /\ conn[c] \in Connections /\ r \in Connections
      /\ conn'[c] = r /\ \A d \in Conns \ {c} : conn'[d] = conn[d]
  BY DEF IInv, TypeOK, QuietStep
<1>2. UNCHANGED <<snapshot, past, browser>>
  BY DEF QuietStep
<1>3. ASSUME NEW b \in Browsers, browser[b].conn # Nil
      PROVE  /\ Honest(browser[b].state, ChainOf(conn'[browser[b].conn]), past)
             /\ (browser[b].conn \in clients' \ closing' /\ ~Idle(conn'[browser[b].conn]))
                => Shown(Received(browser[b].state, PendingOf(conn'[browser[b].conn]))) = snapshot
  <2> DEFINE d == browser[b].conn
             seen == browser[b].state
  <2>1. seen \in RaceStates /\ d \in Conns /\ conn[d].peer
    BY <1>3, BrowserFacts
  <2>2. Honest(seen, ChainOf(conn[d]), past) /\ Fed(d, seen)
    BY <1>3 DEF ShowInv, BoardInv, SyncInv
  <2> HIDE DEF d, seen
  <2>3. CASE d # c
    BY <1>1, <2>1, <2>2, <2>3 DEF QuietStep, Fed, d, seen
  <2>4. CASE d = c
    <3>1. r.peer
      BY <2>1, <2>4 DEF QuietStep
    <3>2. PICK rest \in Seq(Envelopes) : ChainOf(conn[c]) = ChainOf(r) \o rest
      BY <3>1 DEF QuietStep, Shortens
    <3>3. ChainOf(r) \in Seq(Envelopes)
      BY <1>1, ChainType
    <3>4. Honest(seen, ChainOf(r), past)
      BY <2>1, <2>2, <2>4, <3>2, <3>3, HonestPrefix
    <3>5. ~Idle(r) => ~Idle(conn[c]) /\ PendingOf(r) = PendingOf(conn[c])
      BY <3>1 DEF QuietStep
    <3>6. c \in clients' \ closing' => c \in clients \ closing \/ Idle(r)
      BY DEF QuietStep
    <3> QED BY <1>1, <2>2, <2>4, <3>4, <3>5, <3>6 DEF Fed, d, seen
  <2> QED BY <2>3, <2>4
<1>4. BoardInv'
  BY <1>2, <1>3 DEF ShowInv, BoardInv
<1>5. SyncInv'
  BY <1>2, <1>3 DEF SyncInv, Fed
<1> QED
  BY <1>2, <1>4, <1>5 DEF ShowInv

-----------------------------------------------------------------------------
(* A broadcast: of a frame, or of the snapshot of a Reset *)

LEMMA BroadcastConns ==
  ASSUME IInv, NEW msg \in Envelopes, Broadcast(msg), NEW c \in Conns
  PROVE  LET k == conn[c] IN
         /\ conn' \in [Conns -> Connections \cup {Nil}]
         /\ conn'[c] = IF c \in clients /\ ~Full(c) THEN [k EXCEPT !.out = Append(k.out, msg)] ELSE k
         /\ c \in clients /\ ~Full(c)
            => /\ k # Nil /\ conn'[c] # Nil /\ Len(conn'[c].out) <= SendBuffer
               /\ Lifecycle(conn'[c]) /\ k.reader # "none"
               /\ conn'[c].out = Append(k.out, msg) /\ conn'[c].wire = k.wire
               /\ conn'[c].held = k.held /\ conn'[c].pump = k.pump
               /\ conn'[c].closed = k.closed /\ conn'[c].reader = k.reader
               /\ conn'[c].peer = k.peer
<1> DEFINE more(d) == [conn[d] EXCEPT !.out = Append(conn[d].out, msg)]
<1>1. conn' = [d \in Conns |-> IF d \in clients /\ ~Full(d) THEN more(d) ELSE conn[d]]
  BY DEF Broadcast
<1>2. ASSUME NEW d \in Conns, d \in clients, ~Full(d)
      PROVE  /\ conn[d] # Nil /\ conn[d].reader # "none"
             /\ more(d) \in Connections /\ more(d) # Nil
             /\ Len(more(d).out) <= SendBuffer /\ Lifecycle(more(d))
             /\ more(d).out = Append(conn[d].out, msg) /\ more(d).wire = conn[d].wire
             /\ more(d).held = conn[d].held /\ more(d).pump = conn[d].pump
             /\ more(d).closed = conn[d].closed /\ more(d).reader = conn[d].reader
             /\ more(d).peer = conn[d].peer
  <2> DEFINE k == conn[d]
             r == [k EXCEPT !.out = Append(k.out, msg)]
  <2>1. k # Nil /\ k.reader # "none"
    BY <1>2 DEF IInv, SetInv
  <2>2. k \in Connections /\ Lifecycle(k) /\ Len(k.out) < SendBuffer
    <3>1. k \in Connections /\ Lifecycle(k)
      BY <2>1, ConnFacts
    <3>2. Len(k.out) \in Nat
      BY <3>1 DEF Connections
    <3>3. ~(Len(k.out) >= SendBuffer)
      BY <1>2 DEF Full
    <3> HIDE DEF k
    <3> QED BY <3>1, <3>2, <3>3, HubAssumption
  <2>3. more(d) = r
    OBVIOUS
  <2> HIDE DEF k
  <2>4. Append(k.out, msg) \in Seq(Envelopes) /\ Len(Append(k.out, msg)) <= SendBuffer
    BY <2>2, HubAssumption DEF Connections
  <2>5. /\ r \in Connections /\ r.out = Append(k.out, msg) /\ r.wire = k.wire /\ r.held = k.held
        /\ r.pump = k.pump /\ r.reader = k.reader /\ r.peer = k.peer /\ r.closed = k.closed
    BY <2>2, <2>4 DEF Connections
  <2> HIDE DEF r
  <2>6. Lifecycle(r)
    BY <2>1, <2>2, <2>5 DEF Lifecycle
  <2>7. r # Nil
    BY <2>5, NilRecordAssumption
  <2> HIDE DEF more
  <2> QED BY <2>1, <2>3, <2>4, <2>5, <2>6, <2>7 DEF k
<1> HIDE DEF more
<1>3. conn' \in [Conns -> Connections \cup {Nil}]
  BY <1>1, <1>2 DEF IInv, TypeOK
<1> QED
  BY <1>1, <1>2, <1>3 DEF more

LEMMA BroadcastKeeps ==
  ASSUME IInv, MayCall, NEW msg \in Envelopes, NEW snap \in Snapshots, Install(snap),
         Broadcast(msg)
  PROVE  IInv'
<1>1. /\ conn' \in [Conns -> Connections \cup {Nil}]
      /\ \A c \in Conns : \/ conn'[c] = conn[c]
                          \/ /\ c \in clients /\ conn[c] # Nil /\ conn'[c] # Nil
                             /\ Len(conn'[c].out) <= SendBuffer /\ Lifecycle(conn'[c])
                             /\ conn'[c].reader = conn[c].reader /\ conn'[c].peer = conn[c].peer
  <2>1. conn' \in [Conns -> Connections \cup {Nil}]
    BY BroadcastConns DEF Broadcast, IInv, TypeOK
  <2> QED BY <2>1, BroadcastConns
<1>2. /\ snapshot' = snap /\ past' = past \cup {snap} /\ ops' = ops + 1
      /\ clients' = clients /\ browser' = browser /\ ops < MaxOps /\ ops \in 0..MaxOps
      /\ closing' \subseteq clients
  BY DEF Install, Broadcast, MayCall, IInv, TypeOK
<1>3. TypeOK'
  <2>1. ops' \in 0..MaxOps
    BY <1>2, HubAssumption
  <2> QED BY <1>1, <1>2, <2>1 DEF IInv, TypeOK
<1>4. ConnInv'
  BY <1>1 DEF IInv, ConnInv
<1>5. SetInv'
  BY <1>1, <1>2 DEF IInv, SetInv, TypeOK
<1>6. AttachInv'
  BY <1>1, <1>2 DEF IInv, AttachInv, TypeOK
<1> QED
  BY <1>3, <1>4, <1>5, <1>6 DEF IInv

\* The board of a client that was up to date is the hub's again, when it has read the message.
LEMMA BroadcastShows ==
  ASSUME IInv, ShowInv, MayCall, NEW msg \in Envelopes, NEW snap \in Snapshots,
         Install(snap), Broadcast(msg),
         \A seen \in RaceStates :
           Shown(seen) = snapshot => Shown(ApplyMessage(seen, msg)) = snap
  PROVE  ShowInv'
<1>1. /\ snapshot' = snap /\ past' = past \cup {snap} /\ clients' = clients
      /\ browser' = browser /\ closing = {} /\ closing' = {c \in clients : Full(c)}
  BY DEF Install, Broadcast, MayCall
<1>2. ASSUME NEW b \in Browsers, browser[b].conn # Nil
      PROVE  /\ Honest(browser[b].state, ChainOf(conn'[browser[b].conn]), past')
             /\ (browser[b].conn \in clients' \ closing' /\ ~Idle(conn'[browser[b].conn]))
                => Shown(Received(browser[b].state, PendingOf(conn'[browser[b].conn]))) = snap
  <2> DEFINE c == browser[b].conn
             seen == browser[b].state
             k == conn[c]
             r == conn'[c]
  <2>1. seen \in RaceStates /\ c \in Conns /\ k \in Connections
    BY <1>2, BrowserFacts
  <2>2. Honest(seen, ChainOf(k), past) /\ Fed(c, seen)
    BY <1>2 DEF ShowInv, BoardInv, SyncInv
  <2>3. Honest(seen, ChainOf(k), past')
    BY <1>1, <2>2, HonestMore
  <2>4. /\ r = IF c \in clients /\ ~Full(c) THEN [k EXCEPT !.out = Append(k.out, msg)] ELSE k
        /\ c \in clients /\ ~Full(c)
           => /\ r.out = Append(k.out, msg) /\ r.wire = k.wire
              /\ r.held = k.held /\ r.pump = k.pump /\ r.closed = k.closed
    BY <2>1, BroadcastConns
  <2> HIDE DEF seen, k, r
  <2>5. CASE ~(c \in clients /\ ~Full(c))
    <3>1. r = k
      BY <2>4, <2>5
    <3>2. c \notin clients' \ closing'
      BY <1>1, <2>5
    <3> QED BY <2>3, <3>1, <3>2 DEF seen, r
  <2>6. CASE c \in clients /\ ~Full(c)
    <3>1. /\ r.out = Append(k.out, msg) /\ r.wire = k.wire
          /\ r.held = k.held /\ r.pump = k.pump /\ r.closed = k.closed
      BY <2>4, <2>6
    <3>2. Idle(r) <=> Idle(k)
      BY <3>1 DEF Idle
    <3>3. CASE Idle(k)
      <4>1. ChainOf(r) = ChainOf(k)
        BY <3>1, <3>2, <3>3 DEF ChainOf
      <4> QED BY <2>3, <3>2, <3>3, <4>1 DEF seen, r
    <3>4. CASE ~Idle(k)
      <4> DEFINE q == PendingOf(k)
      <4>1. q \in Seq(Envelopes)
        BY <2>1, ChainType
      <4>2. PendingOf(r) = Append(q, msg)
        <5> DEFINE front == k.wire \o (IF k.held = Nil THEN <<>> ELSE <<k.held>>)
        <5>1. front \in Seq(Envelopes) /\ k.out \in Seq(Envelopes)
          <6>1. /\ k.wire \in Seq(Envelopes) /\ k.out \in Seq(Envelopes)
                /\ (IF k.held = Nil THEN <<>> ELSE <<k.held>>) \in Seq(Envelopes)
            BY <2>1 DEF Connections
          <6> QED BY <6>1
        <5>2. PendingOf(r) = front \o Append(k.out, msg) /\ q = front \o k.out
          BY <3>1 DEF PendingOf
        <5> HIDE DEF front, q
        <5>3. front \o Append(k.out, msg) = Append(front \o k.out, msg)
          BY <5>1
        <5> QED BY <5>2, <5>3
      <4>3. Shown(Received(seen, q)) = snapshot
        BY <1>1, <2>2, <2>6, <3>4 DEF Fed, k
      <4>4. ChainOf(k) = q /\ ChainOf(r) = Append(q, msg)
        BY <3>2, <3>4, <4>2 DEF ChainOf
      <4> HIDE DEF q
      <4>5. /\ Received(seen, q) \in RaceStates
            /\ Received(seen, Append(q, msg)) = ApplyMessage(Received(seen, q), msg)
        BY <2>1, <4>1, ReceivedFacts
      <4>6. Shown(Received(seen, Append(q, msg))) = snap
        BY <4>3, <4>5
      <4>7. Honest(seen, Append(q, msg), past')
        BY <1>1, <2>1, <2>3, <4>1, <4>4, <4>6, HonestAppend
      <4> QED BY <4>2, <4>4, <4>6, <4>7 DEF seen, r
    <3> QED BY <3>3, <3>4
  <2> QED BY <2>5, <2>6
<1>3. ASSUME NEW b \in Browsers, browser[b].conn = Nil PROVE Had(browser[b].state, past')
  BY <1>1, <1>3 DEF ShowInv, BoardInv, Had
<1>4. BoardInv'
  BY <1>1, <1>2, <1>3 DEF BoardInv
<1>5. SyncInv'
  BY <1>1, <1>2 DEF SyncInv, Fed
<1> QED
  BY <1>1, <1>4, <1>5 DEF ShowInv

-----------------------------------------------------------------------------
(* The steps that connect and disconnect *)

LEMMA FreshFacts ==
  /\ Fresh \in Connections /\ Lifecycle(Fresh) /\ Fresh # Nil /\ Fresh.peer
  /\ Fresh.out = <<>> /\ Fresh.reader = "none" /\ ChainOf(Fresh) = <<>>
<1>1. Fresh \in Connections
  BY DEF Fresh, Connections
<1>2. Fresh # Nil
  BY <1>1, NilRecordAssumption
<1>3. PendingOf(Fresh) = <<>>
  BY DEF Fresh, PendingOf
<1>4. ChainOf(Fresh) = <<>>
  BY <1>3 DEF Fresh, ChainOf
<1> QED
  BY <1>1, <1>2, <1>4 DEF Fresh, Lifecycle

LEMMA AcceptKeeps ==
  ASSUME IInv, NEW b \in Browsers, NEW c \in Conns, Accept(b, c)
  PROVE  IInv' /\ (ShowInv => ShowInv')
<1>1. /\ conn[c] = Nil /\ browser[b].conn = Nil /\ c # Nil
      /\ UNCHANGED <<snapshot, past, clients, closing, ops>>
  BY NilRecordAssumption DEF Accept
<1>2. /\ conn' \in [Conns -> Connections \cup {Nil}]
      /\ conn'[c] = Fresh /\ \A d \in Conns \ {c} : conn'[d] = conn[d]
  BY FreshFacts DEF Accept, IInv, TypeOK
<1>3. /\ browser' \in [Browsers -> [state : RaceStates, conn : Conns \cup {Nil}]]
      /\ browser'[b].conn = c /\ browser'[b].state = browser[b].state
      /\ \A a \in Browsers \ {b} : browser'[a] = browser[a]
  BY DEF Accept, IInv, TypeOK
<1>4. \A a \in Browsers : browser[a].conn # c
  BY <1>1 DEF IInv, AttachInv
<1>5. TypeOK'
  BY <1>1, <1>2, <1>3, FreshFacts, HubAssumption DEF IInv, TypeOK
<1>6. ConnInv'
  BY <1>2, FreshFacts DEF IInv, ConnInv
<1>7. c \notin clients \cup closing
  BY <1>1 DEF IInv, SetInv
<1>8. SetInv'
  BY <1>1, <1>2, <1>7 DEF IInv, SetInv, TypeOK
<1>9. AttachInv'
  <2>1. ASSUME NEW a \in Browsers, browser'[a].conn # Nil
        PROVE  conn'[browser'[a].conn] # Nil /\ conn'[browser'[a].conn].peer
    <3>1. CASE a = b
      BY <1>2, <1>3, <3>1, FreshFacts
    <3>2. CASE a # b
      <4>1. browser[a].conn \in Conns \ {c}
        BY <1>3, <1>4, <2>1, <3>2, BrowserFacts
      <4> QED BY <1>2, <1>3, <2>1, <3>2, <4>1 DEF IInv, AttachInv
    <3> QED BY <3>1, <3>2
  <2>2. ASSUME NEW a \in Browsers, NEW e \in Browsers,
               browser'[a].conn = browser'[e].conn, browser'[a].conn # Nil
        PROVE  a = e
    BY <1>3, <1>4, <2>2 DEF IInv, AttachInv
  <2> QED BY <2>1, <2>2 DEF AttachInv
<1>10. ASSUME ShowInv PROVE ShowInv'
  <2>1. ASSUME NEW a \in Browsers
        PROVE  /\ IF browser'[a].conn = Nil THEN Had(browser'[a].state, past')
                  ELSE Honest(browser'[a].state, ChainOf(conn'[browser'[a].conn]), past')
               /\ browser'[a].conn # Nil /\ browser'[a].conn \in clients' \ closing'
                    /\ ~Idle(conn'[browser'[a].conn])
                  => Shown(Received(browser'[a].state, PendingOf(conn'[browser'[a].conn])))
                       = snapshot'
    <3>1. CASE a = b
      <4>1. browser[b].state \in RaceStates /\ Had(browser[b].state, past)
        BY <1>1, <1>10, BrowserFacts DEF ShowInv, BoardInv
      <4>2. Honest(browser[b].state, <<>>, past)
        BY <4>1, HonestEmpty
      <4> QED BY <1>1, <1>2, <1>3, <1>7, <3>1, <4>2, FreshFacts
    <3>2. CASE a # b
      <4>1. browser'[a] = browser[a]
        BY <1>3, <3>2
      <4>2. browser[a].conn # Nil => conn'[browser[a].conn] = conn[browser[a].conn]
        BY <1>2, <1>4, BrowserFacts
      <4> QED BY <1>1, <1>10, <4>1, <4>2 DEF ShowInv, BoardInv, SyncInv, Fed
    <3> QED BY <3>1, <3>2
  <2>2. BoardInv'
    BY <2>1 DEF BoardInv
  <2>3. SyncInv'
    BY <2>1 DEF SyncInv, Fed
  <2> QED BY <1>1, <1>10, <2>2, <2>3 DEF ShowInv
<1> QED
  BY <1>5, <1>6, <1>8, <1>9, <1>10 DEF IInv

LEMMA RegisterKeeps ==
  ASSUME IInv, NEW c \in Conns, Register(c)
  PROVE  IInv' /\ (ShowInv => ShowInv')
<1> DEFINE k == conn[c]
           r == [k EXCEPT !.out = <<SnapshotMsg(snapshot)>>, !.pump = "select",
                          !.reader = "reading"]
<1>1. /\ k # Nil /\ k.reader = "none" /\ conn' = [conn EXCEPT ![c] = r]
      /\ clients' = clients \cup {c} /\ UNCHANGED <<snapshot, past, closing, ops, browser>>
  BY DEF Register
<1>2. k \in Connections /\ Lifecycle(k)
  BY <1>1, ConnFacts
<1>3. SnapshotMsg(snapshot) \in Envelopes /\ snapshot \in Snapshots
  BY DEF IInv, TypeOK, SnapshotMsg, Envelopes
<1> DEFINE m == SnapshotMsg(snapshot)
<1>4. <<m>> \in Seq(Envelopes) /\ Len(<<m>>) = 1
  BY <1>3
<1> HIDE DEF k, m
<1>5. /\ r \in Connections /\ r.out = <<m>> /\ r.wire = k.wire /\ r.held = k.held
      /\ r.pump = "select" /\ r.reader = "reading" /\ r.peer = k.peer /\ r.closed = k.closed
  BY <1>2, <1>4 DEF Connections, m
<1> HIDE DEF r
<1>6. k.closed = "no" /\ k.wire = <<>> /\ k.out = <<>> /\ k.held = Nil /\ k.pump = "none"
  BY <1>1, <1>2 DEF Lifecycle
<1>7. Lifecycle(r) /\ r # Nil
  BY <1>5, <1>6, NilRecordAssumption DEF Lifecycle
<1>8. /\ conn' \in [Conns -> Connections \cup {Nil}]
      /\ conn'[c] = r /\ \A d \in Conns \ {c} : conn'[d] = conn[d]
  BY <1>1, <1>5 DEF IInv, TypeOK
<1>9. Len(r.out) <= SendBuffer
  BY <1>4, <1>5, HubAssumption
<1>10. TypeOK'
  BY <1>1, <1>8, <1>9 DEF IInv, TypeOK
<1>11. ConnInv'
  BY <1>7, <1>8 DEF IInv, ConnInv
<1>12. SetInv'
  BY <1>1, <1>5, <1>7, <1>8 DEF IInv, SetInv, TypeOK
<1>13. AttachInv'
  BY <1>1, <1>5, <1>7, <1>8 DEF IInv, AttachInv, TypeOK, k
<1>14. ASSUME ShowInv PROVE ShowInv'
  <2>1. ~Idle(k) /\ ~Idle(r)
    BY <1>5, <1>6 DEF Idle
  <2>2. PendingOf(k) = <<>> /\ PendingOf(r) = <<m>>
    <3>1. /\ PendingOf(k) = <<>> \o <<>> \o <<>>
          /\ PendingOf(r) = <<>> \o <<>> \o <<m>>
      BY <1>5, <1>6 DEF PendingOf
    <3> QED BY <1>4, <3>1
  <2>3. ChainOf(k) = <<>> /\ ChainOf(r) = <<m>>
    BY <2>1, <2>2 DEF ChainOf
  <2>4. ASSUME NEW seen \in RaceStates, Had(seen, past)
        PROVE  /\ Shown(Received(seen, <<m>>)) = snapshot
               /\ Honest(seen, <<m>>, past)
    <3>1. Received(seen, <<m>>) = ApplyMessage(seen, m)
      BY <1>3, ReceivedFacts DEF m
    <3>2. m.type = "snapshot" /\ m.data = snapshot
      BY DEF m, SnapshotMsg
    <3>3. Shown(ApplyMessage(seen, m)) = snapshot
      BY <1>3, <3>2, ReplaceFacts DEF ApplyMessage
    <3>4. Honest(seen, <<>>, past)
      BY <2>4, HonestEmpty
    <3>5. <<m>> = Append(<<>>, m) /\ <<>> \in Seq(Envelopes) /\ m \in Envelopes
      BY <1>3 DEF m
    <3>6. Shown(Received(seen, Append(<<>>, m))) \in past
      BY <1>14, <3>1, <3>3, <3>5 DEF ShowInv
    <3>7. Honest(seen, Append(<<>>, m), past)
      BY <3>4, <3>5, <3>6, HonestAppend
    <3> QED BY <3>1, <3>3, <3>5, <3>7
  <2>5. ASSUME NEW b \in Browsers, browser[b].conn # Nil
        PROVE  /\ Honest(browser[b].state, ChainOf(conn'[browser[b].conn]), past)
               /\ (browser[b].conn \in clients' \ closing' /\ ~Idle(conn'[browser[b].conn]))
                  => Shown(Received(browser[b].state, PendingOf(conn'[browser[b].conn])))
                       = snapshot
    <3> DEFINE d == browser[b].conn
               seen == browser[b].state
    <3>1. seen \in RaceStates /\ d \in Conns
      BY <2>5, BrowserFacts
    <3>2. Honest(seen, ChainOf(conn[d]), past) /\ Fed(d, seen)
      BY <1>14, <2>5 DEF ShowInv, BoardInv, SyncInv
    <3> HIDE DEF d, seen
    <3>3. CASE d # c
      BY <1>1, <1>8, <3>1, <3>2, <3>3 DEF Fed, d, seen
    <3>4. CASE d = c
      <4>1. Honest(seen, <<>>, past)
        BY <2>3, <3>2, <3>4 DEF k
      <4>2. Had(seen, past)
        <5>1. <<>> \in Seq(Envelopes)
          OBVIOUS
        <5> QED BY <3>1, <4>1, <5>1, HonestNow
      <4> QED BY <1>8, <2>2, <2>3, <2>4, <3>1, <3>4, <4>2 DEF d, seen
    <3> QED BY <3>3, <3>4
  <2>6. BoardInv'
    BY <1>1, <1>14, <2>5 DEF ShowInv, BoardInv
  <2>7. SyncInv'
    BY <1>1, <2>5 DEF SyncInv, Fed
  <2> QED BY <1>1, <1>14, <2>6, <2>7 DEF ShowInv
<1> QED
  BY <1>10, <1>11, <1>12, <1>13, <1>14 DEF IInv

LEMMA FreeKeeps ==
  ASSUME IInv, NEW c \in Conns, Free(c)
  PROVE  IInv' /\ (ShowInv => ShowInv')
<1>1. /\ conn[c] # Nil /\ c \notin closing \cup clients /\ ~conn[c].peer
      /\ conn' = [conn EXCEPT ![c] = Nil]
      /\ UNCHANGED <<snapshot, past, clients, closing, ops, browser>>
  BY DEF Free
<1>2. /\ conn' \in [Conns -> Connections \cup {Nil}]
      /\ conn'[c] = Nil /\ \A d \in Conns \ {c} : conn'[d] = conn[d]
  BY <1>1 DEF IInv, TypeOK
<1>3. \A b \in Browsers : browser[b].conn # Nil => browser[b].conn \in Conns \ {c}
  BY <1>1, BrowserFacts
<1>4. TypeOK'
  BY <1>1, <1>2 DEF IInv, TypeOK
<1>5. ConnInv'
  BY <1>2 DEF IInv, ConnInv
<1>6. SetInv'
  BY <1>1, <1>2 DEF IInv, SetInv, TypeOK
<1>7. AttachInv'
  BY <1>1, <1>2, <1>3 DEF IInv, AttachInv
<1>8. ASSUME ShowInv PROVE ShowInv'
  <2>1. BoardInv'
    BY <1>1, <1>2, <1>3, <1>8 DEF ShowInv, BoardInv
  <2>2. SyncInv'
    BY <1>1, <1>2, <1>3, <1>8 DEF ShowInv, SyncInv, Fed
  <2> QED BY <1>1, <1>8, <2>1, <2>2 DEF ShowInv
<1> QED
  BY <1>4, <1>5, <1>6, <1>7, <1>8 DEF IInv

LEMMA DeliverKeeps ==
  ASSUME IInv, NEW b \in Browsers, Deliver(b)
  PROVE  IInv' /\ (ShowInv => ShowInv')
<1> DEFINE c == browser[b].conn
           k == conn[c]
           seen == browser[b].state
           m == Head(k.wire)
           after == ApplyMessage(seen, m)
           r == [k EXCEPT !.wire = Tail(k.wire)]
<1>1. /\ c # Nil /\ k.wire # <<>>
      /\ UNCHANGED <<snapshot, past, clients, closing, ops>>
  BY DEF Deliver
<1>2. browser' = [browser EXCEPT ![b].state = after] /\ conn' = [conn EXCEPT ![c] = r]
  BY DEF Deliver
<1>3. seen \in RaceStates /\ c \in Conns /\ k \in Connections /\ k.peer /\ k # Nil
  BY <1>1, BrowserFacts DEF IInv, AttachInv
<1>4. Lifecycle(k) /\ Len(k.out) <= SendBuffer /\ k.wire \in Seq(Envelopes)
      /\ k.out \in Seq(Envelopes)
  BY <1>3, ConnFacts DEF Connections
<1> HIDE DEF k
<1>5. m \in Envelopes /\ Tail(k.wire) \in Seq(Envelopes) /\ <<m>> \in Seq(Envelopes)
      /\ k.wire = <<m>> \o Tail(k.wire)
  BY <1>1, <1>4
<1>6. after \in RaceStates
  BY <1>3, <1>5, ApplyMessageFacts
<1>7. /\ r \in Connections /\ r.out = k.out /\ r.wire = Tail(k.wire) /\ r.held = k.held
      /\ r.pump = k.pump /\ r.reader = k.reader /\ r.peer = k.peer /\ r.closed = k.closed
  BY <1>3, <1>5 DEF Connections
<1> HIDE DEF r, m, seen, c
<1>8. Lifecycle(r) /\ r # Nil
  BY <1>1, <1>4, <1>7, NilRecordAssumption DEF Lifecycle
<1>9. /\ conn' \in [Conns -> Connections \cup {Nil}]
      /\ conn'[c] = r /\ \A d \in Conns \ {c} : conn'[d] = conn[d]
  BY <1>2, <1>3, <1>7 DEF IInv, TypeOK
<1> HIDE DEF after
<1>10. /\ browser' \in [Browsers -> [state : RaceStates, conn : Conns \cup {Nil}]]
       /\ browser'[b].conn = c /\ browser'[b].state = after
       /\ \A a \in Browsers \ {b} : browser'[a] = browser[a]
  BY <1>2, <1>6 DEF IInv, TypeOK, c
<1>11. \A a \in Browsers : browser'[a].conn = browser[a].conn
  BY <1>10 DEF c
<1>12. TypeOK'
  BY <1>1, <1>4, <1>7, <1>9, <1>10 DEF IInv, TypeOK
<1>13. ConnInv'
  BY <1>8, <1>9 DEF IInv, ConnInv
<1>14. SetInv'
  BY <1>1, <1>3, <1>7, <1>8, <1>9 DEF IInv, SetInv, TypeOK, k
<1>15. AttachInv'
  <2>1. ASSUME NEW a \in Browsers, browser[a].conn # Nil
        PROVE  conn'[browser[a].conn] # Nil /\ conn'[browser[a].conn].peer
    <3>1. CASE browser[a].conn = c
      BY <1>3, <1>7, <1>8, <1>9, <3>1
    <3>2. CASE browser[a].conn # c
      <4>1. browser[a].conn \in Conns \ {c}
        BY <2>1, <3>2, BrowserFacts
      <4> QED BY <1>9, <2>1, <4>1 DEF IInv, AttachInv
    <3> QED BY <3>1, <3>2
  <2>2. \A a, e \in Browsers :
          browser[a].conn = browser[e].conn /\ browser[a].conn # Nil => a = e
    BY DEF IInv, AttachInv
  <2> QED BY <1>11, <2>1, <2>2 DEF AttachInv
<1>16. ASSUME ShowInv PROVE ShowInv'
  <2>1. Idle(r) <=> Idle(k)
    BY <1>7 DEF Idle
  <2>2. /\ PendingOf(k) = <<m>> \o PendingOf(r) /\ PendingOf(r) \in Seq(Envelopes)
    <3> DEFINE rest == (IF k.held = Nil THEN <<>> ELSE <<k.held>>)
    <3>1. rest \in Seq(Envelopes)
      BY <1>3 DEF Connections
    <3>2. PendingOf(k) = k.wire \o rest \o k.out /\ PendingOf(r) = Tail(k.wire) \o rest \o k.out
      BY <1>7 DEF PendingOf
    <3> HIDE DEF rest
    <3>3. \A one, t, u \in Seq(Envelopes) :
            ((one \o t) \o rest) \o u = one \o ((t \o rest) \o u)
      BY <3>1, Regroup, SMTT(30)
    <3>4. ((<<m>> \o Tail(k.wire)) \o rest) \o k.out = <<m>> \o ((Tail(k.wire) \o rest) \o k.out)
      BY <1>4, <1>5, <3>3, Zenon
    <3>5. PendingOf(k) = <<m>> \o PendingOf(r)
      BY <1>5, <3>2, <3>4, Zenon
    <3> QED BY <1>7, <3>5, ChainType
  <2>3. ChainOf(k) # <<>> /\ ChainOf(k) \in Seq(Envelopes)
        /\ Head(ChainOf(k)) = m /\ Tail(ChainOf(k)) = ChainOf(r)
    <3>1. Idle(k) => ChainOf(k) = k.wire /\ ChainOf(r) = Tail(k.wire)
      BY <1>7, <2>1 DEF ChainOf
    <3>2. ~Idle(k) => ChainOf(k) = <<m>> \o PendingOf(r) /\ ChainOf(r) = PendingOf(r)
      BY <2>1, <2>2 DEF ChainOf
    <3>3. ~Idle(k) => ChainOf(k) # <<>> /\ Head(ChainOf(k)) = m /\ Tail(ChainOf(k)) = ChainOf(r)
      BY <1>5, <2>2, <3>2
    <3>4. Idle(k) => ChainOf(k) # <<>> /\ Head(ChainOf(k)) = m /\ Tail(ChainOf(k)) = ChainOf(r)
      BY <1>1, <3>1 DEF m
    <3> QED BY <1>3, <3>3, <3>4, ChainType
  <2>4. Honest(seen, ChainOf(k), past) /\ Fed(c, seen)
    BY <1>1, <1>16 DEF ShowInv, BoardInv, SyncInv, seen, c, k
  <2>5. Honest(after, ChainOf(r), past)
    <3>1. Honest(ApplyMessage(seen, Head(ChainOf(k))), Tail(ChainOf(k)), past)
      BY <1>3, <2>3, <2>4, HonestTail
    <3> QED BY <2>3, <3>1 DEF after
  <2>6. Received(seen, PendingOf(k)) = Received(after, PendingOf(r))
    <3>1. Received(seen, <<m>> \o PendingOf(r)) = Received(Received(seen, <<m>>), PendingOf(r))
      BY <1>3, <1>5, <2>2, ReceivedFacts, ZenonT(60)
    <3>2. Received(seen, <<m>>) = after
      BY <1>3, <1>5, ReceivedFacts DEF after
    <3> QED BY <2>2, <3>1, <3>2
  <2>7. c \in clients \ closing /\ ~Idle(r) => Shown(Received(after, PendingOf(r))) = snapshot
    BY <2>1, <2>4, <2>6 DEF Fed, k
  <2>8. ASSUME NEW a \in Browsers, a # b
        PROVE  /\ browser'[a] = browser[a]
               /\ browser[a].conn # Nil => conn'[browser[a].conn] = conn[browser[a].conn]
    <3>1. browser'[a] = browser[a]
      BY <1>10, <2>8
    <3>2. browser[a].conn # Nil => browser[a].conn \in Conns \ {c}
      BY <1>1, <2>8, BrowserFacts DEF IInv, AttachInv, c
    <3> QED BY <1>9, <3>1, <3>2
  <2>9. BoardInv'
    <3>1. ASSUME NEW a \in Browsers
          PROVE  IF browser'[a].conn = Nil THEN Had(browser'[a].state, past')
                 ELSE Honest(browser'[a].state, ChainOf(conn'[browser'[a].conn]), past')
      <4>1. CASE a = b
        BY <1>1, <1>9, <1>10, <2>5, <4>1
      <4>2. CASE a # b
        BY <1>1, <1>16, <2>8, <4>2 DEF ShowInv, BoardInv
      <4> QED BY <4>1, <4>2
    <3> QED BY <3>1 DEF BoardInv
  <2>10. SyncInv'
    <3>1. ASSUME NEW a \in Browsers, browser'[a].conn # Nil
          PROVE  browser'[a].conn \in clients' \ closing' /\ ~Idle(conn'[browser'[a].conn])
                 => Shown(Received(browser'[a].state, PendingOf(conn'[browser'[a].conn])))
                      = snapshot'
      <4>1. CASE a = b
        BY <1>1, <1>9, <1>10, <2>7, <4>1
      <4>2. CASE a # b
        BY <1>1, <1>16, <2>8, <3>1, <4>2 DEF ShowInv, SyncInv, Fed
      <4> QED BY <4>1, <4>2
    <3> QED BY <3>1 DEF SyncInv, Fed
  <2> QED BY <1>1, <1>16, <2>9, <2>10 DEF ShowInv
<1> QED
  BY <1>12, <1>13, <1>14, <1>15, <1>16 DEF IInv

LEMMA DisconnectKeeps ==
  ASSUME IInv, NEW b \in Browsers, Disconnect(b)
  PROVE  IInv' /\ (ShowInv => ShowInv')
<1> DEFINE c == browser[b].conn
           k == conn[c]
           r == [k EXCEPT !.peer = FALSE, !.wire = <<>>]
<1>1. /\ c # Nil /\ UNCHANGED <<snapshot, past, clients, closing, ops>>
  BY DEF Disconnect
<1>2. browser' = [browser EXCEPT ![b].conn = Nil] /\ conn' = [conn EXCEPT ![c] = r]
  BY DEF Disconnect
<1>3. c \in Conns /\ k \in Connections /\ k # Nil
  BY <1>1, BrowserFacts DEF IInv, AttachInv
<1>4. Lifecycle(k) /\ Len(k.out) <= SendBuffer
  BY <1>3, ConnFacts
<1> HIDE DEF k
<1>5. /\ r \in Connections /\ r.out = k.out /\ r.wire = <<>> /\ r.held = k.held
      /\ r.pump = k.pump /\ r.reader = k.reader /\ r.closed = k.closed
  <2>1. <<>> \in Seq(Envelopes) /\ FALSE \in BOOLEAN
    OBVIOUS
  <2> DEFINE none == <<>>
  <2>2. r = [k EXCEPT !.peer = FALSE, !.wire = none] /\ none \in Seq(Envelopes)
    BY <2>1
  <2> HIDE DEF r, none
  <2>3. /\ r \in Connections /\ r.out = k.out /\ r.wire = none /\ r.held = k.held
        /\ r.pump = k.pump /\ r.reader = k.reader /\ r.closed = k.closed
    BY <1>3, <2>2 DEF Connections
  <2> QED BY <2>3 DEF none
<1> HIDE DEF r, c
<1>6. Lifecycle(r) /\ r # Nil
  BY <1>4, <1>5, NilRecordAssumption DEF Lifecycle
<1>7. /\ conn' \in [Conns -> Connections \cup {Nil}]
      /\ conn'[c] = r /\ \A d \in Conns \ {c} : conn'[d] = conn[d]
  BY <1>2, <1>3, <1>5 DEF IInv, TypeOK
<1>8. /\ browser' \in [Browsers -> [state : RaceStates, conn : Conns \cup {Nil}]]
      /\ browser'[b].conn = Nil /\ browser'[b].state = browser[b].state
      /\ \A a \in Browsers \ {b} : browser'[a] = browser[a]
  BY <1>2 DEF IInv, TypeOK
<1>9. \A a \in Browsers \ {b} : browser[a].conn # c
  BY <1>1 DEF IInv, AttachInv, c
<1>10. ASSUME NEW a \in Browsers, browser'[a].conn # Nil
       PROVE  /\ a # b /\ browser'[a] = browser[a] /\ browser[a].conn # Nil
              /\ conn'[browser[a].conn] = conn[browser[a].conn]
  <2>1. a # b /\ browser'[a] = browser[a] /\ browser[a].conn # Nil
    BY <1>8, <1>10
  <2>2. browser[a].conn \in Conns \ {c}
    BY <1>9, <2>1, BrowserFacts
  <2> QED BY <1>7, <2>1, <2>2
<1>11. TypeOK'
  BY <1>1, <1>4, <1>5, <1>7, <1>8 DEF IInv, TypeOK
<1>12. ConnInv'
  BY <1>6, <1>7 DEF IInv, ConnInv
<1>13. SetInv'
  BY <1>1, <1>3, <1>5, <1>6, <1>7 DEF IInv, SetInv, TypeOK, k
<1>14. AttachInv'
  BY <1>10 DEF IInv, AttachInv
<1>15. ASSUME ShowInv PROVE ShowInv'
  <2>1. Had(browser[b].state, past)
    <3>1. Honest(browser[b].state, ChainOf(k), past)
      BY <1>1, <1>15 DEF ShowInv, BoardInv, k, c
    <3> QED BY <1>3, <3>1, BrowserFacts, ChainType, HonestNow
  <2>2. BoardInv'
    <3>1. ASSUME NEW a \in Browsers
          PROVE  IF browser'[a].conn = Nil THEN Had(browser'[a].state, past')
                 ELSE Honest(browser'[a].state, ChainOf(conn'[browser'[a].conn]), past')
      <4>1. CASE a = b
        BY <1>1, <1>8, <2>1, <4>1
      <4>2. CASE a # b
        <5>1. browser'[a] = browser[a]
          BY <1>8, <4>2
        <5> QED BY <1>1, <1>10, <1>15, <5>1 DEF ShowInv, BoardInv
      <4> QED BY <4>1, <4>2
    <3> QED BY <3>1 DEF BoardInv
  <2>3. SyncInv'
    BY <1>1, <1>10, <1>15 DEF ShowInv, SyncInv, Fed
  <2> QED BY <1>1, <1>15, <2>2, <2>3 DEF ShowInv
<1> QED
  BY <1>11, <1>12, <1>13, <1>14, <1>15 DEF IInv

-----------------------------------------------------------------------------
(* The upstream: frames and resets *)

\* The lane's clock never goes back by LOOP_REWIND_MS or less: it goes back only when the
\* clip starts again, and a lane that starts at Rev 0 has not been anywhere yet.
Rewinds ==
  snapshot'.session = snapshot.session /\ snapshot'.timeMs < snapshot.timeMs
    => snapshot.rev > 0 /\ snapshot'.timeMs < snapshot.timeMs - LoopRewind

OnlyLoopsRewind == [][Rewinds]_snapshot

LEMMA InitKeeps == Init => IInv /\ ShowInv
<1> SUFFICES ASSUME Init PROVE IInv /\ ShowInv
  OBVIOUS
<1> USE DEF Init
<1>1. TypeOK
  BY HubAssumption, EmptyStateFacts DEF TypeOK
<1>2. ConnInv /\ SetInv /\ AttachInv
  BY DEF ConnInv, SetInv, AttachInv
<1>3. BoardInv
  BY EmptyStateFacts DEF BoardInv, Had
<1>4. SyncInv
  BY DEF SyncInv
<1> QED
  BY <1>1, <1>2, <1>3, <1>4 DEF IInv, ShowInv

LEMMA ApplyFrameKeeps ==
  ASSUME IInv, NEW f \in Frames, f.session = snapshot.session, ApplyFrame(f)
  PROVE  IInv' /\ (ShowInv /\ [Rewinds]_snapshot => ShowInv')
<1>1. MayCall /\ snapshot \in Snapshots
  BY DEF ApplyFrame, IInv, TypeOK
<1>2. CASE Stale(snapshot, f)
  <2>1. ops' = ops + 1 /\ ops < MaxOps /\ ops \in 0..MaxOps
        /\ UNCHANGED <<snapshot, past, clients, closing, conn, browser>>
    BY <1>1, <1>2 DEF ApplyFrame, MayCall, IInv, TypeOK
  <2>2. ops' \in 0..MaxOps
    BY <2>1, HubAssumption
  <2>3. TypeOK'
    BY <2>1, <2>2 DEF IInv, TypeOK
  <2>4. ConnInv' /\ SetInv' /\ AttachInv'
    BY <2>1 DEF IInv, ConnInv, SetInv, AttachInv
  <2>5. ShowInv => ShowInv'
    BY <2>1 DEF ShowInv, BoardInv, SyncInv, Fed
  <2> QED BY <2>3, <2>4, <2>5 DEF IInv
<1>3. CASE ~Stale(snapshot, f)
  <2> DEFINE snap == Apply(snapshot, f)
             msg == FrameMsg(f)
  <2>1. Install(snap) /\ Broadcast(msg)
    BY <1>3 DEF ApplyFrame
  <2>2. snap \in Snapshots /\ snap.session = snapshot.session
    BY <1>1, ApplyFacts
  <2>3. msg \in Envelopes /\ msg.type = "frame" /\ msg.data = f
    BY DEF FrameMsg, Envelopes
  <2>4. snapshot' = snap
    BY <2>1 DEF Install
  <2>5. snap.timeMs = f.timeMs
    <3> DEFINE carried == IF f.timeMs < snapshot.timeMs THEN <<>> ELSE snapshot.messages
    <3>1. snap = FoldOnto(snapshot, f, carried)
      BY <1>3 DEF Apply
    <3> HIDE DEF carried, snap
    <3> QED BY <1>1, <3>1 DEF FoldOnto, Snapshots
  <2>6. IInv'
    <3> HIDE DEF snap, msg
    <3> QED BY <1>1, <2>1, <2>2, <2>3, BroadcastKeeps
  <2>7. ASSUME ShowInv, [Rewinds]_snapshot PROVE ShowInv'
    <3>1. f.timeMs < snapshot.timeMs
            => snapshot.rev > 0 /\ f.timeMs < snapshot.timeMs - LoopRewind
      <4>1. snapshot' = snapshot => ~(f.timeMs < snapshot.timeMs)
        <5>1. f.timeMs \in Int
          BY DEF Frames
        <5> QED BY <2>4, <2>5, <5>1
      <4>2. Rewinds => (f.timeMs < snapshot.timeMs
                          => snapshot.rev > 0 /\ f.timeMs < snapshot.timeMs - LoopRewind)
        BY <2>2, <2>4, <2>5 DEF Rewinds
      <4> QED BY <2>7, <4>1, <4>2
    <3>2. ASSUME NEW seen \in RaceStates, Shown(seen) = snapshot
          PROVE  Shown(ApplyMessage(seen, msg)) = snap
      <4>1. ApplyMessage(seen, msg) = ApplyFrameMsg(seen, f)
        BY <2>3 DEF ApplyMessage
      <4>2. Shown(ApplyFrameMsg(seen, f)) = Apply(snapshot, f)
        BY <1>1, <1>3, <3>1, <3>2, SameFold
      <4> QED BY <4>1, <4>2
    <3> HIDE DEF snap, msg
    <3> QED BY <1>1, <2>1, <2>2, <2>3, <2>7, <3>2, BroadcastShows
  <2> QED BY <2>6, <2>7
<1> QED
  BY <1>2, <1>3

LEMMA ResetKeeps ==
  ASSUME IInv, NEW snap \in Others, Reset(snap)
  PROVE  IInv' /\ (ShowInv => ShowInv')
<1> DEFINE msg == SnapshotMsg(snap)
<1>1. MayCall /\ Install(snap) /\ Broadcast(msg)
  BY DEF Reset
<1>2. snap \in Snapshots
  BY HubAssumption
<1>3. msg \in Envelopes /\ msg.type = "snapshot" /\ msg.data = snap
  BY <1>2 DEF SnapshotMsg, Envelopes
<1>4. \A seen \in RaceStates :
        Shown(seen) = snapshot => Shown(ApplyMessage(seen, msg)) = snap
  BY <1>2, <1>3, ReplaceFacts DEF ApplyMessage
<1> HIDE DEF msg
<1> QED
  BY <1>1, <1>2, <1>3, <1>4, BroadcastKeeps, BroadcastShows

LEMMA NextKeeps ==
  ASSUME IInv, [Next]_vars
  PROVE  IInv' /\ (ShowInv /\ [Rewinds]_snapshot => ShowInv')
<1>1. ASSUME NEW r \in {snapshot.rev, snapshot.rev + 1}, Frame(r)
      PROVE  IInv' /\ (ShowInv /\ [Rewinds]_snapshot => ShowInv')
  <2>1. PICK body \in FrameBodies : ApplyFrame(Stamp(snapshot.session, r, body))
    BY <1>1 DEF Frame
  <2>2. snapshot \in Snapshots /\ body \in Bodies
    BY <2>1, HubAssumption DEF IInv, TypeOK
  <2>3. snapshot.session \in Sessions /\ r \in Nat
    BY <2>2 DEF Snapshots
  <2>4. /\ Stamp(snapshot.session, r, body) \in Frames
        /\ Stamp(snapshot.session, r, body).session = snapshot.session
    BY <2>2, <2>3, StampFacts
  <2> QED BY <2>1, <2>4, ApplyFrameKeeps
<1>2. ASSUME NEW snap \in Others, Reset(snap) PROVE IInv' /\ (ShowInv => ShowInv')
  BY <1>2, ResetKeeps
<1>3. ASSUME NEW c \in Conns,
             \/ CloseStale(c) \/ CloseSocket(c) \/ ReadFails(c) \/ Unregister(c)
             \/ PumpTake(c) \/ PumpStop(c) \/ PumpWrite(c) \/ PumpFails(c)
      PROVE  IInv' /\ (ShowInv => ShowInv')
  <2>1. \E r \in Connections : QuietStep(c, r)
    BY <1>3, CloseStaleQuiet, CloseSocketQuiet, ReadFailsQuiet, UnregisterQuiet,
       PumpTakeQuiet, PumpStopQuiet, PumpWriteQuiet, PumpFailsQuiet
  <2> QED BY <2>1, QuietKeeps, QuietShows
<1>4. ASSUME NEW c \in Conns, Register(c) \/ Free(c) PROVE IInv' /\ (ShowInv => ShowInv')
  BY <1>4, RegisterKeeps, FreeKeeps
<1>5. ASSUME NEW b \in Browsers, NEW c \in Conns, Accept(b, c)
      PROVE  IInv' /\ (ShowInv => ShowInv')
  BY <1>5, AcceptKeeps
<1>6. ASSUME NEW b \in Browsers, Deliver(b) \/ Disconnect(b)
      PROVE  IInv' /\ (ShowInv => ShowInv')
  BY <1>6, DeliverKeeps, DisconnectKeeps
<1>7. ASSUME UNCHANGED vars PROVE IInv' /\ (ShowInv => ShowInv')
  BY <1>7 DEF vars, IInv, TypeOK, ConnInv, SetInv, AttachInv, ShowInv, BoardInv, SyncInv, Fed
<1> QED
  BY <1>1, <1>2, <1>3, <1>4, <1>5, <1>6, <1>7 DEF Next, Upstream, Handler, Pump

\* Every variable keeps its type, the buffers their capacity, and each browser has its
\* connection to itself, however connections and goroutines interleave (hub.go, client.go).
THEOREM Invariant == Spec => []IInv
<1>1. Init => IInv
  BY InitKeeps
<1>2. IInv /\ [Next]_vars => IInv'
  BY NextKeeps
<1> QED
  BY <1>1, <1>2, PTL DEF Spec

THEOREM TypeCorrect == Spec => []TypeOK
<1>1. IInv => TypeOK
  BY DEF IInv
<1> QED
  BY <1>1, Invariant, PTL

LEMMA ShowsInvariant == Spec /\ OnlyLoopsRewind => []ShowInv
<1>1. Init => IInv /\ ShowInv
  BY InitKeeps
<1>2. IInv /\ ShowInv /\ [Next]_vars /\ [Rewinds]_snapshot => IInv' /\ ShowInv'
  BY NextKeeps
<1> QED
  BY <1>1, <1>2, PTL DEF Spec, OnlyLoopsRewind

\* Every board a browser is shown is one that the hub had (hub.go broadcastLocked, race.ts
\* applyMessage), after any full buffer, Reset or reconnect: if the clock only goes back
\* when the clip loops, the one case where the hub's fold and the browser's may differ.
THEOREM BoardsWereTheHubs == Spec /\ OnlyLoopsRewind => []BoardWasTheHubs
<1>1. IInv /\ ShowInv => BoardWasTheHubs
  <2> SUFFICES ASSUME IInv, ShowInv, NEW b \in Browsers
               PROVE  Had(browser[b].state, past)
    BY DEF BoardWasTheHubs, Had
  <2>1. CASE browser[b].conn = Nil
    BY <2>1 DEF ShowInv, BoardInv
  <2>2. CASE browser[b].conn # Nil
    <3>1. Honest(browser[b].state, ChainOf(conn[browser[b].conn]), past)
      BY <2>2 DEF ShowInv, BoardInv
    <3> QED BY <2>2, <3>1, BrowserFacts, ChainType, HonestNow
  <2> QED BY <2>1, <2>2
<1> QED
  BY <1>1, Invariant, ShowsInvariant, PTL

\* What a browser shows and what is on its way to it come to the hub's snapshot, under the
\* same condition: Register and the broadcasts leave no gap (hub.go).
THEOREM BrowsersCatchUp == Spec /\ OnlyLoopsRewind => []BrowserCatchesUp
<1>1. IInv /\ ShowInv => BrowserCatchesUp
  <2> SUFFICES ASSUME IInv, ShowInv, NEW b \in Browsers,
                      browser[b].conn # Nil, InStep(browser[b].conn)
               PROVE  Shown(Received(browser[b].state, Pending(browser[b].conn))) = snapshot
    BY DEF BrowserCatchesUp
  <2> DEFINE c == browser[b].conn
  <2>1. c \in Conns /\ Lifecycle(conn[c])
    BY BrowserFacts DEF IInv, AttachInv, ConnInv
  <2>2. c \in clients \ closing /\ conn[c].closed = "no"
    BY DEF InStep
  <2>3. ~Idle(conn[c])
    BY <2>1, <2>2 DEF Lifecycle, Idle
  <2>4. Fed(c, browser[b].state)
    BY DEF ShowInv, SyncInv
  <2>5. Pending(c) = PendingOf(conn[c])
    BY DEF Pending, PendingOf
  <2> QED BY <2>2, <2>3, <2>4, <2>5 DEF Fed
<1> QED
  BY <1>1, Invariant, ShowsInvariant, PTL

-----------------------------------------------------------------------------
(* The demo's player: StaticReplay and DemoBoard *)

\* A lap ends with a clock that the browser takes for a loop.
LongerThanARewind == Duration > LoopRewind

\* The one fetch whose answer loads the clip is still out, or has been answered.
LoadInv ==
  /\ call \in 0 .. 2 /\ fetches \subseteq 1 .. 2
  /\ status \in {"connecting", "live", "failed"}
  /\ loaded \in BOOLEAN /\ paused \in BOOLEAN
  /\ loaded => call # 0 /\ call \notin fetches
  /\ call = 0 => fetches = {}
  /\ paused => loaded

\* The timer of a player that plays is the one that plays what is next, at the time of
\* the loop's clock that is the message's own.
ArmedFor(t) ==
  /\ t.i = next
  /\ IF t.run = "message" THEN clock + t.wait = Offset(next)
                          ELSE next = Restart /\ clock + t.wait = 0

TimerInv ==
  /\ laps \in 0 .. MaxLaps /\ next \in 1 .. Len(Clip) + 1
  /\ reached \in 0 .. Duration /\ clock \in 0 .. Duration + MaxStall
  /\ IF loaded /\ ~paused THEN \E t \in TimerSet : timers = <<t>> /\ ArmedFor(t)
                          ELSE timers = <<>>
  /\ ~loaded => laps = 0 /\ next = 1

\* What lap l has made of the state by message n; at n = 1, what the last lap left.
Reached(s, l, n) ==
  /\ s \in RaceStates
  /\ n = 0 => s = EmptyState /\ l = 0
  /\ n > 0 => s.session \in Sessions /\ s.snapshotSeq = 1 /\ s.rev = n - 1 + l * MaxRev
  /\ n > 1 => s.timeMs = Clip[n].data.timeMs
  /\ n = 1 /\ l > 0 => s.timeMs = Clip[Len(Clip)].data.timeMs

StateInv == Reached(state, laps, next - 1)

\* The state is that of this lap up to message n, whatever the last lap left besides.
Agrees(s, n) ==
  LET lap == Replayed(n)
  IN  /\ s.timeMs = lap.timeMs /\ s.messages = lap.messages
      /\ \A d \in DOMAIN lap.cars : d \in DOMAIN s.cars /\ s.cars[d] = lap.cars[d]

AgreeInv ==
  /\ next = 2 /\ laps = 0 => state.messages = <<>>
  /\ next > 2 => Agrees(state, next - 1)

ViewInv ==
  /\ route \in {"board", "ghost"}
  /\ frozen \in BOOLEAN /\ replayPaused \in BOOLEAN /\ justLooped \in BOOLEAN
  /\ shown \in RaceStates /\ seenLoop \in Nat

PlayerInv == LoadInv /\ TimerInv /\ StateInv

-----------------------------------------------------------------------------
(* The clip *)

LEMMA ClipFacts ==
  /\ Len(Clip) \in Nat /\ Len(Clip) > 1 /\ DOMAIN Clip = 1 .. Len(Clip)
  /\ ClipFrames = 2 .. Len(Clip)
  /\ Clip[1] \in [type : {"snapshot"}, data : Snapshots]
  /\ \A i \in 2 .. Len(Clip) : Clip[i] \in [type : {"frame"}, data : Frames]
<1>1. /\ Len(Clip) \in Nat /\ Len(Clip) > 1 /\ DOMAIN Clip = 1 .. Len(Clip)
      /\ \A i \in 1 .. Len(Clip) : Clip[i] \in Envelopes
  BY ClipAssumption
<1>2. Clip[1] \in [type : {"snapshot"}, data : Snapshots]
  BY <1>1, ClipAssumption DEF Envelopes
<1>3. \A i \in 2 .. Len(Clip) : Clip[i] \in [type : {"frame"}, data : Frames]
  BY <1>1, ClipAssumption DEF Envelopes
<1>4. Clip[1].type # "frame"
  BY <1>2
<1>5. \A i \in 2 .. Len(Clip) : Clip[i].type = "frame"
  BY <1>3
<1>6. ClipFrames = 2 .. Len(Clip)
  BY <1>1, <1>4, <1>5 DEF ClipFrames
<1> QED BY <1>1, <1>2, <1>3, <1>6

LEMMA RestartIs == Restart = 2
<1>1. 2 \in ClipFrames /\ \A j \in ClipFrames : 2 <= j
  BY ClipFacts
<1>2. Restart \in ClipFrames /\ \A j \in ClipFrames : Restart <= j
  BY <1>1 DEF Restart
<1>3. Restart \in Int /\ Restart <= 2 /\ 2 <= Restart
  BY <1>1, <1>2, ClipFacts
<1> QED BY <1>3

\* Rev counts the frames.
LEMMA MaxRevIs == MaxRev = Len(Clip) - 1
<1> DEFINE n == Len(Clip)
           revs == {Clip[i].data.rev : i \in ClipFrames}
<1>1. n \in ClipFrames /\ n \in Nat /\ n > 1 /\ \A i \in ClipFrames : i \in Nat /\ i <= n
  BY ClipFacts
<1>2. \A i \in ClipFrames : Clip[i].data.rev = i - 1
  BY ClipFacts, ClipAssumption
<1>3. n - 1 \in revs
  BY <1>1, <1>2
<1>4. \A i \in ClipFrames : Clip[i].data.rev <= n - 1
  BY <1>1, <1>2
<1>5. MaxRev \in revs /\ \A i \in ClipFrames : Clip[i].data.rev <= MaxRev
  BY <1>3, <1>4 DEF MaxRev
<1>6. PICK k \in ClipFrames : MaxRev = Clip[k].data.rev
  BY <1>5
<1>7. MaxRev = k - 1 /\ n - 1 <= MaxRev
  BY <1>1, <1>2, <1>5, <1>6
<1> QED BY <1>1, <1>7

LEMMA OffsetFacts ==
  /\ Duration \in Nat
  /\ \A i \in DOMAIN Clip : Offset(i) \in 0 .. Duration
  /\ Offset(Restart) = 0
  /\ Duration = Clip[Len(Clip)].data.timeMs - Clip[2].data.timeMs
<1> DEFINE n == Len(Clip)
           times == {Offset(i) : i \in DOMAIN Clip}
<1>1. n \in Nat /\ n > 1 /\ DOMAIN Clip = 1 .. n /\ ClipFrames = 2 .. n
  BY ClipFacts
<1>2. \A i \in 2 .. n : Clip[i].data.timeMs \in Int
  BY ClipFacts DEF Frames
<1>3. \A i \in 2 .. n : Clip[2].data.timeMs <= Clip[i].data.timeMs
  BY <1>1, <1>2, ClipAssumption
<1>4. \A i \in 2 .. n : Clip[i].data.timeMs <= Clip[n].data.timeMs
  BY <1>1, <1>2, ClipAssumption
<1>5. \A i \in 2 .. n : Offset(i) = Clip[i].data.timeMs - Clip[2].data.timeMs
  BY <1>1, RestartIs DEF Offset
<1>6. Offset(1) = 0
  BY <1>1 DEF Offset
<1>7. \A i \in 1 .. n : Offset(i) \in Int /\ 0 <= Offset(i) /\ Offset(i) <= Offset(n)
  <2> SUFFICES ASSUME NEW i \in 1 .. n
               PROVE  Offset(i) \in Int /\ 0 <= Offset(i) /\ Offset(i) <= Offset(n)
    OBVIOUS
  <2>1. Offset(n) \in Int /\ 0 <= Offset(n)
    BY <1>1, <1>2, <1>3, <1>5
  <2>2. CASE i = 1
    BY <2>1, <2>2, <1>6
  <2>3. CASE i \in 2 .. n
    BY <2>3, <1>1, <1>2, <1>3, <1>4, <1>5
  <2> QED BY <2>2, <2>3, <1>1
<1>8. Offset(n) \in times /\ \A i \in DOMAIN Clip : Offset(i) <= Offset(n)
  BY <1>1, <1>7
<1>9. Duration \in times /\ \A i \in DOMAIN Clip : Offset(i) <= Duration
  BY <1>8 DEF Duration
<1>10. PICK k \in 1 .. n : Duration = Offset(k)
  BY <1>1, <1>9
<1>11. Duration = Offset(n)
  BY <1>1, <1>7, <1>9, <1>10
<1> QED
  BY <1>1, <1>2, <1>5, <1>7, <1>11, RestartIs

LEMMA TargetIs ==
  ASSUME NEW ms PROVE Target(ms) \in 2 .. Len(Clip)
<1> DEFINE after == {i \in ClipFrames : Offset(i) >= ms}
<1>1. Len(Clip) \in 2 .. Len(Clip) /\ after \subseteq 2 .. Len(Clip) /\ after \in SUBSET Nat
  BY ClipFacts
<1>2. CASE after = {}
  BY <1>1, <1>2 DEF Target
<1>3. CASE after # {}
  <2> HIDE DEF after
  <2>1. \E i \in after : \A j \in after : i <= j
    BY <1>1, <1>3, LeastNatural
  <2>2. (CHOOSE i \in after : \A j \in after : i <= j) \in after
    BY <2>1
  <2>3. Target(ms) = CHOOSE i \in after : \A j \in after : i <= j
    BY <1>3 DEF Target, after
  <2> QED BY <1>1, <2>2, <2>3
<1> QED BY <1>2, <1>3

LEMMA BumpFacts ==
  ASSUME laps \in Nat
  PROVE  /\ \A i \in 1 .. Len(Clip) : Bump(i) \in Envelopes
         /\ Bump(1) = Clip[1]
         /\ \A i \in 2 .. Len(Clip) :
              LET f == Bump(i).data IN
              /\ Bump(i).type = "frame" /\ f \in Frames
              /\ f.rev = i - 1 + laps * MaxRev
              /\ f.timeMs = Clip[i].data.timeMs
<1>1. Len(Clip) \in Nat /\ Len(Clip) > 1 /\ 1 \notin ClipFrames
  BY ClipFacts
<1>2. Bump(1) = Clip[1] /\ Bump(1) \in Envelopes
  BY <1>1, ClipFacts DEF Bump, Envelopes
<1>3. ASSUME NEW i \in 2 .. Len(Clip)
      PROVE  LET f == Bump(i).data IN
             /\ Bump(i) \in Envelopes
             /\ Bump(i).type = "frame" /\ f \in Frames
             /\ f.rev = i - 1 + laps * MaxRev
             /\ f.timeMs = Clip[i].data.timeMs
  <2> DEFINE r == Clip[i].data.rev + laps * MaxRev
             f == [Clip[i].data EXCEPT !.rev = r]
  <2>1. Clip[i] \in [type : {"frame"}, data : Frames] /\ i \in ClipFrames
    BY ClipFacts
  <2>2. Clip[i].data.rev = i - 1 /\ MaxRev \in Nat
    BY ClipAssumption, MaxRevIs, <1>1
  <2>3. r \in Nat /\ r = i - 1 + laps * MaxRev
    BY <2>2
  <2> HIDE DEF r
  <2>4. f \in Frames /\ f.rev = r /\ f.timeMs = Clip[i].data.timeMs
    BY <2>1, <2>3 DEF Frames
  <2>5. Bump(i) = [Clip[i] EXCEPT !.data.rev = r]
    BY <2>1 DEF Bump, r
  <2>6. Bump(i) = [type |-> "frame", data |-> f]
    BY <2>1, <2>5
  <2> HIDE DEF f
  <2>7. Bump(i).type = "frame" /\ Bump(i).data = f /\ Bump(i) \in Envelopes
    BY <2>4, <2>6 DEF Envelopes
  <2> QED BY <2>3, <2>4, <2>7
<1>4. \A i \in 1 .. Len(Clip) : i = 1 \/ i \in 2 .. Len(Clip)
  BY <1>1
<1> QED BY <1>2, <1>3, <1>4

-----------------------------------------------------------------------------
(* What a message makes of a state *)

\* A frame that is not stale.
LEMMA FrameFolds ==
  ASSUME NEW s \in RaceStates, NEW f \in Frames, s.rev < f.rev
  PROVE  LET t == ApplyFrameMsg(s, f)
             carried == IF Looped(s, f) THEN <<>> ELSE s.messages
         IN  /\ t \in RaceStates
             /\ t.session = s.session /\ t.snapshotSeq = s.snapshotSeq
             /\ t.rev = f.rev /\ t.timeMs = f.timeMs
             /\ t.cars = MergeCars(s, f)
             /\ t.messages = KeepLast(carried \o f.messages, MaxMessages)
<1> DEFINE carried == IF Looped(s, f) THEN <<>> ELSE s.messages
           t == FoldOnto(s, f, carried)
           l == IF Looped(s, f) THEN t.loopSeq + 1 ELSE t.loopSeq
<1>1. s.rev \in Nat /\ f.rev \in Nat /\ ~Stale(s, f)
  BY DEF RaceStates, Frames, Stale
<1>2. ApplyFrameMsg(s, f) = [t EXCEPT !.loopSeq = l]
  BY <1>1 DEF ApplyFrameMsg
<1>3. /\ t.session = s.session /\ t.snapshotSeq = s.snapshotSeq
      /\ t.rev = f.rev /\ t.timeMs = f.timeMs
      /\ t.cars = MergeCars(s, f)
      /\ t.messages = KeepLast(carried \o f.messages, MaxMessages)
      /\ DOMAIN t = DOMAIN s
  BY DEF FoldOnto, RaceStates
<1>4. ApplyFrameMsg(s, f) \in RaceStates
  BY ApplyFrameMsgFacts
<1> HIDE DEF t, l, carried
<1>5. LET u == [t EXCEPT !.loopSeq = l]
      IN  /\ u.session = t.session /\ u.snapshotSeq = t.snapshotSeq /\ u.rev = t.rev
          /\ u.timeMs = t.timeMs /\ u.cars = t.cars /\ u.messages = t.messages
  BY <1>3 DEF RaceStates
<1> QED BY <1>2, <1>3, <1>4, <1>5 DEF carried

LEMMA FirstMessage ==
  ASSUME laps \in Nat
  PROVE  LET t == ApplyMessage(EmptyState, Bump(1))
         IN  /\ t = Replace(EmptyState, Clip[1].data)
             /\ t \in RaceStates /\ t.session \in Sessions /\ t.snapshotSeq = 1
             /\ t.rev = 0 /\ t.cars = <<>> /\ t.messages = <<>>
<1> DEFINE snap == Clip[1].data
<1>1. Bump(1) = Clip[1] /\ Clip[1].type = "snapshot" /\ snap \in Snapshots
  BY BumpFacts, ClipFacts
<1>2. ApplyMessage(EmptyState, Bump(1)) = Replace(EmptyState, snap)
  BY <1>1 DEF ApplyMessage
<1>3. Replace(EmptyState, snap) \in RaceStates
  BY <1>1, ReplaceFacts, EmptyStateFacts
<1>4. snap.rev = 0 /\ snap.cars = <<>> /\ snap.messages = <<>> /\ snap.session \in Sessions
  BY <1>1, ClipAssumption DEF Snapshots
<1> HIDE DEF snap
<1>5. LET t == Replace(EmptyState, snap)
      IN  t.session \in Sessions /\ t.snapshotSeq = 1 /\ t.rev = 0 /\ t.cars = <<>> /\ t.messages = <<>>
  BY <1>4, EmptyStateFacts DEF Replace, RaceState
<1> QED BY <1>2, <1>3, <1>5 DEF snap

LEMMA FrameMessage ==
  ASSUME laps \in Nat, NEW i \in 2 .. Len(Clip), NEW s
  PROVE  ApplyMessage(s, Bump(i)) = ApplyFrameMsg(s, Bump(i).data)
<1>1. Bump(i).type = "frame"
  BY BumpFacts
<1> QED BY <1>1 DEF ApplyMessage

\* A frame brings any state that is not ahead of it to its place in the lap.
LEMMA FrameReaches ==
  ASSUME laps \in Nat, NEW n \in 1 .. Len(Clip) - 1, NEW s \in RaceStates,
         s.session \in Sessions, s.snapshotSeq = 1, s.rev <= n - 1 + laps * MaxRev
  PROVE  LET f == Bump(n + 1).data
             t == ApplyMessage(s, Bump(n + 1))
             carried == IF Looped(s, f) THEN <<>> ELSE s.messages
         IN  /\ Reached(t, laps, n + 1) /\ t.rev > s.rev
             /\ t.timeMs = f.timeMs
             /\ t.cars = MergeCars(s, f)
             /\ t.messages = KeepLast(carried \o f.messages, MaxMessages)
<1> DEFINE f == Bump(n + 1).data
           t == ApplyMessage(s, Bump(n + 1))
           carried == IF Looped(s, f) THEN <<>> ELSE s.messages
<1>1. Len(Clip) \in Nat /\ n \in Nat /\ n > 0 /\ MaxRev \in Nat /\ laps * MaxRev \in Nat
  BY ClipFacts, MaxRevIs
<1>2. n + 1 \in 2 .. Len(Clip)
  BY <1>1
<1>3. f \in Frames /\ f.rev = n + laps * MaxRev /\ f.timeMs = Clip[n + 1].data.timeMs
  BY <1>1, <1>2, BumpFacts
<1>4. t = ApplyFrameMsg(s, f)
  BY <1>2, FrameMessage
<1>5. s.rev \in Nat
  BY DEF RaceStates
<1> HIDE DEF f, t
<1>6. s.rev < f.rev
  BY <1>1, <1>3, <1>5
<1>7. /\ t \in RaceStates /\ t.session = s.session /\ t.snapshotSeq = s.snapshotSeq
      /\ t.rev = f.rev /\ t.timeMs = f.timeMs
      /\ t.cars = MergeCars(s, f)
      /\ t.messages = KeepLast(carried \o f.messages, MaxMessages)
  BY <1>3, <1>4, <1>6, FrameFolds
<1>8. Reached(t, laps, n + 1)
  BY <1>1, <1>3, <1>7 DEF Reached
<1> QED BY <1>6, <1>7, <1>8 DEF f, t

\* A message that comes next on its lap.
LEMMA NextMessage ==
  ASSUME NEW s, NEW n \in 0 .. Len(Clip) - 1, laps \in Nat, Reached(s, laps, n)
  PROVE  LET t == ApplyMessage(s, Bump(n + 1))
         IN  /\ Reached(t, laps, n + 1)
             /\ n > 0 => t.rev > s.rev
             /\ n = 0 => t.messages = <<>>
<1> DEFINE t == ApplyMessage(s, Bump(n + 1))
<1>0. Len(Clip) \in Nat /\ n \in Nat /\ MaxRev \in Nat /\ laps * MaxRev \in Nat
  BY ClipFacts, MaxRevIs
<1>1. CASE n = 0
  <2>1. s = EmptyState /\ laps = 0
    BY <1>1 DEF Reached
  <2>2. t = ApplyMessage(EmptyState, Bump(1))
    BY <1>1, <2>1
  <2>3. t \in RaceStates /\ t.session \in Sessions /\ t.snapshotSeq = 1 /\ t.rev = 0 /\ t.messages = <<>>
    BY <2>2, FirstMessage
  <2>4. laps * MaxRev = 0
    BY <1>0, <2>1
  <2> HIDE DEF t
  <2>5. Reached(t, laps, n + 1)
    BY <1>1, <2>1, <2>3, <2>4 DEF Reached
  <2> QED BY <1>1, <2>3, <2>5 DEF t
<1>2. CASE n > 0
  <2>1. /\ s \in RaceStates /\ s.session \in Sessions /\ s.snapshotSeq = 1
        /\ s.rev <= n - 1 + laps * MaxRev
    BY <1>0, <1>2 DEF Reached, RaceStates
  <2>2. n \in 1 .. Len(Clip) - 1
    BY <1>0, <1>2
  <2>3. Reached(t, laps, n + 1) /\ t.rev > s.rev
    BY <2>1, <2>2, FrameReaches
  <2> QED BY <1>2, <2>3
<1> QED BY <1>0, <1>1, <1>2

-----------------------------------------------------------------------------
(* What a scrub rebuilds *)

LEMMA ReplayedSteps ==
  ASSUME laps \in Nat
  PROVE  /\ Replayed(0) = EmptyState
         /\ \A n \in 0 .. Len(Clip) - 1 :
              Replayed(n + 1) = ApplyMessage(Replayed(n), Bump(n + 1))
<1> DEFINE q(n) == [i \in 1 .. n |-> Bump(i)]
<1>1. Len(Clip) \in Nat /\ \A i \in 1 .. Len(Clip) : Bump(i) \in Envelopes
  BY ClipFacts, BumpFacts
<1>2. \A n \in 0 .. Len(Clip) : q(n) \in Seq(Envelopes)
  BY <1>1
<1>3. Replayed(0) = EmptyState
  <2>1. q(0) = <<>>
    OBVIOUS
  <2>2. Received(EmptyState, <<>>) = EmptyState
    BY EmptyStateFacts, ReceivedFacts
  <2> QED BY <2>1, <2>2 DEF Replayed
<1>4. ASSUME NEW n \in 0 .. Len(Clip) - 1
      PROVE  Replayed(n + 1) = ApplyMessage(Replayed(n), Bump(n + 1))
  <2>1. n \in 0 .. Len(Clip) /\ n + 1 \in 1 .. Len(Clip)
    BY <1>1
  <2>2. q(n) \in Seq(Envelopes) /\ Bump(n + 1) \in Envelopes
    BY <1>1, <1>2, <2>1
  <2>3. q(n + 1) = Append(q(n), Bump(n + 1))
    <3>1. Len(q(n)) = n /\ n \in Nat
      BY <1>1
    <3> QED BY <2>1, <3>1
  <2> DEFINE p == q(n)
             m == Bump(n + 1)
  <2> HIDE DEF p, m, q
  <2>4. \A a \in Seq(Envelopes) : \A b \in Envelopes :
          Received(EmptyState, Append(a, b)) = ApplyMessage(Received(EmptyState, a), b)
    BY EmptyStateFacts, ReceivedFacts
  <2>5. Received(EmptyState, Append(p, m)) = ApplyMessage(Received(EmptyState, p), m)
    BY <2>2, <2>4 DEF p, m
  <2>6. Replayed(n + 1) = Received(EmptyState, q(n + 1)) /\ Replayed(n) = Received(EmptyState, q(n))
    BY DEF Replayed, q
  <2> QED BY <2>3, <2>5, <2>6 DEF p, m
<1> QED BY <1>3, <1>4

LEMMA ReplayedFacts ==
  ASSUME laps \in Nat, NEW n \in 1 .. Len(Clip)
  PROVE  LET r == Replayed(n)
         IN  /\ r \in RaceStates /\ r.session \in Sessions /\ r.snapshotSeq = 1
             /\ r.rev <= n - 1 + laps * MaxRev
             /\ n = 1 => r.rev = 0 /\ r.cars = <<>> /\ r.messages = <<>>
             /\ n > 1 => Reached(r, laps, n)
<1> DEFINE Fits(k) == LET r == Replayed(k + 1)
                      IN  /\ r \in RaceStates /\ r.session \in Sessions /\ r.snapshotSeq = 1
                          /\ r.rev <= k + laps * MaxRev
                          /\ k = 0 => r.rev = 0 /\ r.cars = <<>> /\ r.messages = <<>>
                          /\ k > 0 => Reached(r, laps, k + 1)
           last == Len(Clip) - 1
           T == {k \in 0 .. last : Fits(k)}
<1>1. last \in Nat /\ MaxRev \in Nat /\ laps * MaxRev \in Nat /\ Len(Clip) = last + 1
  BY ClipFacts, MaxRevIs
<1>2. Fits(0)
  <2>1. Replayed(0 + 1) = ApplyMessage(EmptyState, Bump(1))
    BY <1>1, ReplayedSteps
  <2>2. Replayed(0 + 1) = Replayed(1)
    OBVIOUS
  <2> DEFINE r == Replayed(1)
  <2>3. /\ r \in RaceStates /\ r.session \in Sessions /\ r.snapshotSeq = 1
        /\ r.rev = 0 /\ r.cars = <<>> /\ r.messages = <<>>
    BY <2>1, <2>2, FirstMessage
  <2> HIDE DEF r
  <2>4. r.rev <= 0 + laps * MaxRev
    BY <1>1, <2>3
  <2> QED BY <2>2, <2>3, <2>4 DEF r
<1>3. ASSUME NEW k \in 0 .. last - 1, Fits(k) PROVE Fits(k + 1)
  <2> DEFINE s == Replayed(k + 1)
             t == Replayed(k + 1 + 1)
  <2>1. k + 1 \in 1 .. Len(Clip) - 1 /\ k + 1 \in 0 .. Len(Clip) - 1 /\ k + 1 - 1 = k
    BY <1>1
  <2>2. t = ApplyMessage(s, Bump(k + 1 + 1))
    BY <2>1, ReplayedSteps
  <2>3. s \in RaceStates /\ s.session \in Sessions /\ s.snapshotSeq = 1
        /\ s.rev <= (k + 1) - 1 + laps * MaxRev
    BY <1>3, <2>1
  <2>4. Reached(t, laps, k + 1 + 1)
    BY <2>1, <2>2, <2>3, FrameReaches
  <2> HIDE DEF s, t
  <2>5. /\ t \in RaceStates /\ t.session \in Sessions /\ t.snapshotSeq = 1
        /\ t.rev <= k + 1 + laps * MaxRev
    BY <1>1, <2>1, <2>4 DEF Reached, RaceStates
  <2> QED BY <2>1, <2>4, <2>5 DEF t
<1>4. 0 \in T
  BY <1>1, <1>2
<1>5. \A i \in 0 .. last - 1 : i \in T => i + 1 \in T
  BY <1>1, <1>3
<1>6. 0 .. last \subseteq T
  <2> HIDE DEF T, last
  <2> QED BY <1>1, <1>4, <1>5, UpTo
<1>7. n - 1 \in 0 .. last /\ n - 1 + 1 = n /\ n \in Nat
  BY <1>1
<1>8. Fits(n - 1)
  BY <1>6, <1>7
<1> QED BY <1>7, <1>8

\* With the next message, a state that is this lap's so far stays so: a lap's first frame
\* is a loop, and drops the last lap's messages.
LEMMA AgreesNext ==
  ASSUME LongerThanARewind, laps \in Nat, NEW n \in 1 .. Len(Clip) - 1, NEW s,
         Reached(s, laps, n), n = 1 /\ laps = 0 => s.messages = <<>>, n > 1 => Agrees(s, n)
  PROVE  Agrees(ApplyMessage(s, Bump(n + 1)), n + 1)
<1> DEFINE f == Bump(n + 1).data
           r == Replayed(n)
           t == ApplyMessage(s, Bump(n + 1))
           u == ApplyMessage(r, Bump(n + 1))
           Left(x) == IF Looped(x, f) THEN <<>> ELSE x.messages
<1>1. /\ Len(Clip) \in Nat /\ n \in Nat /\ n > 0 /\ n < Len(Clip)
      /\ MaxRev \in Nat /\ MaxRev > 0 /\ laps * MaxRev \in Nat
      /\ n \in 1 .. Len(Clip) /\ n + 1 \in 2 .. Len(Clip) /\ LoopRewind \in Nat
  BY ClipFacts, MaxRevIs, LoopRewindAssumption
<1>2. f \in Frames /\ f.timeMs = Clip[n + 1].data.timeMs
  BY <1>1, BumpFacts
<1>3. /\ s \in RaceStates /\ s.session \in Sessions /\ s.snapshotSeq = 1
      /\ s.rev = n - 1 + laps * MaxRev
  BY <1>1 DEF Reached
<1>4. /\ r \in RaceStates /\ r.session \in Sessions /\ r.snapshotSeq = 1
      /\ r.rev <= n - 1 + laps * MaxRev
      /\ n = 1 => r.rev = 0 /\ r.cars = <<>> /\ r.messages = <<>>
      /\ n > 1 => Reached(r, laps, n)
  BY <1>1, ReplayedFacts
<1>5. /\ t.timeMs = f.timeMs /\ t.cars = MergeCars(s, f)
      /\ t.messages = KeepLast(Left(s) \o f.messages, MaxMessages)
  <2>1. s.rev <= n - 1 + laps * MaxRev
    BY <1>1, <1>3
  <2> QED BY <1>3, <2>1, FrameReaches
<1>6. /\ u.timeMs = f.timeMs /\ u.cars = MergeCars(r, f)
      /\ u.messages = KeepLast(Left(r) \o f.messages, MaxMessages)
  BY <1>4, FrameReaches
<1>7. Replayed(n + 1) = u
  BY <1>1, ReplayedSteps
<1> HIDE DEF f, r, t, u
<1>8. Left(s) = Left(r)
  <2>1. CASE n = 1 /\ laps = 0
    <3>1. s.rev = 0
      BY <1>1, <1>3, <2>1
    <3>2. ~Looped(s, f) /\ ~Looped(r, f)
      BY <1>4, <2>1, <3>1 DEF Looped
    <3> QED BY <1>4, <2>1, <3>2
  <2>2. CASE n = 1 /\ laps > 0
    <3>1. s.rev > 0
      BY <1>1, <1>3, <2>2
    <3>2. s.timeMs = Clip[Len(Clip)].data.timeMs /\ f.timeMs = Clip[2].data.timeMs
      BY <1>2, <2>2 DEF Reached
    <3>3. s.timeMs \in Int /\ f.timeMs \in Int
      BY <1>2, <1>3 DEF RaceStates, Frames
    <3>4. f.timeMs < s.timeMs - LoopRewind
      BY <1>1, <3>2, <3>3, OffsetFacts DEF LongerThanARewind
    <3>5. Looped(s, f) /\ ~Looped(r, f)
      BY <1>4, <2>2, <3>1, <3>4 DEF Looped
    <3> QED BY <1>4, <2>2, <3>5
  <2>3. CASE n > 1
    <3>1. s.timeMs = Clip[n].data.timeMs /\ r.timeMs = Clip[n].data.timeMs
      BY <1>4, <2>3 DEF Reached
    <3>2. Clip[n].data.timeMs <= Clip[n + 1].data.timeMs
      BY <1>1, <2>3, ClipAssumption
    <3>3. s.timeMs \in Int /\ f.timeMs \in Int
      BY <1>2, <1>3 DEF RaceStates, Frames
    <3>4. ~(f.timeMs < s.timeMs - LoopRewind)
      BY <1>1, <1>2, <3>1, <3>2, <3>3
    <3>5. ~Looped(s, f) /\ ~Looped(r, f)
      BY <3>1, <3>4 DEF Looped
    <3>6. s.messages = r.messages
      BY <2>3 DEF Agrees, r
    <3> QED BY <3>5, <3>6
  <2> QED BY <1>1, <2>1, <2>2, <2>3
<1>9. ASSUME NEW d \in DOMAIN MergeCars(r, f)
      PROVE  d \in DOMAIN MergeCars(s, f) /\ MergeCars(s, f)[d] = MergeCars(r, f)[d]
  <2>1. CASE d \in DOMAIN f.cars
    BY <2>1 DEF MergeCars
  <2>2. CASE d \notin DOMAIN f.cars
    <3>1. d \in DOMAIN r.cars
      BY <1>9, <2>2 DEF MergeCars
    <3>2. n > 1
      BY <1>1, <1>4, <3>1
    <3>3. d \in DOMAIN s.cars /\ s.cars[d] = r.cars[d]
      BY <3>1, <3>2 DEF Agrees, r
    <3> QED BY <2>2, <3>1, <3>3 DEF MergeCars
  <2> QED BY <2>1, <2>2
<1>10. Agrees(t, n + 1)
  BY <1>5, <1>6, <1>7, <1>8, <1>9 DEF Agrees
<1> QED BY <1>10 DEF t

-----------------------------------------------------------------------------
(* Playing *)

\* playFrom arms the one timer of a player that plays; past the end it is a lap's.
LEMMA PlayFromKeeps ==
  ASSUME NEW i \in 1 .. Len(Clip) + 1, NEW c \in 0 .. Duration + MaxStall,
         laps \in 0 .. MaxLaps, PlayFrom(i, c, <<>>)
  PROVE  /\ laps' \in 0 .. MaxLaps /\ next' \in 1 .. Len(Clip) + 1
         /\ clock' \in 0 .. Duration + MaxStall
         /\ \E t \in TimerSet : timers' = <<t>> /\ ArmedFor(t)'
         /\ \A s : Reached(s, laps, i - 1) => Reached(s, laps', next' - 1)
         /\ \/ i <= Len(Clip) /\ laps' = laps /\ next' = i
            \/ laps' = laps + 1 /\ next' = 2
<1>1. /\ Len(Clip) \in Nat /\ Len(Clip) > 1 /\ DOMAIN Clip = 1 .. Len(Clip) /\ MaxRev \in Nat
      /\ laps \in Nat /\ MaxLaps \in Nat /\ MaxStall \in Nat /\ Duration \in Nat
      /\ MaxRev = Len(Clip) - 1
  BY ClipFacts, MaxRevIs, OffsetFacts, ClipAssumption
<1>2. CASE i \in DOMAIN Clip
  <2> DEFINE now == IF c > Offset(i) THEN Offset(i) ELSE c
             t == [run |-> "message", i |-> i, wait |-> Offset(i) - now]
  <2>1. /\ clock' = now /\ next' = i /\ laps' = laps
        /\ timers' = Append(<<>>, t)
    BY <1>2 DEF PlayFrom
  <2>2. Offset(i) \in 0 .. Duration
    BY <1>2, OffsetFacts
  <2>3. now \in 0 .. Duration /\ Offset(i) - now \in 0 .. Duration
    BY <1>1, <2>2
  <2>4. t \in TimerSet
    BY <1>1, <1>2, <2>3 DEF TimerSet
  <2>5. Append(<<>>, t) = <<t>>
    OBVIOUS
  <2>6. Offset(next)' = Offset(next')
    BY DEF Offset
  <2>7. t.run = "message" /\ t.i = i /\ t.wait = Offset(i) - now
    OBVIOUS
  <2> HIDE DEF t, now
  <2>8. clock' + t.wait = Offset(i)
    BY <2>1, <2>2, <2>3, <2>7
  <2>9. ArmedFor(t)'
    BY <2>1, <2>6, <2>7, <2>8 DEF ArmedFor
  <2>10. clock' \in 0 .. Duration + MaxStall
    BY <1>1, <2>1, <2>3
  <2> QED BY <1>1, <1>2, <2>1, <2>4, <2>5, <2>9, <2>10
<1>3. CASE i \notin DOMAIN Clip
  <2> DEFINE t == [run |-> "lap", i |-> Restart, wait |-> 0]
  <2>1. /\ clock' = 0 /\ next' = 2 /\ laps' = laps + 1 /\ laps' <= MaxLaps
        /\ timers' = Append(<<>>, t)
    BY <1>3, RestartIs DEF PlayFrom
  <2>2. i = Len(Clip) + 1
    BY <1>1, <1>3
  <2>3. t \in TimerSet /\ Append(<<>>, t) = <<t>>
    BY <1>1, RestartIs DEF TimerSet
  <2>4. t.run = "lap" /\ t.i = 2 /\ t.wait = 0
    BY RestartIs
  <2> HIDE DEF t
  <2>5. ArmedFor(t)'
    BY <2>1, <2>4, RestartIs DEF ArmedFor
  <2>6. ASSUME NEW s, Reached(s, laps, i - 1) PROVE Reached(s, laps', next' - 1)
    <3>1. i - 1 = Len(Clip) /\ i - 1 > 1 /\ next' - 1 = 1
      BY <1>1, <2>1, <2>2
    <3>2. /\ s \in RaceStates /\ s.session \in Sessions /\ s.snapshotSeq = 1
          /\ s.rev = Len(Clip) - 1 + laps * MaxRev
          /\ s.timeMs = Clip[Len(Clip)].data.timeMs
      BY <2>6, <3>1, <1>1 DEF Reached
    <3>3. (laps + 1) * MaxRev = laps * MaxRev + MaxRev /\ laps * MaxRev \in Nat
      BY <1>1
    <3>4. s.rev = 1 - 1 + laps' * MaxRev
      BY <1>1, <2>1, <3>2, <3>3
    <3> QED BY <3>1, <3>2, <3>4 DEF Reached
  <2>7. laps' \in 0 .. MaxLaps /\ next' \in 1 .. Len(Clip) + 1 /\ clock' \in 0 .. Duration + MaxStall
    BY <1>1, <2>1
  <2> QED BY <2>1, <2>3, <2>5, <2>6, <2>7
<1> QED BY <1>2, <1>3

LEMMA PlayerFacts ==
  ASSUME PlayerInv
  PROVE  /\ laps \in Nat /\ Len(Clip) \in Nat /\ next \in Nat /\ next > 0 /\ next <= Len(Clip) + 1
         /\ Duration \in Nat /\ MaxStall \in Nat
         /\ ~(loaded /\ ~paused) => timers = <<>> /\ Cleared = <<>>
         /\ loaded /\ ~paused =>
              /\ Cleared = <<>>
              /\ \E t \in TimerSet :
                   /\ timers = <<t>> /\ ArmedFor(t) /\ t.i \in 1 .. Len(Clip)
                   /\ \A j \in DOMAIN timers : timers[j] = t /\ Without(j) = <<>>
<1>1. laps \in Nat /\ Len(Clip) \in Nat /\ next \in Nat /\ next > 0 /\ next <= Len(Clip) + 1
      /\ Duration \in Nat /\ MaxStall \in Nat
  BY ClipFacts, OffsetFacts, ClipAssumption DEF PlayerInv, TimerInv
<1>2. CASE ~(loaded /\ ~paused)
  BY <1>1, <1>2 DEF PlayerInv, TimerInv, Cleared
<1>3. CASE loaded /\ ~paused
  <2>1. PICK t \in TimerSet : timers = <<t>> /\ ArmedFor(t)
    BY <1>3 DEF PlayerInv, TimerInv
  <2>2. t.i \in 1 .. Len(Clip)
    BY ClipFacts DEF TimerSet
  <2>3. Len(<<t>>) = 1 /\ DOMAIN <<t>> = {1} /\ <<t>>[1] = t /\ <<t>> # <<>>
    OBVIOUS
  <2>4. SubSeq(<<t>>, 1, 0) = <<>> /\ SubSeq(<<t>>, 2, 1) = <<>>
    OBVIOUS
  <2>5. Cleared = <<>>
    BY <2>1, <2>3, <2>4 DEF Cleared
  <2>6. \A j \in DOMAIN timers : timers[j] = t /\ Without(j) = <<>>
    BY <2>1, <2>3, <2>4 DEF Without
  <2> QED BY <1>1, <1>3, <2>1, <2>2, <2>5, <2>6
<1> QED BY <1>2, <1>3

\* What a step of the player keeps, and what it keeps of a clip that is a loop.
Kept == PlayerInv' /\ (LongerThanARewind /\ AgreeInv => AgreeInv')

LEMMA SameLap ==
  ASSUME laps' = laps, NEW n \in Nat, next' = n + 1, Agrees(state', n)
  PROVE  Agrees(state, next - 1)'
<1>1. next' - 1 = n
  OBVIOUS
<1>2. Replayed(next - 1)' = Replayed(n)
  BY <1>1 DEF Replayed, Bump
<1> QED
  BY <1>2 DEF Agrees

LEMMA LoadsKeeps ==
  ASSUME PlayerInv, NEW c \in fetches, Loads(c)
  PROVE  Kept
<1>1. CASE c = call
  <2>1. /\ ~loaded /\ ~paused /\ loaded' = TRUE /\ paused' = paused /\ laps = 0 /\ next = 1
        /\ timers = <<>> /\ state' = state /\ reached' = reached
    BY <1>1 DEF Loads, PlayerInv, LoadInv, TimerInv
  <2>2. PlayFrom(1, 0, <<>>)
    BY <1>1, <2>1 DEF Loads
  <2>3. laps \in 0 .. MaxLaps /\ 1 \in 1 .. Len(Clip) + 1 /\ 0 \in 0 .. Duration + MaxStall
    BY PlayerFacts DEF PlayerInv, TimerInv
  <2>4. /\ laps' \in 0 .. MaxLaps /\ next' \in 1 .. Len(Clip) + 1
        /\ clock' \in 0 .. Duration + MaxStall
        /\ \E t \in TimerSet : timers' = <<t>> /\ ArmedFor(t)'
        /\ \A s : Reached(s, laps, 1 - 1) => Reached(s, laps', next' - 1)
        /\ \/ 1 <= Len(Clip) /\ laps' = laps /\ next' = 1
           \/ laps' = laps + 1 /\ next' = 2
    BY <2>2, <2>3, PlayFromKeeps
  <2>5. LoadInv'
    BY <1>1 DEF Loads, PlayerInv, LoadInv
  <2>6. TimerInv'
    BY <2>1, <2>4 DEF PlayerInv, TimerInv
  <2>7. StateInv'
    BY <2>1, <2>4 DEF PlayerInv, StateInv
  <2>8. AgreeInv'
    BY <2>1, <2>4 DEF AgreeInv
  <2> QED BY <2>5, <2>6, <2>7, <2>8 DEF PlayerInv, Kept
<1>2. CASE c # call
  <2>1. /\ UNCHANGED <<loaded, laps, next, clock, timers, call, status, paused, state, reached>>
        /\ fetches' \subseteq fetches
    BY <1>2 DEF Loads
  <2>2. LoadInv' /\ TimerInv' /\ StateInv'
    BY <2>1 DEF PlayerInv, LoadInv, TimerInv, StateInv, ArmedFor, Offset
  <2>3. AgreeInv => AgreeInv'
    BY <2>1 DEF AgreeInv, Agrees, Replayed, Bump
  <2> QED BY <2>2, <2>3 DEF PlayerInv, Kept
<1> QED BY <1>1, <1>2 DEF Loads

LEMMA PlayMessageKeeps ==
  ASSUME PlayerInv, NEW j \in DOMAIN timers, PlayMessage(j)
  PROVE  Kept /\ (state.rev > 0 => state'.rev > state.rev)
<1>1. loaded /\ ~paused
  BY PlayerFacts
<1>2. PICK t \in TimerSet : /\ timers = <<t>> /\ ArmedFor(t) /\ t.i \in 1 .. Len(Clip)
                            /\ timers[j] = t /\ Without(j) = <<>>
  BY <1>1, PlayerFacts
<1>3. /\ t.i = next /\ state' = ApplyMessage(state, Bump(next)) /\ reached' = Offset(next)
      /\ status' = "live" /\ UNCHANGED <<call, fetches, loaded, paused>>
      /\ PlayFrom(next + 1, clock, <<>>)
  BY <1>2 DEF PlayMessage, ArmedFor
<1>4. /\ next \in 1 .. Len(Clip) /\ Len(Clip) \in Nat /\ laps \in 0 .. MaxLaps /\ laps \in Nat
      /\ clock \in 0 .. Duration + MaxStall /\ next + 1 \in 1 .. Len(Clip) + 1
      /\ next - 1 \in 0 .. Len(Clip) - 1 /\ (next - 1) + 1 = next /\ (next + 1) - 1 = next
  BY <1>2, <1>3, PlayerFacts DEF PlayerInv, TimerInv
<1>5. Reached(state, laps, next - 1)
  BY DEF PlayerInv, StateInv
<1>6. /\ Reached(state', laps, next)
      /\ next - 1 > 0 => state'.rev > state.rev
      /\ next - 1 = 0 => state'.messages = <<>>
  BY <1>3, <1>4, <1>5, NextMessage
<1>7. /\ laps' \in 0 .. MaxLaps /\ next' \in 1 .. Len(Clip) + 1
      /\ clock' \in 0 .. Duration + MaxStall
      /\ \E u \in TimerSet : timers' = <<u>> /\ ArmedFor(u)'
      /\ \A s : Reached(s, laps, (next + 1) - 1) => Reached(s, laps', next' - 1)
      /\ \/ next + 1 <= Len(Clip) /\ laps' = laps /\ next' = next + 1
         \/ laps' = laps + 1 /\ next' = 2
  BY <1>3, <1>4, PlayFromKeeps
<1>8. LoadInv'
  BY <1>1, <1>3 DEF PlayerInv, LoadInv
<1>9. TimerInv'
  <2>1. reached' \in 0 .. Duration
    BY <1>3, <1>4, OffsetFacts, ClipFacts
  <2> QED BY <1>1, <1>3, <1>7, <2>1 DEF TimerInv
<1>10. StateInv'
  BY <1>4, <1>6, <1>7 DEF StateInv
<1>11. ASSUME LongerThanARewind, AgreeInv PROVE AgreeInv'
  <2>1. CASE laps' = laps + 1 /\ next' = 2
    BY <1>4, <2>1 DEF AgreeInv
  <2>2. CASE next + 1 <= Len(Clip) /\ laps' = laps /\ next' = next + 1
    <3>1. CASE next = 1
      BY <1>4, <1>6, <2>2, <3>1 DEF AgreeInv
    <3>2. CASE next > 1
      <4>1. next - 1 \in 1 .. Len(Clip) - 1
        BY <1>4, <3>2
      <4>2. /\ next - 1 = 1 /\ laps = 0 => state.messages = <<>>
            /\ next - 1 > 1 => Agrees(state, next - 1)
        BY <1>4, <1>11 DEF AgreeInv
      <4>3. Agrees(state', next)
        BY <1>3, <1>4, <1>5, <1>11, <4>1, <4>2, AgreesNext
      <4>4. Agrees(state, next - 1)'
        BY <1>4, <2>2, <4>3, SameLap
      <4> QED BY <1>4, <2>2, <3>2, <4>4 DEF AgreeInv
    <3> QED BY <1>4, <3>1, <3>2
  <2> QED BY <1>7, <2>1, <2>2
<1>12. state.rev > 0 => state'.rev > state.rev
  <2>1. next - 1 = 0 => state.rev = 0
    BY <1>5 DEF Reached, EmptyState, RaceState, NewSnapshot
  <2>2. next - 1 = 0 \/ next - 1 > 0
    BY <1>4
  <2>3. ~(0 > 0)
    OBVIOUS
  <2> QED BY <1>6, <2>1, <2>2, <2>3, Zenon
<1> QED BY <1>8, <1>9, <1>10, <1>11, <1>12 DEF PlayerInv, Kept

LEMMA StartLapKeeps ==
  ASSUME PlayerInv, NEW j \in DOMAIN timers, StartLap(j)
  PROVE  Kept
<1>1. loaded /\ ~paused
  BY PlayerFacts
<1>2. PICK t \in TimerSet : /\ timers = <<t>> /\ ArmedFor(t) /\ t.i \in 1 .. Len(Clip)
                            /\ timers[j] = t /\ Without(j) = <<>>
  BY <1>1, PlayerFacts
<1>3. /\ t.run = "lap" /\ t.i = 2 /\ next = 2 /\ PlayFrom(2, clock, <<>>)
      /\ UNCHANGED <<call, fetches, status, loaded, paused, state, reached>>
  BY <1>2, RestartIs DEF StartLap, ArmedFor
<1>4. /\ laps \in 0 .. MaxLaps /\ clock \in 0 .. Duration + MaxStall /\ 2 \in 1 .. Len(Clip) + 1
      /\ Len(Clip) \in Nat /\ Len(Clip) > 1
  BY ClipFacts DEF PlayerInv, TimerInv
<1>5. /\ laps' \in 0 .. MaxLaps /\ next' \in 1 .. Len(Clip) + 1
      /\ clock' \in 0 .. Duration + MaxStall
      /\ \E u \in TimerSet : timers' = <<u>> /\ ArmedFor(u)'
      /\ \A s : Reached(s, laps, 2 - 1) => Reached(s, laps', next' - 1)
      /\ \/ 2 <= Len(Clip) /\ laps' = laps /\ next' = 2
         \/ laps' = laps + 1 /\ next' = 2
  BY <1>3, <1>4, PlayFromKeeps
<1>6. LoadInv' /\ TimerInv'
  BY <1>1, <1>3, <1>5 DEF PlayerInv, LoadInv, TimerInv
<1>7. StateInv'
  BY <1>3, <1>5 DEF PlayerInv, StateInv
<1>8. AgreeInv => AgreeInv'
  BY <1>3, <1>4, <1>5 DEF AgreeInv
<1> QED BY <1>6, <1>7, <1>8 DEF PlayerInv, Kept

LEMMA TickKeeps ==
  ASSUME PlayerInv, PlayerTick
  PROVE  Kept
<1>1. loaded /\ ~paused
  BY PlayerFacts DEF PlayerTick
<1>2. PICK t \in TimerSet : timers = <<t>> /\ ArmedFor(t)
  BY <1>1, PlayerFacts
<1> DEFINE u == [t EXCEPT !.wait = @ - 1]
<1>3. /\ t.wait > -MaxStall /\ clock' = clock + 1 /\ timers' = <<u>>
      /\ UNCHANGED <<call, fetches, status, loaded, paused, state, laps, next, reached>>
  <2>1. 1 \in DOMAIN timers /\ timers[1] = t /\ DOMAIN timers = {1}
    BY <1>2
  <2>2. timers' = [k \in {1} |-> u]
    BY <2>1 DEF PlayerTick
  <2>3. [k \in {1} |-> u] = <<u>>
    OBVIOUS
  <2> QED BY <2>1, <2>2, <2>3 DEF PlayerTick
<1>4. /\ t.run \in {"message", "lap"} /\ t.i \in DOMAIN Clip /\ t.wait \in -MaxStall .. Duration
      /\ Duration \in Nat /\ MaxStall \in Nat
  BY PlayerFacts DEF TimerSet
<1>5. u = [run |-> t.run, i |-> t.i, wait |-> t.wait - 1] /\ t.wait - 1 \in -MaxStall .. Duration
  BY <1>3, <1>4 DEF TimerSet
<1>6. u \in TimerSet /\ u.run = t.run /\ u.i = t.i /\ u.wait = t.wait - 1
  BY <1>4, <1>5 DEF TimerSet
<1> HIDE DEF u
<1>7. clock \in 0 .. Duration + MaxStall /\ clock \in Int /\ next \in DOMAIN Clip /\ t.i = next
  BY <1>2, <1>4 DEF PlayerInv, TimerInv, ArmedFor
<1>8. Offset(next)' = Offset(next)
  BY <1>3 DEF Offset
<1>9. Offset(next) \in 0 .. Duration
  BY <1>7, OffsetFacts
<1>10. ArmedFor(u)' /\ clock' \in 0 .. Duration + MaxStall
  <2>1. CASE t.run = "message"
    <3>1. clock + t.wait = Offset(next)
      BY <1>2, <2>1 DEF ArmedFor
    <3>2. clock' + u.wait = Offset(next)
      BY <1>3, <1>4, <1>6, <1>7, <1>9, <3>1
    <3>3. clock' \in 0 .. Duration + MaxStall
      BY <1>3, <1>4, <1>7, <1>9, <3>1
    <3> QED BY <1>3, <1>6, <1>7, <1>8, <2>1, <3>2, <3>3 DEF ArmedFor
  <2>2. CASE t.run = "lap"
    <3>1. next = Restart /\ clock + t.wait = 0
      BY <1>2, <2>2 DEF ArmedFor
    <3>2. clock' + u.wait = 0
      BY <1>3, <1>4, <1>6, <1>7, <3>1
    <3>3. clock' \in 0 .. Duration + MaxStall
      BY <1>3, <1>4, <1>7, <3>1
    <3> QED BY <1>3, <1>6, <1>7, <2>2, <3>1, <3>2, <3>3 DEF ArmedFor
  <2> QED BY <1>4, <2>1, <2>2
<1>11. LoadInv' /\ StateInv'
  BY <1>3 DEF PlayerInv, LoadInv, StateInv
<1>12. TimerInv'
  BY <1>1, <1>3, <1>6, <1>10 DEF PlayerInv, TimerInv
<1>13. AgreeInv => AgreeInv'
  BY <1>3 DEF AgreeInv, Agrees, Replayed, Bump
<1> QED BY <1>11, <1>12, <1>13 DEF PlayerInv, Kept

LEMMA PauseKeeps ==
  ASSUME PlayerInv, Pause, UNCHANGED <<call, fetches, status, loaded>>
  PROVE  Kept
<1>1. /\ loaded /\ paused' = TRUE /\ timers' = <<>>
      /\ UNCHANGED <<call, fetches, status, loaded, state, laps, next, reached, clock>>
  BY PlayerFacts DEF Pause
<1>2. LoadInv' /\ TimerInv' /\ StateInv'
  BY <1>1 DEF PlayerInv, LoadInv, TimerInv, StateInv
<1>3. AgreeInv => AgreeInv'
  BY <1>1 DEF AgreeInv, Agrees, Replayed, Bump
<1> QED BY <1>2, <1>3 DEF PlayerInv, Kept

LEMMA ResumeKeeps ==
  ASSUME PlayerInv, Resume, UNCHANGED <<call, fetches, status, loaded>>
  PROVE  Kept
<1>1. /\ loaded /\ paused' = FALSE /\ PlayFrom(next, reached, <<>>)
      /\ UNCHANGED <<call, fetches, status, loaded, state, reached>>
  BY PlayerFacts DEF Resume
<1>2. /\ laps \in 0 .. MaxLaps /\ next \in 1 .. Len(Clip) + 1 /\ reached \in 0 .. Duration + MaxStall
      /\ laps \in Nat
  BY PlayerFacts DEF PlayerInv, TimerInv
<1>3. /\ laps' \in 0 .. MaxLaps /\ next' \in 1 .. Len(Clip) + 1
      /\ clock' \in 0 .. Duration + MaxStall
      /\ \E t \in TimerSet : timers' = <<t>> /\ ArmedFor(t)'
      /\ \A s : Reached(s, laps, next - 1) => Reached(s, laps', next' - 1)
      /\ \/ next <= Len(Clip) /\ laps' = laps /\ next' = next
         \/ laps' = laps + 1 /\ next' = 2
  BY <1>1, <1>2, PlayFromKeeps
<1>4. LoadInv' /\ TimerInv'
  <2>1. LoadInv'
    BY <1>1 DEF PlayerInv, LoadInv
  <2>2. reached' \in 0 .. Duration /\ loaded' /\ ~paused'
    BY <1>1 DEF PlayerInv, TimerInv
  <2> QED BY <1>3, <2>1, <2>2 DEF TimerInv
<1>5. StateInv'
  BY <1>1, <1>3 DEF PlayerInv, StateInv
<1>6. AgreeInv => AgreeInv'
  <2>1. CASE laps' = laps + 1 /\ next' = 2
    BY <1>2, <2>1 DEF AgreeInv
  <2>2. CASE laps' = laps /\ next' = next
    BY <1>1, <2>2 DEF AgreeInv, Agrees, Replayed, Bump
  <2> QED BY <1>3, <2>1, <2>2
<1> QED BY <1>4, <1>5, <1>6 DEF PlayerInv, Kept

LEMMA ScrubKeeps ==
  ASSUME PlayerInv, NEW ms, Scrub(ms), UNCHANGED <<call, fetches, status, loaded>>
  PROVE  Kept /\ state' \in RaceStates
<1> DEFINE end == Target(ms)
<1>1. end \in 2 .. Len(Clip) /\ Len(Clip) \in Nat /\ DOMAIN Clip = 1 .. Len(Clip)
  BY TargetIs, ClipFacts
<1>2. /\ loaded /\ state' = Replayed(end) /\ reached' = Offset(end) /\ paused' = paused
      /\ IF paused THEN next' = end + 1 /\ timers' = <<>> /\ UNCHANGED <<laps, clock>>
                   ELSE PlayFrom(end + 1, Offset(end), <<>>)
  BY PlayerFacts DEF Scrub
<1> HIDE DEF end
<1>3. /\ laps \in 0 .. MaxLaps /\ laps \in Nat /\ Offset(end) \in 0 .. Duration
      /\ Offset(end) \in 0 .. Duration + MaxStall /\ end + 1 \in 1 .. Len(Clip) + 1
      /\ end \in 1 .. Len(Clip) /\ end > 1 /\ (end + 1) - 1 = end /\ end \in Nat
      /\ paused \in BOOLEAN
  BY <1>1, OffsetFacts, PlayerFacts DEF PlayerInv, TimerInv, LoadInv
<1>4. Reached(state', laps, end)
  BY <1>2, <1>3, ReplayedFacts
<1>5. Agrees(state', end)
  BY <1>2 DEF Agrees
<1>6. LoadInv'
  BY <1>2 DEF PlayerInv, LoadInv
<1>7. state' \in RaceStates
  BY <1>4 DEF Reached
<1>8. ASSUME laps' = laps, next' = end + 1 PROVE AgreeInv'
  BY <1>3, <1>5, <1>8, SameLap DEF AgreeInv
<1>9. CASE paused
  <2>1. next' = end + 1 /\ timers' = <<>> /\ laps' = laps /\ clock' = clock
    BY <1>2, <1>9
  <2>2. TimerInv'
    BY <1>2, <1>3, <1>9, <2>1 DEF PlayerInv, TimerInv
  <2>3. StateInv'
    BY <1>3, <1>4, <2>1 DEF StateInv
  <2> QED BY <1>6, <1>7, <1>8, <2>1, <2>2, <2>3 DEF PlayerInv, Kept
<1>10. CASE ~paused
  <2>1. PlayFrom(end + 1, Offset(end), <<>>)
    BY <1>2, <1>10
  <2>2. /\ laps' \in 0 .. MaxLaps /\ next' \in 1 .. Len(Clip) + 1
        /\ clock' \in 0 .. Duration + MaxStall
        /\ \E t \in TimerSet : timers' = <<t>> /\ ArmedFor(t)'
        /\ \A s : Reached(s, laps, (end + 1) - 1) => Reached(s, laps', next' - 1)
        /\ \/ end + 1 <= Len(Clip) /\ laps' = laps /\ next' = end + 1
           \/ laps' = laps + 1 /\ next' = 2
    BY <1>3, <2>1, PlayFromKeeps
  <2>3. TimerInv'
    BY <1>2, <1>3, <1>10, <2>2 DEF TimerInv
  <2>4. StateInv'
    BY <1>3, <1>4, <2>2 DEF StateInv
  <2>5. AgreeInv'
    <3>1. CASE laps' = laps + 1 /\ next' = 2
      BY <1>3, <3>1 DEF AgreeInv
    <3> QED BY <1>8, <2>2, <3>1
  <2> QED BY <1>6, <1>7, <2>3, <2>4, <2>5 DEF PlayerInv, Kept
<1> QED BY <1>3, <1>9, <1>10

-----------------------------------------------------------------------------
(* The board over the player *)

LEMMA DemoInitially == DemoInit => PlayerInv /\ ViewInv /\ AgreeInv
<1> SUFFICES ASSUME DemoInit PROVE PlayerInv /\ ViewInv /\ AgreeInv
  OBVIOUS
<1> USE DEF DemoInit, ReplayInit
<1>1. LoadInv
  <2>1. call \in 0 .. 2 /\ fetches \subseteq 1 .. 2 /\ (call = 0 => fetches = {})
    OBVIOUS
  <2>2. status = "connecting" /\ loaded = FALSE /\ paused = FALSE
    OBVIOUS
  <2> QED BY <2>1, <2>2 DEF LoadInv
<1>2. TimerInv
  BY ClipFacts, OffsetFacts, ClipAssumption DEF TimerInv
<1>3. StateInv
  BY EmptyStateFacts DEF StateInv, Reached
<1>4. ViewInv
  BY EmptyStateFacts DEF ViewInv
<1>5. AgreeInv
  BY DEF AgreeInv
<1> QED BY <1>1, <1>2, <1>3, <1>4, <1>5 DEF PlayerInv

LEMMA StillPlayer ==
  ASSUME PlayerInv, UNCHANGED <<status, loaded, playVars>>,
         call' \in 0 .. 2, fetches' \subseteq 1 .. 2,
         loaded => call' = call /\ call \notin fetches', call' = 0 => fetches' = {}
  PROVE  Kept
<1> USE DEF playVars
<1>1. LoadInv' /\ TimerInv' /\ StateInv'
  BY DEF PlayerInv, LoadInv, TimerInv, StateInv, ArmedFor, Offset
<1>2. AgreeInv => AgreeInv'
  BY DEF AgreeInv, Agrees, Replayed, Bump
<1> QED BY <1>1, <1>2 DEF PlayerInv, Kept

LEMMA DemoNextKeeps ==
  ASSUME PlayerInv, ViewInv, [DemoNext]_demoVars
  PROVE  Kept /\ ViewInv'
<1>0. LoadInv /\ state \in RaceStates
  BY DEF PlayerInv, StateInv, Reached
<1>1. ASSUME NEW s \in RaceStates PROVE s.loopSeq \in Nat
  BY DEF RaceStates
<1>2. ASSUME UNCHANGED replayVars PROVE Kept
  BY <1>0, <1>2, StillPlayer DEF replayVars, LoadInv
<1>3. ASSUME NEW c \in 1 .. 2, Answer(c) PROVE Kept /\ ViewInv'
  <2>1. ViewInv'
    BY <1>3 DEF Answer, viewVars, ViewInv
  <2>2. CASE FetchFails(c)
    <3>1. /\ UNCHANGED <<loaded, playVars, call>> /\ fetches' \subseteq fetches /\ c \in fetches
          /\ status' \in {status, "failed"}
      BY <2>2 DEF FetchFails
    <3>2. LoadInv' /\ TimerInv' /\ StateInv'
      BY <3>1 DEF playVars, PlayerInv, LoadInv, TimerInv, StateInv, ArmedFor, Offset
    <3>3. AgreeInv => AgreeInv'
      BY <3>1 DEF playVars, AgreeInv, Agrees, Replayed, Bump
    <3> QED BY <2>1, <3>2, <3>3 DEF PlayerInv, Kept
  <2>3. CASE Loads(c)
    <3>1. c \in fetches
      BY <2>3 DEF Loads
    <3> QED BY <2>1, <2>3, <3>1, LoadsKeeps
  <2> QED BY <1>3, <2>2, <2>3 DEF Answer
<1>4. CASE Play
  <2>1. PICK j \in DOMAIN timers : PlayMessage(j)
    BY <1>4 DEF Play
  <2>2. Kept
    BY <2>1, PlayMessageKeeps
  <2>3. state' \in RaceStates
    BY <2>2 DEF Kept, PlayerInv, StateInv, Reached
  <2>4. ViewInv'
    BY <1>1, <1>4, <2>3 DEF Play, OnState, Show, ViewInv
  <2> QED BY <2>2, <2>4
<1>5. CASE Wrap
  <2>1. ViewInv'
    BY <1>5 DEF Wrap, viewVars, ViewInv
  <2> QED BY <1>5, <2>1, StartLapKeeps DEF Wrap
<1>6. CASE Tick
  <2>1. ViewInv'
    BY <1>6 DEF Tick, viewVars, ViewInv
  <2> QED BY <1>6, <2>1, TickKeeps DEF Tick
<1>7. CASE Navigate
  <2>1. ViewInv'
    BY <1>7 DEF Navigate, ViewInv
  <2>2. CASE Connect(1)
    <3>1. /\ UNCHANGED <<status, loaded, playVars>> /\ call = 0 /\ call' = 1 /\ fetches' = 1 .. 1
      BY <2>2 DEF Connect
    <3>2. fetches' \subseteq 1 .. 2 /\ ~loaded
      BY <1>0, <3>1 DEF LoadInv
    <3> QED BY <2>1, <3>1, <3>2, StillPlayer
  <2>3. CASE UNCHANGED replayVars
    BY <1>2, <2>1, <2>3
  <2> QED BY <1>7, <2>2, <2>3 DEF Navigate
<1>8. CASE ToggleFrozen
  <2>1. ViewInv'
    BY <1>0, <1>1, <1>8 DEF ToggleFrozen, Show, ViewInv
  <2> QED BY <1>2, <1>8, <2>1 DEF ToggleFrozen
<1>9. CASE ToggleReplayPaused
  <2>1. ViewInv'
    BY <1>9 DEF ToggleReplayPaused, ViewInv
  <2>2. Resume \/ Pause
    BY <1>9 DEF ToggleReplayPaused
  <2>3. UNCHANGED <<call, fetches, status, loaded>>
    BY <1>9 DEF ToggleReplayPaused
  <2> QED BY <2>1, <2>2, <2>3, ResumeKeeps, PauseKeeps
<1>10. CASE NoticeEnds
  <2>1. ViewInv'
    BY <1>10 DEF NoticeEnds, ViewInv
  <2> QED BY <1>2, <1>10, <2>1 DEF NoticeEnds
<1>11. ASSUME NEW v \in 0 .. Duration - 1, ScrubReplay(v) PROVE Kept /\ ViewInv'
  <2>1. Scrub(v) /\ UNCHANGED <<call, fetches, status, loaded>>
    BY <1>11 DEF ScrubReplay
  <2>2. Kept /\ state' \in RaceStates
    BY <2>1, ScrubKeeps
  <2>3. ViewInv'
    BY <1>1, <1>11, <2>2 DEF ScrubReplay, OnState, Show, ViewInv
  <2> QED BY <2>2, <2>3
<1>12. CASE UNCHANGED demoVars
  <2>1. UNCHANGED replayVars /\ ViewInv'
    BY <1>12 DEF demoVars, viewVars, ViewInv
  <2> QED BY <1>2, <2>1
<1> QED
  BY <1>3, <1>4, <1>5, <1>6, <1>7, <1>8, <1>9, <1>10, <1>11, <1>12 DEF DemoNext

LEMMA PlayerHolds == DemoSpec => [](PlayerInv /\ ViewInv)
<1>1. PlayerInv /\ ViewInv /\ [DemoNext]_demoVars => PlayerInv' /\ ViewInv'
  BY DemoNextKeeps DEF Kept
<1> QED BY <1>1, DemoInitially, PTL DEF DemoSpec

LEMMA AgreeHolds == LongerThanARewind => (DemoSpec => []AgreeInv)
<1> SUFFICES ASSUME LongerThanARewind PROVE DemoSpec => []AgreeInv
  OBVIOUS
<1>1. PlayerInv /\ ViewInv /\ AgreeInv /\ [DemoNext]_demoVars => AgreeInv'
  BY DemoNextKeeps DEF Kept
<1> QED BY <1>1, DemoInitially, PlayerHolds, PTL DEF DemoSpec

\* A player that plays has one timer, whatever calls, remounts, pauses and scrubs came
\* before: it plays what is next, when the clock is at the message's own time. One that
\* is paused, or has nothing loaded, has none.
OneTimer ==
  IF loaded /\ ~paused THEN Len(timers) = 1 /\ ArmedFor(timers[1]) ELSE timers = <<>>

\* The loop never splits in two, and never stops (staticReplay.ts playFrom, clearTimer).
THEOREM SingleTimer == DemoSpec => []OneTimer
<1>1. PlayerInv => OneTimer
  <2> SUFFICES ASSUME PlayerInv
               PROVE  OneTimer
    OBVIOUS
  <2>1. CASE loaded /\ ~paused
    <3>1. PICK t \in TimerSet : timers = <<t>> /\ ArmedFor(t)
      BY <2>1 DEF PlayerInv, TimerInv
    <3>2. Len(timers) = 1 /\ timers[1] = t
      BY <3>1
    <3> QED  BY <2>1, <3>1, <3>2 DEF OneTimer
  <2>2. CASE ~(loaded /\ ~paused)
    BY <2>2 DEF PlayerInv, TimerInv, OneTimer
  <2> QED  BY <2>1, <2>2
<1> QED BY <1>1, PlayerHolds, PTL

\* The demo's player and the board over it stay well-typed (staticReplay.ts, App.tsx).
THEOREM DemoTypeCorrect == DemoSpec => []DemoTypeOK
<1>1. PlayerInv /\ ViewInv => DemoTypeOK
  <2> SUFFICES ASSUME PlayerInv, ViewInv PROVE DemoTypeOK
    OBVIOUS
  <2>1. next \in 1 .. Len(Clip) + 1 /\ next \in Nat /\ timers \in Seq(TimerSet)
    <3>1. timers \in Seq(TimerSet)
      <4>1. \A t \in TimerSet : <<t>> \in Seq(TimerSet)
        OBVIOUS
      <4>2. <<>> \in Seq(TimerSet)
        OBVIOUS
      <4>3. timers = <<>> \/ \E t \in TimerSet : timers = <<t>>
        BY DEF PlayerInv, TimerInv
      <4> QED BY <4>1, <4>2, <4>3, Zenon
    <3>2. next \in 1 .. Len(Clip) + 1
      BY DEF PlayerInv, TimerInv
    <3> QED BY <3>1, <3>2, PlayerFacts
  <2>2. Reached(state, laps, next - 1)
    BY DEF PlayerInv, StateInv
  <2>3. state.loopSeq \in Nat /\ state.snapshotSeq \in 0 .. 1
    BY <2>1, <2>2, EmptyStateFacts DEF Reached, RaceStates
  <2>4. CASE next = 1
    <3>1. Shown(state) = NewSnapshot(Nil)
      BY <2>2, <2>4 DEF Reached, Shown, EmptyState, RaceState, NewSnapshot
    <3> QED BY <2>1, <2>3, <3>1 DEF DemoTypeOK, ReplayTypeOK, PlayerInv, LoadInv, TimerInv, ViewInv
  <2>5. CASE next > 1
    <3>1. state \in RaceStates /\ state.session \in Sessions
      BY <2>1, <2>2, <2>5 DEF Reached
    <3>2. Shown(state) \in Snapshots
      BY <3>1 DEF Shown, RaceStates, Snapshots
    <3> QED BY <2>1, <2>3, <3>2 DEF DemoTypeOK, ReplayTypeOK, PlayerInv, LoadInv, TimerInv, ViewInv
  <2> QED BY <2>1, <2>4, <2>5
<1> QED BY <1>1, PlayerHolds, PTL

\* The state is this lap's so far, wherever playing, pausing, scrubbing and looping have
\* led (staticReplay.ts bump and scrub, race.ts applyMessage), for any clip that is longer
\* than what the reducer forgives as jitter; a shorter one would keep a lap's messages.
THEOREM Lap == LongerThanARewind => (DemoSpec => []LapSoFar)
<1> SUFFICES ASSUME LongerThanARewind PROVE DemoSpec => []LapSoFar
  OBVIOUS
<1>1. PlayerInv /\ AgreeInv => LapSoFar
  <2> DEFINE done == {i \in ClipFrames : Bump(i).data.rev <= state.rev}
             top == CHOOSE i \in done : \A j \in done : j <= i
  <2> SUFFICES ASSUME PlayerInv, AgreeInv, done # {}
               PROVE  Agrees(state, top)
    BY DEF LapSoFar, Agrees
  <2>1. /\ laps \in Nat /\ Len(Clip) \in Nat /\ next \in Nat /\ next > 0 /\ next <= Len(Clip) + 1
        /\ MaxRev \in Nat /\ laps * MaxRev \in Nat
        /\ Reached(state, laps, next - 1)
    BY PlayerFacts, MaxRevIs, ClipFacts DEF PlayerInv, StateInv
  <2>2. \A i \in ClipFrames : /\ i \in 2 .. Len(Clip) /\ i \in Nat /\ i > 1
                              /\ Bump(i).data.rev = i - 1 + laps * MaxRev
    BY <2>1, ClipFacts, BumpFacts
  <2>3. next > 2
    <3>1. PICK i \in ClipFrames : Bump(i).data.rev <= state.rev
      OBVIOUS
    <3>2. i \in Nat /\ i > 1 /\ i - 1 + laps * MaxRev <= state.rev
      BY <2>2, <3>1
    <3>3. next # 1
      <4>1. next = 1 => state.rev = 0
        BY <2>1 DEF Reached, EmptyState, RaceState, NewSnapshot
      <4> QED BY <2>1, <3>2, <4>1
    <3>4. next # 2
      <4>1. next = 2 => state.rev = laps * MaxRev
        BY <2>1 DEF Reached
      <4> QED BY <2>1, <3>2, <4>1
    <3> QED BY <2>1, <3>3, <3>4
  <2>4. state.rev = next - 2 + laps * MaxRev
    BY <2>1, <2>3 DEF Reached
  <2>5. next - 1 \in ClipFrames
    BY <2>1, <2>3, ClipFacts
  <2>6. \A i \in ClipFrames : i \in done <=> i <= next - 1
    <3> SUFFICES ASSUME NEW i \in ClipFrames
                 PROVE  Bump(i).data.rev <= state.rev <=> i <= next - 1
      OBVIOUS
    <3>1. i \in Nat /\ Bump(i).data.rev = i - 1 + laps * MaxRev
      BY <2>2
    <3> QED BY <2>1, <2>4, <3>1
  <2>7. next - 1 \in done /\ \A j \in done : j <= next - 1
    BY <2>1, <2>5, <2>6
  <2>8. top \in done /\ \A j \in done : j <= top
    BY <2>7
  <2>9. top \in Nat /\ top <= next - 1 /\ next - 1 <= top
    BY <2>2, <2>7, <2>8
  <2>10. top = next - 1
    BY <2>1, <2>9
  <2> HIDE DEF top, done
  <2> QED BY <2>3, <2>10 DEF AgreeInv
<1> QED BY <1>1, PlayerHolds, AgreeHolds, PTL

\* No frame that a timer plays is dropped as stale, on any lap, after any scrub: Rev climbs
\* over the laps (staticReplay.ts bump).
THEOREM NoneDropped == DemoSpec => NoFrameDropped
<1>1. PlayerInv /\ [DemoNext]_demoVars => [Play /\ state.rev > 0 => state'.rev > state.rev]_demoVars
  <2> SUFFICES ASSUME PlayerInv, Play, state.rev > 0
               PROVE  state'.rev > state.rev
    OBVIOUS
  <2>1. PICK j \in DOMAIN timers : PlayMessage(j)
    BY DEF Play
  <2> QED BY <2>1, PlayMessageKeeps
<1> QED BY <1>1, PlayerHolds, PTL DEF DemoSpec, NoFrameDropped
=============================================================================
