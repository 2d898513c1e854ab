--------------------------------- MODULE Hub ---------------------------------
(***************************************************************************)
(* The fan-out (internal/ws/hub.go, client.go, handler.go) and the         *)
(* browsers at its other end: one thread at a time folds frames into the   *)
(* authoritative snapshot, or resets it, and broadcasts; each connection   *)
(* has a bounded buffer, a write pump and a read loop, and a client whose  *)
(* buffer is full is closed.                                               *)
(*                                                                         *)
(* ApplyFrame and Reset are never concurrent on one hub: the active hub's  *)
(* callers hold g.mu, a registry hub has a single consume goroutine.       *)
(***************************************************************************)
EXTENDS RaceModel

CONSTANTS Browsers,
          Conns,         \* connections the gateway may have open at once
          SendBuffer,    \* sendBuffer
          Initial,       \* the snapshot the hub is created with
          FrameBodies,   \* what the upstream lane may publish next
          Others,        \* the snapshots a Reset may install
          MaxOps,        \* bound on the calls of ApplyFrame and Reset
          MaxSnapshots   \* bound on the snapshots a browser receives

ASSUME HubAssumption ==
  /\ SendBuffer \in Nat \ {0} /\ MaxOps \in Nat
  /\ Initial \in Snapshots
  /\ FrameBodies \subseteq Bodies
  /\ Others \subseteq Snapshots

VARIABLES
  snapshot,  \* h.snapshot
  past,      \* history: every snapshot the hub has had
  clients,   \* h.clients
  closing,   \* what closeAll has left to close for the call in progress
  ops,       \* calls of ApplyFrame and Reset so far
  conn,      \* [Conns -> record or Nil]
  browser    \* [Browsers -> record]

vars == <<snapshot, past, clients, closing, ops, conn, browser>>

Connections ==
  [out    : Seq(Envelopes),             \* c.out
   wire   : Seq(Envelopes),             \* written, not yet read by the browser
   closed : {"no", "signalled", "yes"}, \* close(): not called, c.closed closed,
                                        \* and then the socket too
   pump   : {"none", "select", "write", "done"},
   held   : Envelopes \cup {Nil},       \* what the pump is writing
   reader : {"none", "reading", "closing", "done"},
   peer   : BOOLEAN]                    \* the browser still has the socket open

ASSUME NilRecordAssumption == Nil \notin Envelopes \cup Connections \cup Conns

TypeOK ==
  /\ snapshot \in Snapshots
  /\ past \subseteq Snapshots
  /\ clients \subseteq Conns
  /\ closing \subseteq Conns
  /\ ops \in 0..MaxOps
  /\ conn \in [Conns -> Connections \cup {Nil}]
  /\ browser \in [Browsers -> [state : RaceStates, conn : Conns \cup {Nil}]]
  /\ \A c \in Conns : conn[c] # Nil => Len(conn[c].out) <= SendBuffer

Fresh ==
  [out |-> <<>>, wire |-> <<>>, closed |-> "no", pump |-> "none", held |-> Nil,
   reader |-> "none", peer |-> TRUE]

Init ==
  /\ snapshot = Initial
  /\ past = {Initial}
  /\ clients = {}
  /\ closing = {}
  /\ ops = 0
  /\ conn = [c \in Conns |-> Nil]
  /\ browser = [b \in Browsers |-> [state |-> EmptyState, conn |-> Nil]]

\* An off-by-one in the capacity of c.out.
Full_OffByOne(c) == Len(conn[c].out) > SendBuffer

\* send finds no room in c.out.
Full(c) == Len(conn[c].out) >= SendBuffer

-----------------------------------------------------------------------------
\* A broadcast that leaves the full clients as they are.
Broadcast_NoClose(msg) ==
  /\ conn' = [c \in Conns |->
                IF c \in clients /\ ~Full(c)
                THEN [conn[c] EXCEPT !.out = Append(@, msg)]
                ELSE conn[c]]
  /\ closing' = {}

\* send without its default case.
Broadcast_Blocking(msg) ==
  /\ \A c \in clients : ~Full(c)
  /\ conn' = [c \in Conns |->
                IF c \in clients THEN [conn[c] EXCEPT !.out = Append(@, msg)] ELSE conn[c]]
  /\ closing' = {}

\* broadcastLocked: a full buffer makes the client stale, never blocks.
Broadcast(msg) ==
  /\ conn' = [c \in Conns |->
                IF c \in clients /\ ~Full(c)
                THEN [conn[c] EXCEPT !.out = Append(@, msg)]
                ELSE conn[c]]
  /\ closing' = {c \in clients : Full(c)}

Install(snap) ==
  /\ snapshot' = snap
  /\ past' = past \cup {snap}
  /\ ops' = ops + 1
  /\ UNCHANGED <<clients, browser>>

\* One call at a time; the previous one has closed every stale client.
MayCall == closing = {} /\ ops < MaxOps

\* ApplyFrame: a stale frame is neither folded nor broadcast.
ApplyFrame(f) ==
  /\ MayCall
  /\ IF Stale(snapshot, f)
     THEN ops' = ops + 1 /\ UNCHANGED <<snapshot, past, clients, closing, conn, browser>>
     ELSE Install(Apply(snapshot, f)) /\ Broadcast(FrameMsg(f))

\* Reset: wholesale, whatever the Rev.
Reset(snap) ==
  /\ MayCall
  /\ snap.session # snapshot.session
  /\ Install(snap)
  /\ Broadcast(SnapshotMsg(snap))

\* consume brings a frame of the lane at Rev r.
Frame(r) == \E body \in FrameBodies : ApplyFrame(Stamp(snapshot.session, r, body))

Upstream ==
  \/ Frame(snapshot.rev) \/ Frame(snapshot.rev + 1)
  \/ \E snap \in Others : Reset(snap)

-----------------------------------------------------------------------------
(***************************************************************************)
(* Client.close: whoever comes first closes c.closed, then the socket;     *)
(* everyone else waits in once.Do until that is done.                      *)
(***************************************************************************)
Signal(c) == IF conn[c].closed = "no" THEN "signalled" ELSE conn[c].closed

CloseSocket(c) ==
  /\ conn[c] # Nil /\ conn[c].closed = "signalled"
  /\ conn' = [conn EXCEPT ![c].closed = "yes"]
  /\ UNCHANGED <<snapshot, past, clients, closing, ops, browser>>

\* closeAll, client by client, with no lock held.
CloseStale(c) ==
  /\ c \in closing
  /\ IF conn[c].closed = "yes"
     THEN closing' = closing \ {c} /\ UNCHANGED conn
     ELSE conn[c].closed = "no" /\ conn' = [conn EXCEPT ![c].closed = Signal(c)] /\ UNCHANGED closing
  /\ UNCHANGED <<snapshot, past, clients, ops, browser>>

-----------------------------------------------------------------------------
\* websocket.Accept and newClient, for a browser that dials.
Accept(b, c) ==
  /\ browser[b].conn = Nil /\ conn[c] = Nil
  /\ browser[b].state.snapshotSeq < MaxSnapshots
  /\ browser' = [browser EXCEPT ![b].conn = c]
  /\ conn' = [conn EXCEPT ![c] = Fresh]
  /\ UNCHANGED <<snapshot, past, clients, closing, ops>>

\* Register under h.mu: the snapshot first, then the broadcast set. ServeWS
\* then starts the pump and the read loop.
Register(c) ==
  /\ conn[c] # Nil /\ conn[c].reader = "none"
  /\ clients' = clients \cup {c}
  /\ conn' = [conn EXCEPT ![c].out = <<SnapshotMsg(snapshot)>>,
                          ![c].pump = "select", ![c].reader = "reading"]
  /\ UNCHANGED <<snapshot, past, closing, ops, browser>>

\* The read loop's Read fails once the socket is closed at either end.
ReadFails(c) ==
  /\ conn[c] # Nil /\ conn[c].reader = "reading"
  /\ conn[c].closed = "yes" \/ ~conn[c].peer
  /\ conn' = [conn EXCEPT ![c].reader = "closing", ![c].closed = Signal(c)]
  /\ UNCHANGED <<snapshot, past, clients, closing, ops, browser>>

\* The deferred Unregister, when close has returned.
Unregister(c) ==
  /\ conn[c] # Nil /\ conn[c].reader = "closing" /\ conn[c].closed = "yes"
  /\ clients' = clients \ {c}
  /\ conn' = [conn EXCEPT ![c].reader = "done"]
  /\ UNCHANGED <<snapshot, past, closing, ops, browser>>

-----------------------------------------------------------------------------
\* writeLoop's select: a queued message may win although c.closed is closed.
PumpTake(c) ==
  /\ conn[c] # Nil /\ conn[c].pump = "select" /\ conn[c].out # <<>>
  /\ conn' = [conn EXCEPT ![c].pump = "write", ![c].held = Head(conn[c].out),
                          ![c].out = Tail(@)]
  /\ UNCHANGED <<snapshot, past, clients, closing, ops, browser>>

PumpStop(c) ==
  /\ conn[c] # Nil /\ conn[c].pump = "select"
  /\ conn[c].closed # "no" \/ conn[c].reader = "done"
  /\ conn' = [conn EXCEPT ![c].pump = "done"]
  /\ UNCHANGED <<snapshot, past, clients, closing, ops, browser>>

\* The write succeeds while the socket is open at this end.
PumpWrite(c) ==
  /\ conn[c] # Nil /\ conn[c].pump = "write" /\ conn[c].closed # "yes"
  /\ conn' = [conn EXCEPT ![c].pump = "select", ![c].held = Nil,
                          ![c].wire = IF conn[c].peer THEN Append(@, conn[c].held) ELSE @]
  /\ UNCHANGED <<snapshot, past, clients, closing, ops, browser>>

\* The write fails, on a closed socket or after writeTimeout: close and end.
PumpFails(c) ==
  /\ conn[c] # Nil /\ conn[c].pump = "write"
  /\ conn' = [conn EXCEPT ![c].pump = "done", ![c].held = Nil, ![c].closed = Signal(c)]
  /\ UNCHANGED <<snapshot, past, clients, closing, ops, browser>>

\* Both goroutines have ended and nobody refers to the client any more.
Free(c) ==
  /\ conn[c] # Nil /\ conn[c].reader = "done" /\ conn[c].pump = "done"
  /\ c \notin closing \cup clients /\ ~conn[c].peer
  /\ conn' = [conn EXCEPT ![c] = Nil]
  /\ UNCHANGED <<snapshot, past, clients, closing, ops, browser>>

-----------------------------------------------------------------------------
\* onmessage
Deliver(b) ==
  LET c == browser[b].conn IN
  /\ c # Nil /\ conn[c].wire # <<>>
  /\ browser' = [browser EXCEPT ![b].state = ApplyMessage(@, Head(conn[c].wire))]
  /\ conn' = [conn EXCEPT ![c].wire = Tail(@)]
  /\ UNCHANGED <<snapshot, past, clients, closing, ops>>

\* The socket closes at the browser, with whatever was still on the wire: the
\* network or the server ended it, or the page did. It dials again with Accept.
Disconnect(b) ==
  LET c == browser[b].conn IN
  /\ c # Nil
  /\ browser' = [browser EXCEPT ![b].conn = Nil]
  /\ conn' = [conn EXCEPT ![c].peer = FALSE, ![c].wire = <<>>]
  /\ UNCHANGED <<snapshot, past, clients, closing, ops>>

Handler(c) == Register(c) \/ ReadFails(c) \/ Unregister(c)
Pump(c) == PumpTake(c) \/ PumpStop(c) \/ PumpWrite(c)

Next ==
  \/ Upstream
  \/ \E c \in Conns : CloseStale(c) \/ CloseSocket(c)
  \/ \E c \in Conns : Handler(c) \/ Pump(c) \/ PumpFails(c) \/ Free(c)
  \/ \E b \in Browsers, c \in Conns : Accept(b, c)
  \/ \E b \in Browsers : Deliver(b) \/ Disconnect(b)

Spec == Init /\ [][Next]_vars

\* The lane keeps publishing new frames and the gateway's own goroutines run. Nothing is
\* asked of a write pump: a peer that does not read can hold it for as long as
\* writeTimeout, and that is the slow client.
ServerFairness ==
  /\ WF_vars(Frame(snapshot.rev + 1))
  /\ \A c \in Conns : /\ WF_vars(CloseStale(c))
                      /\ WF_vars(CloseSocket(c))
                      /\ WF_vars(Handler(c))

FairSpec == Spec /\ ServerFairness

-----------------------------------------------------------------------------
\* A browser that has a board shows one that the hub had: the same cars, clock,
\* messages, radio and weather at the same Rev. No frame is missing from it, not
\* after a full buffer, a Reset or a reconnect.
BoardWasTheHubs ==
  \A b \in Browsers :
    browser[b].state.snapshotSeq > 0 => Shown(browser[b].state) \in past

\* The client a broadcast has not given up on.
InStep(c) == c \in clients /\ c \notin closing /\ conn[c].closed = "no" /\ conn[c].peer

Pending(c) ==
  conn[c].wire \o (IF conn[c].held = Nil THEN <<>> ELSE <<conn[c].held>>) \o conn[c].out

\* What a browser shows and what is on its way to it add up to the hub's
\* snapshot, whenever it joined: the snapshot and the frames a client is given
\* meet without a gap, and a Reset overtakes nothing.
BrowserCatchesUp ==
  \A b \in Browsers :
    LET c == browser[b].conn IN
    c # Nil /\ InStep(c) =>
      Shown(Received(browser[b].state, Pending(c))) = snapshot

\* A client that stops reading never holds up the lane: every call is made.
NeverStalls == <>(ops = MaxOps)
=============================================================================
