------------------------------ MODULE LaneSocket ------------------------------
(***************************************************************************)
(* The browser's connections (web/src/realtime/socket.ts, lanes.ts, the    *)
(* useLane hook and App's own connection): a registry shares one           *)
(* connectRace call among the components that watch the same lane; each    *)
(* call dials, backs off and dials again until it is closed or has spent   *)
(* its budget, and the board's own call can then be told to try again.     *)
(*                                                                         *)
(* The event loop runs one handler at a time, so each is one action. The   *)
(* length of a wait and the messages' content are left out.                *)
(***************************************************************************)
EXTENDS Naturals, FiniteSets, TLC

CONSTANTS Lanes,        \* the session keys that components may watch
          Board,        \* stands for the key of App's own connection, which has none
          Watchers,     \* the components that call useLane
          Conns,        \* calls of connectRace; those that are over are reused
          Sockets,      \* WebSockets; those that are closed are reused
          Null,
          MaxAttempts   \* MAX_RECONNECT_ATTEMPTS

ASSUME LaneSocketAssumption ==
  /\ MaxAttempts \in Nat
  /\ Board \notin Lanes
  /\ Null \notin Conns \cup Sockets

VARIABLES
  lanes,   \* [Lanes -> Conns or Null]: the registry; an entry is its connection
  watch,   \* [Watchers -> Conns or Null]: the entry that each one is a listener of
  conn,    \* [Conns -> record or Null]: the variables of each call of connectRace
  socket   \* [Sockets -> record or Null]: the sockets that have not closed

vars == <<lanes, watch, conn, socket>>

Calls ==
  [session   : Lanes \cup {Board},
   closed    : BOOLEAN,
   exhausted : BOOLEAN,
   attempts  : 0 .. MaxAttempts + 1,
   timer     : BOOLEAN,                 \* a setTimeout(open) is pending
   ws        : Sockets \cup {Null},      \* Null also once that socket has closed
   status    : {"connecting", "live", "reconnecting", "offline"}]  \* last reported

WebSockets ==
  [conn : Conns, phase : {"connecting", "open", "closing"}, live : BOOLEAN]

ASSUME NullRecordAssumption == Null \notin Calls \cup WebSockets

TypeOK ==
  /\ lanes \in [Lanes -> Conns \cup {Null}]
  /\ watch \in [Watchers -> Conns \cup {Null}]
  /\ conn \in [Conns -> Calls \cup {Null}]
  /\ socket \in [Sockets -> WebSockets \cup {Null}]

Init ==
  /\ lanes = [s \in Lanes |-> Null]
  /\ watch = [l \in Watchers |-> Null]
  /\ conn = [c \in Conns |-> Null]
  /\ socket = [w \in Sockets |-> Null]

SocketsOf(c) == {w \in Sockets : socket[w] # Null /\ socket[w].conn = c}

Unreleased(c) == conn[c] # Null /\ ~conn[c].closed

\* Something is left of the call; otherwise its identifier may name another.
InUse(c) ==
  conn[c] # Null /\ (~conn[c].closed \/ conn[c].timer \/ SocketsOf(c) # {})

-----------------------------------------------------------------------------
\* open() with `call` as the variables it finds.
Open(c, call) ==
  \E w \in Sockets :
    /\ socket[w] = Null
    /\ socket' = [socket EXCEPT ![w] = [conn |-> c, phase |-> "connecting", live |-> FALSE]]
    /\ conn' = [conn EXCEPT ![c] = [call EXCEPT !.ws = w]]

\* connectRace(..., s)
Connect(c, s) ==
  /\ ~InUse(c)
  /\ Open(c, [session |-> s, closed |-> FALSE, exhausted |-> FALSE, attempts |-> 0,
              timer |-> FALSE, ws |-> Null, status |-> "connecting"])

\* App's effect: once, when the route is the board. It is never torn down.
OpenBoard ==
  /\ \A c \in Conns : conn[c] # Null => conn[c].session # Board
  /\ \E c \in Conns : Connect(c, Board)
  /\ UNCHANGED <<lanes, watch>>

\* subscribeLane: the first listener of a lane dials, the others attach.
Subscribe(l, s) ==
  /\ watch[l] = Null
  /\ \/ /\ lanes[s] # Null
        /\ watch' = [watch EXCEPT ![l] = lanes[s]]
        /\ UNCHANGED <<lanes, conn, socket>>
     \/ /\ lanes[s] = Null
        /\ \E c \in Conns :
             /\ Connect(c, s)
             /\ lanes' = [lanes EXCEPT ![s] = c]
             /\ watch' = [watch EXCEPT ![l] = c]

\* The function connectRace returns.
Close(c) ==
  /\ conn' = [conn EXCEPT ![c].closed = TRUE]
  /\ socket' = [w \in Sockets |->
                  IF w = conn[c].ws THEN [socket[w] EXCEPT !.phase = "closing"]
                                    ELSE socket[w]]

LastOne(l) == \A k \in Watchers \ {l} : watch[k] # watch[l]

\* The registry entry outlives its connection.
Unsubscribe_KeepsEntry(l) ==
  /\ watch[l] # Null
  /\ watch' = [watch EXCEPT ![l] = Null]
  /\ IF LastOne(l) THEN Close(watch[l]) ELSE UNCHANGED <<conn, socket>>
  /\ UNCHANGED lanes

\* The function subscribeLane returns: the last listener closes the connection.
Unsubscribe(l) ==
  /\ watch[l] # Null
  /\ watch' = [watch EXCEPT ![l] = Null]
  /\ IF LastOne(l)
     THEN /\ lanes' = [lanes EXCEPT ![conn[watch[l]].session] = Null]
          /\ Close(watch[l])
     ELSE UNCHANGED <<lanes, conn, socket>>

-----------------------------------------------------------------------------
\* onopen that takes the handshake for proof of a healthy feed.
Opened_Refills(w) ==
  /\ socket[w] # Null /\ socket[w].phase = "connecting"
  /\ socket' = [socket EXCEPT ![w].phase = "open"]
  /\ conn' = [conn EXCEPT ![socket[w].conn].status = "connecting",
                          ![socket[w].conn].attempts = 0]
  /\ UNCHANGED <<lanes, watch>>

\* onopen
Opened(w) ==
  /\ socket[w] # Null /\ socket[w].phase = "connecting"
  /\ socket' = [socket EXCEPT ![w].phase = "open"]
  /\ conn' = [conn EXCEPT ![socket[w].conn].status = "connecting"]
  /\ UNCHANGED <<lanes, watch>>

\* onmessage, the first of this socket that parses: it refills the budget.
FirstMessage(w) ==
  /\ socket[w] # Null /\ socket[w].phase = "open" /\ ~socket[w].live
  /\ socket' = [socket EXCEPT ![w].live = TRUE]
  /\ conn' = [conn EXCEPT ![socket[w].conn].attempts = 0,
                          ![socket[w].conn].status = "live"]
  /\ UNCHANGED <<lanes, watch>>

Gone(w) == socket' = [socket EXCEPT ![w] = Null] /\ UNCHANGED <<lanes, watch>>

\* onclose of a socket nobody asked to close, with the retry timer armed also
\* when the budget is spent.
Lost_KeepsTimer(w) ==
  /\ socket[w] # Null /\ Unreleased(socket[w].conn)
  /\ LET c == socket[w].conn
         n == conn[c].attempts + 1
     IN  conn' = [conn EXCEPT ![c] =
                    [@ EXCEPT !.attempts = n, !.ws = Null, !.timer = TRUE,
                              !.exhausted = n > MaxAttempts,
                              !.status = IF n > MaxAttempts THEN "offline" ELSE "reconnecting"]]
  /\ Gone(w)

\* ...with no retry after a dial that never opened.
Lost_OnlyIfOpened(w) ==
  /\ socket[w] # Null /\ Unreleased(socket[w].conn)
  /\ LET c == socket[w].conn
         n == conn[c].attempts + 1
     IN  conn' = [conn EXCEPT ![c] =
                    IF n > MaxAttempts
                    THEN [@ EXCEPT !.attempts = n, !.ws = Null, !.exhausted = TRUE, !.status = "offline"]
                    ELSE [@ EXCEPT !.attempts = n, !.ws = Null, !.status = "reconnecting",
                                   !.timer = socket[w].phase = "open"]]
  /\ Gone(w)

\* onclose of a socket nobody asked to close: arm the retry timer, or give up.
Lost(w) ==
  /\ socket[w] # Null /\ Unreleased(socket[w].conn)
  /\ LET c == socket[w].conn
         n == conn[c].attempts + 1
     IN  conn' = [conn EXCEPT ![c] =
                    IF n > MaxAttempts
                    THEN [@ EXCEPT !.attempts = n, !.ws = Null, !.exhausted = TRUE, !.status = "offline"]
                    ELSE [@ EXCEPT !.attempts = n, !.ws = Null, !.timer = TRUE, !.status = "reconnecting"]]
  /\ Gone(w)

\* onclose of a released connection's socket returns at once.
Closed(w) ==
  /\ socket[w] # Null /\ ~Unreleased(socket[w].conn)
  /\ conn' = [conn EXCEPT ![socket[w].conn].ws = Null]
  /\ Gone(w)

\* open() reports a first dial at every dial.
TimerFires_Announced(c) ==
  /\ conn[c] # Null /\ conn[c].timer
  /\ Open(c, [conn[c] EXCEPT !.timer = FALSE, !.status = "connecting"])
  /\ UNCHANGED <<lanes, watch>>

\* The pending setTimeout runs open(), which does not look at `closed`.
TimerFires(c) ==
  /\ conn[c] # Null /\ conn[c].timer
  /\ Open(c, [conn[c] EXCEPT !.timer = FALSE])
  /\ UNCHANGED <<lanes, watch>>

\* retry(), by the Reconnect button. Only App keeps the handle that comes with
\* 'offline'; lanes.ts's listener takes the status alone.
Retry(c) ==
  /\ Unreleased(c) /\ conn[c].exhausted
  /\ conn[c].session = Board
  /\ Open(c, [conn[c] EXCEPT !.exhausted = FALSE, !.attempts = 0, !.status = "reconnecting"])
  /\ UNCHANGED <<lanes, watch>>

Next ==
  \/ OpenBoard
  \/ \E l \in Watchers : Unsubscribe(l) \/ \E s \in Lanes : Subscribe(l, s)
  \/ \E w \in Sockets : Opened(w) \/ FirstMessage(w) \/ Lost(w) \/ Closed(w)
  \/ \E c \in Conns : TimerFires(c) \/ Retry(c)

Spec == Init /\ [][Next]_vars

\* Timers fire, and a socket that is dialled opens, and a lane publishes, unless
\* the socket is lost first. Nobody need press Reconnect, and no component need
\* come or go.
Fairness ==
  /\ \A c \in Conns : WF_vars(TimerFires(c))
  /\ \A w \in Sockets : WF_vars(Opened(w) \/ FirstMessage(w) \/ Closed(w))

FairSpec == Spec /\ Fairness

-----------------------------------------------------------------------------
\* A connection that nobody has released is in exactly one of three places:
\* it has a socket, or a pending timer, or it is offline and waits for a press.
\* So no outage, press or flap gives it two sockets, and none leaves it with
\* nothing that will ever happen. A released one has at most a remnant.
OneWayOn ==
  \A c \in Conns : conn[c] # Null =>
    /\ \A v, w \in SocketsOf(c) : v = w
    /\ conn[c].timer => SocketsOf(c) = {} /\ ~conn[c].exhausted
    /\ conn[c].exhausted => SocketsOf(c) = {}
    /\ conn[c].closed \/ conn[c].timer \/ conn[c].exhausted \/ SocketsOf(c) # {}

\* "One connection per session key, however many subscribers": whoever watches
\* a lane has the connection in the registry, it is not a released one, and the
\* registry holds none that nobody watches.
SharedLane ==
  /\ \A l \in Watchers : watch[l] # Null =>
       Unreleased(watch[l]) /\ lanes[conn[watch[l]].session] = watch[l]
  /\ \A s \in Lanes : lanes[s] # Null =>
       conn[lanes[s]].session = s /\ \E l \in Watchers : watch[l] = lanes[s]

\* What the badge says is what the connection is doing: 'live' only on a socket
\* that has brought a frame, 'reconnecting' from a loss until a dial succeeds
\* (it used to blink to 'connecting' at every dial), 'offline' when it gave up.
StatusTruthful ==
  \A c \in Conns : Unreleased(c) =>
    CASE conn[c].status = "live" ->
           \E w \in SocketsOf(c) : socket[w].live
      [] conn[c].status = "reconnecting" ->
           conn[c].timer \/ \E w \in SocketsOf(c) : socket[w].phase = "connecting"
      [] conn[c].status = "offline" ->
           conn[c].exhausted
      [] conn[c].status = "connecting" ->
           \E w \in SocketsOf(c) :
             /\ ~socket[w].live
             /\ socket[w].phase = "open"
                  \/ (socket[w].phase = "connecting" /\ conn[c].attempts = 0)

\* A gateway that accepts every dial and drops it cannot keep a connection
\* retrying for ever: it hears a frame again and again, or gives up.
BudgetEnds ==
  \A c \in Conns :
    []<>(Unreleased(c) /\ conn[c].timer) =>
      []<>(~Unreleased(c) \/ conn[c].status \in {"live", "offline"})

\* When outages end, every connection comes to be live, unless it had given up
\* or somebody keeps leaving its lane.
Heals ==
  <>[][\A w \in Sockets : ~Lost(w)]_vars =>
    \A c \in Conns :
      []<>(~Unreleased(c) \/ conn[c].status \in {"live", "offline"})
=============================================================================
