------------------------------- MODULE Registry -------------------------------
(***************************************************************************)
(* The gateway's registry hubs (internal/app/gateway.go): the first        *)
(* request for /ws?session=s makes lane s a hub of its own, under regMu    *)
(* throughout, and every later one is served by that hub. A registry hub   *)
(* is never switched and lives as long as the gateway.                     *)
(*                                                                         *)
(* A request, the subscription it opens, the hub it makes and the consume  *)
(* goroutine of that hub share a name: Subs is a set of requests. A hub is *)
(* its authoritative snapshot; module Hub has its clients.                 *)
(***************************************************************************)
EXTENDS Seam

CONSTANT AllowedSessions  \* allowedSessions: what ?session= may name

ASSUME RegistryAssumption == AllowedSessions \subseteq Sessions /\ Nil \notin Subs

VARIABLES
  regMu,     \* the request that holds regMu, or Nil
  req,       \* [Subs -> record]: the requests for a lane
  registry,  \* [Sessions -> Subs or Nil]: g.registry
  hub,       \* [Subs -> Snapshots or Nil]: the hubs made so far
  cons       \* [Subs -> record or Nil]: the consume goroutines that run

regVars == <<regMu, req, registry, hub, cons>>
vars == <<seamVars, regVars>>

Requests ==
  [pc   : {"new", "waiting", "subscribe", "get", "commit", "served",
           "noSubscribe", "noGet"},   \* refused, by the call that failed
   lane : Sessions \cup {Nil},
   snap : Snapshots \cup {Nil},
   by   : Subs \cup {Nil}]     \* the hub whose ServeWS it ends in

Consumers == [held : Frames \cup {Nil}]

ASSUME NoConsumerAssumption == Nil \notin Consumers

New == [pc |-> "new", lane |-> Nil, snap |-> Nil, by |-> Nil]
Started == [held |-> Nil]
Running(h) == cons[h] # Nil

Init ==
  /\ SeamInit
  /\ regMu = Nil
  /\ req = [r \in Subs |-> New]
  /\ registry = [s \in Sessions |-> Nil]
  /\ hub = [h \in Subs |-> Nil]
  /\ cons = [h \in Subs |-> Nil]

-----------------------------------------------------------------------------
\* wsHandler: a request for any other session gets a 400 and touches nothing.
Ask(r, s) ==
  /\ req[r].pc = "new"
  /\ req' = [req EXCEPT ![r].lane = s, ![r].pc = "waiting"]
  /\ UNCHANGED <<seamVars, regMu, registry, hub, cons>>

ServedBy(r, h) == [req EXCEPT ![r].pc = "served", ![r].by = h]

\* The registry read before the mutex is taken, and not again under it.
Lock_Unchecked(r) ==
  /\ req[r].pc = "waiting"
  /\ LET h == registry[req[r].lane]
     IN  \/ h # Nil /\ req' = ServedBy(r, h)
         \/ h = Nil /\ req' = [req EXCEPT ![r].pc = "subscribe"]
  /\ UNCHANGED <<seamVars, regMu, registry, hub, cons>>

\* getOrCreateHub takes regMu: the lane has its hub, or it is made now.
Lock(r) ==
  /\ req[r].pc = "waiting"
  /\ regMu = Nil
  /\ LET h == registry[req[r].lane]
     IN  \/ h # Nil /\ req' = ServedBy(r, h) /\ UNCHANGED regMu
         \/ h = Nil /\ req' = [req EXCEPT ![r].pc = "subscribe"] /\ regMu' = r
  /\ UNCHANGED <<seamVars, registry, hub, cons>>

OpenChannel(r) ==
  chan' = [chan EXCEPT ![r] = [session |-> req[r].lane, conn |-> "first", queue |-> <<>>]]

\* The two calls in the opposite order.
SubscribeAndSnapshot_GetFirst(r) ==
  /\ \/ /\ req[r].pc = "subscribe"
        /\ req' = [req EXCEPT ![r].pc = "get", ![r].snap = Loaded(req[r].lane)]
        /\ UNCHANGED chan
     \/ /\ req[r].pc = "get"
        /\ req' = [req EXCEPT ![r].pc = "commit"]
        /\ OpenChannel(r)
  /\ UNCHANGED <<store, writer, regMu, registry, hub, cons>>

\* subscribeAndSnapshot: SUBSCRIBE and wait until it is live, then GET.
SubscribeAndSnapshot(r) ==
  /\ \/ /\ req[r].pc = "subscribe"
        /\ req' = [req EXCEPT ![r].pc = "get"]
        /\ OpenChannel(r)
     \/ /\ req[r].pc = "get"
        /\ req' = [req EXCEPT ![r].pc = "commit", ![r].snap = Loaded(req[r].lane)]
        /\ UNCHANGED chan
  /\ UNCHANGED <<store, writer, regMu, registry, hub, cons>>

\* The SUBSCRIBE fails: subscribeAndSnapshot returns without closing its PubSub,
\* which may have been subscribed all the same, or be so from its reconnection on.
NoSubscribe(r) ==
  /\ req[r].pc = "subscribe"
  /\ OpenChannel(r) \/ UNCHANGED chan
  /\ req' = [req EXCEPT ![r].pc = "noSubscribe"]

\* The GET fails: here the PubSub is closed.
NoGet(r) ==
  /\ req[r].pc = "get"
  /\ chan' = [chan EXCEPT ![r] = Nil]
  /\ req' = [req EXCEPT ![r].pc = "noGet"]

\* A failed call that leaves the mutex locked: no deferred unlock.
Fails_KeepsLock(r) ==
  /\ "gateway" \in Faults
  /\ NoSubscribe(r) \/ NoGet(r)
  /\ UNCHANGED <<store, writer, regMu, registry, hub, cons>>

\* Either way a 502, and the deferred unlock.
Fails(r) ==
  /\ "gateway" \in Faults
  /\ NoSubscribe(r) \/ NoGet(r)
  /\ regMu' = Nil
  /\ UNCHANGED <<store, writer, registry, hub, cons>>

\* The rest of getOrCreateHub: the hub is made and entered, its goroutine started.
Commit(r) ==
  /\ req[r].pc = "commit"
  /\ hub' = [hub EXCEPT ![r] = req[r].snap]
  /\ registry' = [registry EXCEPT ![req[r].lane] = r]
  /\ cons' = [cons EXCEPT ![r] = Started]
  /\ req' = ServedBy(r, r)
  /\ regMu' = Nil
  /\ UNCHANGED seamVars

-----------------------------------------------------------------------------
Receive(h) ==
  /\ Running(h) /\ cons[h].held = Nil
  /\ chan[h].queue # <<>>
  /\ cons' = [cons EXCEPT ![h].held = Head(chan[h].queue)]
  /\ chan' = [chan EXCEPT ![h].queue = Tail(@)]
  /\ UNCHANGED <<store, writer, regMu, req, registry, hub>>

\* consume without a generation: the frame is folded whatever else goes on. It
\* never returns: no one cancels its context, and no one closes its channel.
ApplyHeld(h) ==
  /\ Running(h) /\ cons[h].held # Nil
  /\ hub' = [hub EXCEPT ![h] = Apply(@, cons[h].held)]
  /\ cons' = [cons EXCEPT ![h].held = Nil]
  /\ UNCHANGED <<seamVars, regMu, req, registry>>

Consume(h) == Receive(h) \/ ApplyHeld(h)

Serve(r) == Lock(r) \/ SubscribeAndSnapshot(r) \/ Commit(r)

Next ==
  \/ SeamNext /\ UNCHANGED regVars
  \/ \E r \in Subs : (\E s \in AllowedSessions : Ask(r, s)) \/ Serve(r) \/ Fails(r) \/ Consume(r)

Spec == Init /\ [][Next]_vars

\* A request's goroutine runs, and Redis answers or refuses: no request waits for a
\* writer or a consumer. Each holds the mutex once, so weak fairness is enough for
\* the next.
Fairness == \A r \in Subs : WF_vars(Serve(r))

FairSpec == Spec /\ Fairness

-----------------------------------------------------------------------------
Served == {r \in Subs : req[r].pc = "served"}

\* "getOrCreateHub must return the SAME hub for a repeated session key"
\* (gateway_test.go:320), in any interleaving of requests, and after failures; and
\* each subscription but those that a failed SUBSCRIBE left behind feeds the hub that
\* its lane's requests are served by, or belongs to the one request that is making
\* it: a failed GET leaves none.
OneHub ==
  /\ \A r, q \in Served : req[r].lane = req[q].lane => req[r].by = req[q].by
  /\ \A i \in Subs : chan[i] # Nil /\ req[i].pc # "noSubscribe" =>
       i = regMu \/ (registry[chan[i].session] = i /\ Running(i))

\* The lanes whose hub has its goroutine, and that its subscription without a break.
Fed ==
  {s \in Sessions :
     registry[s] # Nil /\ Running(registry[s]) /\ chan[registry[s]].conn = "first"}

InFlight(s) ==
  LET h == registry[s]
  IN  (IF cons[h].held = Nil THEN <<>> ELSE <<cons[h].held>>)
        \o chan[h].queue \o Unpublished(writer[s])

\* Until its connection is lost, each lane's hub becomes its writer's own
\* snapshot by folding what is in flight, at every moment, whichever request made
\* it, and when. Only a hub made before the lane's first SET lacks the header and
\* the baked radio.
HubsCatchUp ==
  \A s \in Fed : writer[s].pc # "down" =>
    LET h == hub[registry[s]]
        folded == Folded(h, InFlight(s))
        snap == writer[s].snap
    IN  /\ FrameFields(folded) = FrameFields(snap)
        /\ h.header # Nil => folded = snap

\* Every request is served or refused, also one that finds regMu held by a
\* request that then fails.
Answered ==
  \A r \in Subs : req[r].pc = "waiting" ~> req[r].pc \in {"served", "noSubscribe", "noGet"}
=============================================================================
