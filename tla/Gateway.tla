------------------------------- MODULE Gateway -------------------------------
(***************************************************************************)
(* The gateway's active hub (internal/app/gateway.go): NewGateway seeds    *)
(* it, a consume goroutine folds the frames of one subscription into it,   *)
(* and SwitchTo, at an operator's request, repoints it at another lane.    *)
(*                                                                         *)
(* The hub is reduced to its authoritative snapshot; module Hub has its    *)
(* clients. A goroutine and its subscription are named by the generation   *)
(* they were started for, so Subs is a set of generations.                 *)
(***************************************************************************)
EXTENDS Seam

CONSTANTS InitSession,  \* the lane the gateway is configured with
          Sources       \* allowedSources: the lanes an operator may switch to

ASSUME GatewayAssumption ==
  InitSession \in Sessions /\ Sources \subseteq Sessions /\ Subs \subseteq Nat /\ 0 \in Subs

VARIABLES
  session,  \* g.session, Nil until NewGateway returns
  gen,      \* g.gen
  hub,      \* the hub's snapshot, Nil until NewGateway returns
  op,       \* the SwitchTo that holds g.mu, or NewGateway; pc "idle" if none
  cons      \* [Subs -> record or Nil]: the consume goroutines that run

gwVars == <<session, gen, hub, op, cons>>
vars == <<seamVars, gwVars>>

Ops == [pc : {"idle", "subscribe", "get", "commit"}, target : Sessions \cup {Nil},
        snap : Snapshots \cup {Nil}]

Consumers == [cancelled : BOOLEAN, held : Frames \cup {Nil}]

ASSUME NoConsumerAssumption == Nil \notin Consumers

Idle == [pc |-> "idle", target |-> Nil, snap |-> Nil]
Begin(s) == [pc |-> "subscribe", target |-> s, snap |-> Nil]
Started == [cancelled |-> FALSE, held |-> Nil]

Booted == hub # Nil
Running(g) == cons[g] # Nil
MuFree == op.pc = "idle"

\* The generation the operation in progress will run as.
NextGen == IF Booted THEN gen + 1 ELSE 0

Init ==
  /\ SeamInit
  /\ session = Nil
  /\ gen = 0
  /\ hub = Nil
  /\ op = Begin(InitSession)
  /\ cons = [g \in Subs |-> Nil]

\* The gateway process dies, with its connections, and is started again.
GatewayCrash ==
  /\ "restart" \in Faults
  /\ Booted
  /\ session' = Nil
  /\ gen' = 0
  /\ hub' = Nil
  /\ op' = Begin(InitSession)
  /\ cons' = [g \in Subs |-> Nil]
  /\ chan' = [g \in Subs |-> Nil]
  /\ UNCHANGED <<store, writer>>

-----------------------------------------------------------------------------
\* SwitchTo: a request for the lane already on show returns without any effect.
SwitchTo(target) ==
  /\ Booted
  /\ MuFree
  /\ target # session
  /\ gen + 1 \in Subs   \* bound on the number of switches
  /\ op' = Begin(target)
  /\ UNCHANGED <<seamVars, session, gen, hub, cons>>

OpenChannel == chan' = [chan EXCEPT ![NextGen] =
                          [session |-> op.target, conn |-> "first", queue |-> <<>>]]

\* The two calls of subscribeAndSnapshot in the opposite order.
SubscribeAndSnapshot_GetFirst ==
  /\ \/ /\ op.pc = "subscribe"
        /\ op' = [op EXCEPT !.pc = "get", !.snap = Loaded(op.target)]
        /\ UNCHANGED chan
     \/ /\ op.pc = "get"
        /\ op' = [op EXCEPT !.pc = "commit"]
        /\ OpenChannel
  /\ UNCHANGED <<store, writer, session, gen, hub, cons>>

\* subscribeAndSnapshot: SUBSCRIBE and wait until it is live, then GET.
SubscribeAndSnapshot ==
  /\ \/ /\ op.pc = "subscribe"
        /\ op' = [op EXCEPT !.pc = "get"]
        /\ OpenChannel
     \/ /\ op.pc = "get"
        /\ op' = [op EXCEPT !.pc = "commit", !.snap = Loaded(op.target)]
        /\ UNCHANGED chan
  /\ UNCHANGED <<store, writer, session, gen, hub, cons>>

\* Redis refuses the SUBSCRIBE or the GET. SwitchTo returns the error and the
\* lane on show stays; NewGateway's caller exits, and is started again. Only a
\* refused GET closes the PubSub; the one that a refused SUBSCRIBE leaves behind
\* has no reader and is kept in module Registry, not here.
OpFails ==
  /\ "gateway" \in Faults
  /\ op.pc \in {"subscribe", "get"}
  /\ chan' = [chan EXCEPT ![NextGen] = Nil]
  /\ op' = IF Booted THEN Idle ELSE Begin(InitSession)
  /\ UNCHANGED <<store, writer, session, gen, hub, cons>>

Cancelled == IF Running(gen) THEN [cons EXCEPT ![gen].cancelled = TRUE] ELSE cons

\* The commit without g.cancel().
Commit_NoCancel ==
  /\ op.pc = "commit"
  /\ hub' = op.snap
  /\ session' = op.target
  /\ gen' = NextGen
  /\ cons' = [cons EXCEPT ![NextGen] = Started]
  /\ op' = Idle
  /\ UNCHANGED seamVars

\* The rest of SwitchTo, under g.mu throughout: cancel the old goroutine, reset
\* the hub, bump the generation, start the new goroutine. The rest of
\* NewGateway does the same with no goroutine to cancel.
Commit ==
  /\ op.pc = "commit"
  /\ hub' = op.snap
  /\ session' = op.target
  /\ gen' = NextGen
  /\ cons' = [Cancelled EXCEPT ![NextGen] = Started]
  /\ op' = Idle
  /\ UNCHANGED seamVars

-----------------------------------------------------------------------------
\* consume takes the next message out of its channel...
Receive(g) ==
  /\ Running(g)
  /\ cons[g].held = Nil
  /\ chan[g].queue # <<>>
  /\ cons' = [cons EXCEPT ![g].held = Head(chan[g].queue)]
  /\ chan' = [chan EXCEPT ![g].queue = Tail(@)]
  /\ UNCHANGED <<store, writer, session, gen, hub, op>>

\* consume returns and closes its subscription.
Exit(g) ==
  /\ cons' = [cons EXCEPT ![g] = Nil]
  /\ chan' = [chan EXCEPT ![g] = Nil]

\* ...or sees its context cancelled, whether or not a message waits: the select
\* may take either branch. Nothing but this return closes the channel.
Return(g) ==
  /\ Running(g)
  /\ cons[g].held = Nil
  /\ cons[g].cancelled
  /\ Exit(g)
  /\ UNCHANGED <<store, writer, session, gen, hub, op>>

Release(g) == cons' = [cons EXCEPT ![g].held = Nil] /\ UNCHANGED chan

\* The frame applied whatever generation is current.
ApplyHeld_NoGenCheck(g) ==
  /\ Running(g) /\ cons[g].held # Nil /\ MuFree
  /\ hub' = Apply(hub, cons[g].held)
  /\ Release(g)
  /\ UNCHANGED <<store, writer, session, gen, op>>

\* A goroutine that takes a frame the hub ignores for a sign that it is stale.
ApplyHeld_StopsOnStale(g) ==
  /\ Running(g) /\ cons[g].held # Nil /\ MuFree
  /\ IF g = gen /\ ~Stale(hub, cons[g].held)
     THEN hub' = Apply(hub, cons[g].held) /\ Release(g)
     ELSE Exit(g) /\ UNCHANGED hub
  /\ UNCHANGED <<store, writer, session, gen, op>>

\* With g.mu: fold the frame while g is the current generation, else return.
ApplyHeld(g) ==
  /\ Running(g) /\ cons[g].held # Nil /\ MuFree
  /\ IF g = gen THEN hub' = Apply(hub, cons[g].held) /\ Release(g)
                ELSE Exit(g) /\ UNCHANGED hub
  /\ UNCHANGED <<store, writer, session, gen, op>>

Consume(g) == Receive(g) \/ Return(g) \/ ApplyHeld(g)

OpStep == SubscribeAndSnapshot \/ Commit

Next ==
  \/ SeamNext /\ UNCHANGED gwVars
  \/ \E s \in Sources : SwitchTo(s)
  \/ OpStep
  \/ OpFails \/ GatewayCrash
  \/ \E g \in Subs : Consume(g)

Spec == Init /\ [][Next]_vars

\* Goroutines run, Redis answers, writers keep publishing. An operator need
\* never switch, and nothing that fails is required to.
Fairness ==
  /\ \A s \in Sessions : WF_vars(WriterStep(s) /\ UNCHANGED gwVars)
  /\ WF_vars(OpStep)
  /\ \A g \in Subs : WF_vars(Consume(g))

FairSpec == Spec /\ Fairness

-----------------------------------------------------------------------------
TypeOK ==
  /\ SeamTypeOK
  /\ session \in Sessions \cup {Nil}
  /\ gen \in Subs
  /\ hub \in Snapshots \cup {Nil}
  /\ op \in Ops
  /\ cons \in [Subs -> Consumers \cup {Nil}]
  /\ (session = Nil) <=> (hub = Nil)

\* What lane s ever publishes, but for its header.
LaneData(s) ==
  (UNION {Carried(Clip[s].lines[i]) : i \in DOMAIN Clip[s].lines})
    \cup Range(Clip[s].radio)

\* "Lanes never touch each other's state" (CONTEXT.md): the board shows nothing
\* that the lane on show did not publish, whatever the goroutines of earlier
\* lanes still hold when SwitchTo resets the hub.
LaneIsolation ==
  Booted =>
    /\ hub.session = session
    /\ hub.header \in {Nil, Clip[session].header}
    /\ Carried(hub) \subseteq LaneData(session)

\* The revs that someone downstream of lane s's writer has passed, or will.
Passed(s) ==
  LET of == {g \in Subs : chan[g] # Nil /\ chan[g].session = s}
      holding == {g \in of : Running(g) /\ cons[g].held # Nil}
  IN  (UNION {{f.rev : f \in Range(chan[g].queue)} : g \in of})
        \cup {cons[g].held.rev : g \in holding}
        \cup (IF session = s THEN {hub.rev} ELSE {})

\* The Rev of the next frame that a running writer will hand to Redis.
NextRev(s) ==
  IF writer[s].pc = "set" THEN writer[s].frame.rev ELSE writer[s].snap.rev + 1

\* Writer.Run's promise, and starting_rev's: no restart, whatever it interrupts,
\* makes the writer emit a Rev that the gateway has already passed, which Apply
\* would silently drop, freezing the board.
RestartNeverReemits ==
  \A s \in Sessions : writer[s].pc \in {"ready", "set"} =>
    \A r \in Passed(s) : r < NextRev(s)

\* The frames of the lane on show that the hub has not folded yet.
InFlight ==
  (IF cons[gen].held = Nil THEN <<>> ELSE <<cons[gen].held>>)
    \o chan[gen].queue \o Unpublished(writer[session])

\* Subscribing before reading the snapshot, and storing the snapshot before
\* publishing the frame, together lose nothing: at every moment the hub becomes
\* the writer's own snapshot by folding what is in flight, and no more. A hub
\* seeded before the lane's first SET lacks the header and the baked radio.
HubCatchesUp ==
  Booted /\ writer[session].pc # "down" =>
    LET folded == Folded(hub, InFlight)
        snap == writer[session].snap
    IN  /\ FrameFields(folded) = FrameFields(snap)
        /\ hub.header # Nil => folded = snap

\* A frame of the lane on show is on the board in the end, unless the operator
\* switches away first.
FramesArrive ==
  \A s \in Sessions, r \in 1..MaxRev :
    (session = s /\ StoredRev(s) >= r) ~> (session # s \/ hub.rev >= r)

\* A superseded goroutine ends and closes its subscription, also when its lane
\* never publishes again.
SupersededExit ==
  \A g \in Subs : (Booted /\ g < gen) ~> (cons[g] = Nil /\ chan[g] = Nil)

\* "any missed frame is healed by the next snapshot. If a gateway's subscription
\* blips, it re-GETs the snapshot and resumes." (docs/F1_Race_Tracker_Tech_Scope.md
\* 2.5): a hub that has resumed, up to its writer's latest Rev with nothing in
\* flight, shows what the writer published.
BlipHeals ==
  Booted /\ writer[session].pc = "ready" /\ InFlight = <<>> =>
    LET snap == writer[session].snap
    IN  hub.rev = snap.rev => FrameFields(hub) = FrameFields(snap)

Board == INSTANCE LaneBoard
           WITH lane <- session,
                shown <- IF Booted THEN hub.rev ELSE 0,
                latest <- [s \in Sessions |-> StoredRev(s)]

\* The gateway implements the board that LaneBoard describes.
ImplementsBoard == Board!Spec
=============================================================================
