---------------------------- MODULE GatewayProofs ----------------------------
(***************************************************************************)
(* Proofs about module Gateway: its state is well typed, no writer ever    *)
(* repeats a Rev the gateway has passed, the board shows one lane's data,  *)
(* and the gateway implements LaneBoard; with any number of lanes and      *)
(* switches, any clip and all the faults.                                  *)
(***************************************************************************)
EXTENDS Gateway, SeamProofs

-----------------------------------------------------------------------------
(* The inductive invariant *)

ConsInv(g) ==
  Running(g) =>
    /\ Booted /\ g <= gen /\ chan[g] # Nil
    /\ g = gen => chan[g].session = session
    /\ cons[g].held # Nil => Covered(cons[g].held, chan[g].session)

OpInv ==
  /\ op.pc # "idle" => op.target \in Sessions /\ op.target # session /\ NextGen \in Subs
  /\ op.pc \in {"get", "commit"} =>
       chan[NextGen] # Nil /\ chan[NextGen].session = op.target
  /\ op.pc = "commit" =>
       /\ op.snap \in Snapshots /\ op.snap.session = op.target
       /\ op.snap.rev <= StoredRev(op.target)

HubInv == Booted => hub.session = session /\ hub.rev <= StoredRev(session)

IInv ==
  /\ TypeOK
  /\ SeamInv
  /\ \A g \in Subs : ConsInv(g)
  /\ OpInv
  /\ HubInv

-----------------------------------------------------------------------------
(* The invariant holds at first *)

LEMMA InitIInv == Init => IInv
<1> SUFFICES ASSUME Init PROVE IInv
  OBVIOUS
<1> USE DEF Init, SeamInit
<1>1. TypeOK
  <2>1. SeamTypeOK
    BY DEF SeamTypeOK, Writers, Down
  <2>2. op \in Ops
    BY GatewayAssumption DEF Begin, Ops
  <2> QED
    BY <2>1, <2>2, GatewayAssumption DEF TypeOK
<1>2. SeamInv
  BY InitSeam
<1>3. (\A g \in Subs : ConsInv(g)) /\ HubInv
  BY DEF ConsInv, HubInv, Running, Booted
<1>4. OpInv
  BY GatewayAssumption, NilAssumption DEF OpInv, Begin, NextGen, Booted
<1> QED
  BY <1>1, <1>2, <1>3, <1>4 DEF IInv

-----------------------------------------------------------------------------
(* The writers and Redis keep it *)

LEMMA SeamIInv ==
  ASSUME IInv, SeamNext, UNCHANGED gwVars
  PROVE  IInv'
<1>1. SeamInv' /\ SeamMoves
  BY SeamKept DEF IInv
<1>2. TypeOK'
  BY <1>1 DEF IInv, TypeOK, SeamInv, gwVars
<1>3. \A s \in Sessions : StoredRev(s) \in Nat /\ StoredRev(s)' \in Nat
  <2>1. SeamTypeOK /\ SeamTypeOK'
    BY <1>1 DEF IInv, TypeOK, SeamInv
  <2>2. \A s \in Sessions : StoredRev(s) \in Nat
    BY <2>1, StoredRevNat
  <2>3. \A s \in Sessions : StoredRev(s)' \in Nat
    BY <2>1 DEF SeamTypeOK, StoredRev, Snapshots
  <2> QED BY <2>2, <2>3
<1>4. \A g \in Subs : ConsInv(g)'
  <2> SUFFICES ASSUME NEW g \in Subs, Running(g) PROVE ConsInv(g)'
    BY DEF ConsInv, Running, gwVars
  <2>1. ConsInv(g) /\ cons[g] \in Consumers /\ chan[g] \in Channels
    BY DEF IInv, TypeOK, SeamTypeOK, ConsInv, Running
  <2>2. chan'[g] # Nil /\ chan'[g].session = chan[g].session
    BY <1>1, <2>1 DEF SeamMoves, ConsInv
  <2>3. cons[g].held # Nil => Covered(cons[g].held, chan[g].session)'
    <3> SUFFICES ASSUME cons[g].held # Nil PROVE Covered(cons[g].held, chan[g].session)'
      OBVIOUS
    <3>1. cons[g].held \in Frames /\ chan[g].session \in Sessions
      BY <2>1 DEF Consumers, Channels
    <3>2. Covered(cons[g].held, chan[g].session)
      BY <2>1 DEF ConsInv
    <3>3. StoredRev(chan[g].session) <= StoredRev(chan[g].session)'
      BY <1>1, <3>1, <2>2 DEF SeamMoves
    <3> QED BY <1>3, <2>2, <3>1, <3>2, <3>3 DEF Covered, Frames, gwVars
  <2> QED BY <2>1, <2>2, <2>3 DEF ConsInv, Running, Booted, gwVars
<1>5. OpInv'
  <2>1. op.pc = "commit" => \A r \in Sessions : r = op.target => op.snap.rev <= StoredRev(r)'
    BY <1>1, <1>3 DEF IInv, OpInv, SeamMoves, Snapshots
  <2> QED BY <1>1, <2>1 DEF IInv, OpInv, SeamMoves, NextGen, Booted, gwVars
<1>6. HubInv'
  <2>1. Booted => session \in Sessions /\ hub.rev \in Nat
    BY DEF IInv, TypeOK, Booted, Snapshots
  <2> QED BY <1>1, <1>3, <2>1 DEF IInv, SeamMoves, HubInv, Booted, gwVars
<1> QED
  BY <1>1, <1>2, <1>4, <1>5, <1>6 DEF IInv

-----------------------------------------------------------------------------
(* The gateway keeps it *)

\* What depends on the writers and the store alone.
LEMMA WritersKept ==
  ASSUME IInv, UNCHANGED <<store, writer>>
  PROVE  /\ \A s \in Sessions : WriterInv(s)'
         /\ StoreInv'
         /\ \A s \in Sessions : StoredRev(s) \in Nat
<1>1. \A s \in Sessions : StoredRev(s) \in Nat
  BY StoredRevNat DEF IInv, TypeOK
<1> QED
  BY <1>1 DEF IInv, SeamInv, WriterInv, StoreInv, StoredRev

\* The generation that the operation in progress will run as has no goroutine.
LEMMA NextGenFresh ==
  ASSUME IInv
  PROVE  /\ NextGen \in Nat
         /\ gen \in Nat
         /\ \A g \in Subs : Running(g) => g # NextGen /\ g <= NextGen
<1>1. gen \in Nat /\ \A g \in Subs : g \in Nat
  BY GatewayAssumption DEF IInv, SeamInv, TypeOK
<1> QED
  BY <1>1 DEF IInv, SeamInv, ConsInv, NextGen

LEMMA SwitchToIInv ==
  ASSUME IInv, NEW s \in Sources, SwitchTo(s)
  PROVE  IInv'
<1> USE DEF SwitchTo
<1>1. s \in Sessions /\ op' = Begin(s) /\ op' \in Ops
  BY GatewayAssumption DEF Begin, Ops
<1>2. TypeOK'
  BY <1>1 DEF IInv, SeamInv, TypeOK, SeamTypeOK, seamVars
<1>3. (\A r \in Sessions : WriterInv(r)') /\ StoreInv'
  BY WritersKept DEF seamVars
<1>4. \A g \in Subs : ChanInv(g)' /\ ConsInv(g)'
  BY DEF IInv, SeamInv, ChanInv, ConsInv, Covered, StoredRev, Running, Booted, seamVars
<1>5. OpInv'
  BY <1>1 DEF OpInv, Begin, NextGen, Booted
<1>6. HubInv'
  BY DEF IInv, SeamInv, HubInv, StoredRev, Booted, seamVars
<1> QED
  BY <1>2, <1>3, <1>4, <1>5, <1>6 DEF IInv, SeamInv, TypeOK

\* SUBSCRIBE: the subscription opened is nobody else's.
LEMMA SubscribeIInv ==
  ASSUME IInv, op.pc = "subscribe", op' = [op EXCEPT !.pc = "get"], OpenChannel,
         UNCHANGED <<store, writer, session, gen, hub, cons>>
  PROVE  IInv'
<1> DEFINE c == [session |-> op.target, conn |-> "first", queue |-> <<>>]
<1>1. /\ op \in Ops /\ op.target \in Sessions /\ op.target # session
      /\ NextGen \in Subs /\ SeamTypeOK
  BY DEF IInv, SeamInv, TypeOK, OpInv
<1>2. c \in Channels /\ c # Nil
  <2>1. <<>> \in Seq(Frames)
    OBVIOUS
  <2>2. c \in Channels
    BY <1>1, <2>1 DEF Channels
  <2> QED BY <2>2, NoChannelAssumption
<1>3. /\ chan'[NextGen] = c
      /\ \A g \in Subs \ {NextGen} : chan'[g] = chan[g]
      /\ chan' \in [Subs -> Channels \cup {Nil}]
  BY <1>1, <1>2 DEF OpenChannel, SeamTypeOK
<1>4. op'.pc = "get" /\ op'.target = op.target /\ op' \in Ops
  BY <1>1 DEF Ops
<1>5. TypeOK'
  BY <1>3, <1>4 DEF IInv, SeamInv, TypeOK, SeamTypeOK
<1>6. (\A s \in Sessions : WriterInv(s)') /\ StoreInv'
  BY WritersKept
<1>7. \A g \in Subs : ChanInv(g)'
  BY <1>3 DEF IInv, SeamInv, ChanInv, Covered, StoredRev
<1>8. \A g \in Subs : ConsInv(g)'
  BY <1>3, NextGenFresh DEF IInv, SeamInv, ConsInv, Covered, StoredRev, Running, Booted
<1>9. OpInv'
  <2> HIDE DEF c
  <2>1. c.session = op.target
    BY DEF c
  <2> QED BY <1>1, <1>2, <1>3, <1>4, <2>1 DEF OpInv, NextGen, Booted
<1>10. HubInv'
  BY DEF IInv, SeamInv, HubInv, StoredRev, Booted
<1> QED
  BY <1>5, <1>6, <1>7, <1>8, <1>9, <1>10 DEF IInv, SeamInv, TypeOK

LEMMA GetIInv ==
  ASSUME IInv, op.pc = "get", op' = [op EXCEPT !.pc = "commit", !.snap = Loaded(op.target)],
         UNCHANGED <<chan, store, writer, session, gen, hub, cons>>
  PROVE  IInv'
<1>1. /\ op \in Ops /\ op.target \in Sessions /\ op.target # session
      /\ NextGen \in Subs /\ chan[NextGen] # Nil /\ chan[NextGen].session = op.target
  BY DEF IInv, SeamInv, TypeOK, OpInv
<1>2. /\ Loaded(op.target) \in Snapshots /\ Loaded(op.target).session = op.target
      /\ Loaded(op.target).rev = StoredRev(op.target)
  BY <1>1, LoadedFacts DEF IInv, SeamInv, TypeOK
<1>3. /\ op'.pc = "commit" /\ op'.target = op.target /\ op'.snap = Loaded(op.target)
      /\ op' \in Ops
  BY <1>1, <1>2 DEF Ops
<1>4. TypeOK'
  BY <1>3 DEF IInv, SeamInv, TypeOK, SeamTypeOK
<1>5. (\A s \in Sessions : WriterInv(s)') /\ StoreInv' /\ StoredRev(op.target) \in Nat
  BY <1>1, WritersKept
<1>6. \A g \in Subs : ChanInv(g)' /\ ConsInv(g)'
  BY DEF IInv, SeamInv, ChanInv, ConsInv, Covered, StoredRev, Running, Booted
<1>7. OpInv'
  BY <1>1, <1>2, <1>3, <1>5 DEF OpInv, NextGen, Booted, StoredRev
<1>8. HubInv'
  BY DEF IInv, SeamInv, HubInv, StoredRev, Booted
<1> QED
  BY <1>4, <1>5, <1>6, <1>7, <1>8 DEF IInv, SeamInv, TypeOK

LEMMA OpFailsIInv ==
  ASSUME IInv, OpFails
  PROVE  IInv'
<1> USE DEF OpFails
<1>1. NextGen \in Subs /\ SeamTypeOK /\ NextGen' = NextGen
  BY DEF IInv, SeamInv, TypeOK, OpInv, NextGen, Booted
<1>2. /\ chan'[NextGen] = Nil
      /\ \A g \in Subs \ {NextGen} : chan'[g] = chan[g]
      /\ chan' \in [Subs -> Channels \cup {Nil}]
  BY <1>1 DEF SeamTypeOK
<1>3. TypeOK'
  <2>1. Idle \in Ops /\ Begin(InitSession) \in Ops
    BY GatewayAssumption DEF Idle, Begin, Ops
  <2> QED BY <1>2, <2>1 DEF IInv, SeamInv, TypeOK, SeamTypeOK
<1>4. (\A s \in Sessions : WriterInv(s)') /\ StoreInv'
  BY WritersKept
<1>5. \A g \in Subs : ChanInv(g)'
  BY <1>2 DEF IInv, SeamInv, ChanInv, Covered, StoredRev
<1>6. \A g \in Subs : ConsInv(g)'
  BY <1>2, NextGenFresh DEF IInv, SeamInv, ConsInv, Covered, StoredRev, Running, Booted
<1>7. OpInv'
  <2>1. CASE Booted
    BY <2>1 DEF OpInv, Idle
  <2>2. CASE ~Booted
    <3>1. session' = Nil
      BY <2>2 DEF IInv, SeamInv, TypeOK, Booted
    <3> QED BY <1>1, <2>2, <3>1, GatewayAssumption, NilAssumption DEF OpInv, Begin
  <2> QED BY <2>1, <2>2
<1>8. HubInv'
  BY DEF IInv, SeamInv, HubInv, StoredRev, Booted
<1> QED
  BY <1>3, <1>4, <1>5, <1>6, <1>7, <1>8 DEF IInv, SeamInv, TypeOK

\* The commit, under g.mu: the new goroutine's subscription is the operation's.
LEMMA CommitIInv ==
  ASSUME IInv, Commit
  PROVE  IInv'
<1> USE DEF Commit
<1>1. /\ NextGen \in Subs /\ chan[NextGen] # Nil /\ chan[NextGen].session = op.target
      /\ op.target \in Sessions /\ op.snap \in Snapshots
      /\ op.snap.session = op.target /\ op.snap.rev <= StoredRev(op.target)
      /\ op.target # Nil /\ op.snap # Nil
  BY NilAssumption DEF IInv, SeamInv, OpInv
<1>2. cons \in [Subs -> Consumers \cup {Nil}] /\ Started \in Consumers /\ Idle \in Ops
  BY DEF IInv, SeamInv, TypeOK, Started, Consumers, Idle, Ops
<1>3. \A g \in Subs : /\ Cancelled[g] \in Consumers \cup {Nil}
                      /\ Cancelled[g] # Nil => Running(g) /\ Cancelled[g].held = cons[g].held
  <2>1. \A c \in Consumers : /\ [c EXCEPT !.cancelled = TRUE] \in Consumers
                             /\ [c EXCEPT !.cancelled = TRUE].held = c.held
    BY DEF Consumers
  <2> QED BY <1>2, <2>1 DEF Cancelled, Running
<1>4. Cancelled = [g \in Subs |-> Cancelled[g]]
  BY <1>2 DEF Cancelled
<1>5. /\ cons'[NextGen] = Started
      /\ \A g \in Subs \ {NextGen} : cons'[g] = Cancelled[g]
      /\ cons' \in [Subs -> Consumers \cup {Nil}]
  BY <1>1, <1>2, <1>3, <1>4
<1>6. TypeOK'
  BY <1>1, <1>2, <1>5 DEF IInv, SeamInv, TypeOK, SeamTypeOK, seamVars
<1>7. (\A s \in Sessions : WriterInv(s)') /\ StoreInv'
  BY WritersKept DEF seamVars
<1>8. \A g \in Subs : ChanInv(g)'
  BY DEF IInv, SeamInv, ChanInv, Covered, StoredRev, seamVars
<1>9. \A g \in Subs : ConsInv(g)'
  <2> SUFFICES ASSUME NEW g \in Subs, Running(g)' PROVE ConsInv(g)'
    BY DEF ConsInv, Running
  <2>1. CASE g = NextGen
    BY <1>1, <1>5, <2>1, NextGenFresh DEF ConsInv, Booted, Started, seamVars
  <2>2. CASE g # NextGen
    <3>1. Running(g) /\ cons'[g].held = cons[g].held
      BY <1>3, <1>5, <2>2 DEF Running
    <3>2. ConsInv(g) /\ g <= NextGen
      BY <3>1, NextGenFresh DEF IInv, SeamInv, TypeOK
    <3> QED BY <1>1, <2>2, <3>1, <3>2 DEF ConsInv, Covered, StoredRev, Booted, seamVars
  <2> QED BY <2>1, <2>2
<1>10. OpInv' /\ HubInv'
  BY <1>1 DEF OpInv, Idle, HubInv, StoredRev, seamVars
<1> QED
  BY <1>6, <1>7, <1>8, <1>9, <1>10 DEF IInv, SeamInv, TypeOK

LEMMA ReceiveIInv ==
  ASSUME IInv, NEW g \in Subs, Receive(g)
  PROVE  IInv'
<1> DEFINE q == chan[g].queue
<1>1. /\ SeamTypeOK /\ cons \in [Subs -> Consumers \cup {Nil}]
      /\ cons[g] \in Consumers /\ cons[g] # Nil
      /\ chan[g] \in Channels /\ chan[g] # Nil /\ q # <<>>
  BY DEF Receive, IInv, SeamInv, TypeOK, SeamTypeOK, ConsInv, Running
<1>2. q \in Seq(Frames) /\ chan[g].session \in Sessions
  BY <1>1 DEF Channels
<1>3. /\ Head(q) \in Frames /\ Covered(Head(q), chan[g].session)
      /\ Tail(q) \in Seq(Frames)
      /\ \A i \in DOMAIN Tail(q) : Covered(Tail(q)[i], chan[g].session)
  <2>1. \A i \in DOMAIN q : Covered(q[i], chan[g].session)
    BY <1>1 DEF IInv, SeamInv, ChanInv
  <2>2. 1 \in DOMAIN q /\ Head(q) = q[1]
    BY <1>1, <1>2
  <2>3. \A i \in DOMAIN Tail(q) : i + 1 \in DOMAIN q /\ Tail(q)[i] = q[i + 1]
    BY <1>1, <1>2
  <2> QED BY <1>1, <1>2, <2>1, <2>2, <2>3
<1>4. /\ chan'[g] \in Channels /\ chan'[g] # Nil
      /\ chan'[g].queue = Tail(q) /\ chan'[g].session = chan[g].session
      /\ \A h \in Subs \ {g} : chan'[h] = chan[h]
      /\ chan' \in [Subs -> Channels \cup {Nil}]
  <2> HIDE DEF q
  <2>1. chan' = [chan EXCEPT ![g] = [chan[g] EXCEPT !.queue = Tail(q)]]
    BY DEF Receive, q
  <2>2. [chan[g] EXCEPT !.queue = Tail(q)] \in Channels
    BY <1>1, <1>3 DEF Channels
  <2> QED BY <1>1, <2>1, <2>2, NoChannelAssumption DEF SeamTypeOK, Channels
<1>5. /\ cons'[g] \in Consumers /\ cons'[g].held = Head(q)
      /\ \A h \in Subs \ {g} : cons'[h] = cons[h]
      /\ cons' \in [Subs -> Consumers \cup {Nil}]
  BY <1>1, <1>3 DEF Receive, Consumers
<1> HIDE DEF q
<1>6. /\ UNCHANGED <<store, writer, session, gen, hub, op>>
      /\ \A s : StoredRev(s)' = StoredRev(s)
  BY DEF Receive, StoredRev
<1>7. TypeOK'
  BY <1>4, <1>5, <1>6 DEF IInv, SeamInv, TypeOK, SeamTypeOK
<1>8. (\A s \in Sessions : WriterInv(s)') /\ StoreInv'
  BY <1>6, WritersKept
<1>9. \A h \in Subs : ChanInv(h)'
  <2>1. ChanInv(g)'
    BY <1>3, <1>4, <1>6 DEF ChanInv, Covered
  <2>2. \A h \in Subs \ {g} : ChanInv(h)'
    BY <1>4, <1>6 DEF IInv, SeamInv, ChanInv, Covered
  <2> QED BY <2>1, <2>2
<1>10. \A h \in Subs : ConsInv(h)'
  <2>1. ConsInv(g)'
    <3>1. ConsInv(g) /\ Running(g)
      BY DEF IInv, SeamInv, Receive
    <3> QED BY <1>3, <1>4, <1>5, <1>6, <3>1 DEF ConsInv, Covered, Booted
  <2>2. \A h \in Subs \ {g} : ConsInv(h)'
    BY <1>4, <1>5, <1>6 DEF IInv, SeamInv, ConsInv, Covered, Running, Booted
  <2> QED BY <2>1, <2>2
<1>11. OpInv'
  BY <1>4, <1>6 DEF IInv, SeamInv, OpInv, NextGen, Booted
<1>12. HubInv'
  BY <1>6 DEF IInv, SeamInv, HubInv, Booted
<1> QED
  BY <1>7, <1>8, <1>9, <1>10, <1>11, <1>12 DEF IInv, SeamInv, TypeOK

\* A goroutine that ends takes its own subscription with it, never the one that
\* the operation in progress has opened.
LEMMA ExitIInv ==
  ASSUME IInv, NEW g \in Subs, Running(g), Exit(g),
         UNCHANGED <<store, writer, session, gen, hub, op>>
  PROVE  IInv'
<1>1. SeamTypeOK /\ cons \in [Subs -> Consumers \cup {Nil}]
  BY DEF IInv, SeamInv, TypeOK
<1>2. /\ chan'[g] = Nil /\ cons'[g] = Nil
      /\ \A h \in Subs \ {g} : chan'[h] = chan[h] /\ cons'[h] = cons[h]
      /\ chan' \in [Subs -> Channels \cup {Nil}]
      /\ cons' \in [Subs -> Consumers \cup {Nil}]
  BY <1>1 DEF Exit, SeamTypeOK
<1>3. TypeOK'
  BY <1>2 DEF IInv, SeamInv, TypeOK, SeamTypeOK
<1>4. (\A s \in Sessions : WriterInv(s)') /\ StoreInv'
  BY WritersKept
<1>5. \A h \in Subs : ChanInv(h)'
  BY <1>2 DEF IInv, SeamInv, ChanInv, Covered, StoredRev
<1>6. \A h \in Subs : ConsInv(h)'
  BY <1>2 DEF IInv, SeamInv, ConsInv, Covered, StoredRev, Running, Booted
<1>7. OpInv'
  BY <1>2, NextGenFresh DEF IInv, SeamInv, OpInv, NextGen, Booted, StoredRev
<1>8. HubInv'
  BY DEF IInv, SeamInv, HubInv, StoredRev, Booted
<1> QED
  BY <1>3, <1>4, <1>5, <1>6, <1>7, <1>8 DEF IInv, SeamInv, TypeOK

\* What a goroutine of the current generation holds is the lane's on show.
LEMMA HeldFacts ==
  ASSUME IInv, Running(gen), cons[gen].held # Nil
  PROVE  LET f == cons[gen].held
             t == Apply(hub, f)
         IN  /\ hub \in Snapshots /\ f \in Frames /\ session \in Sessions
             /\ f.session = session /\ f.rev <= StoredRev(session)
             /\ t \in Snapshots /\ t.session = session
             /\ t.rev <= StoredRev(session) /\ hub.rev <= t.rev
             /\ hub.rev \in Nat /\ t.rev \in Nat
<1>1. gen \in Subs /\ Booted /\ chan[gen] # Nil /\ chan[gen].session = session
      /\ Covered(cons[gen].held, session)
  BY DEF IInv, SeamInv, ConsInv, TypeOK
<1>2. cons[gen].held \in Frames /\ hub \in Snapshots /\ session \in Sessions
  BY <1>1 DEF IInv, SeamInv, TypeOK, Booted, Running, Consumers
<1>3. hub.session = session /\ hub.rev <= StoredRev(session)
  BY <1>1 DEF IInv, SeamInv, HubInv
<1>4. hub.rev \in Nat /\ cons[gen].held.rev \in Nat
  BY <1>2 DEF Snapshots, Frames
<1> QED
  BY <1>1, <1>2, <1>3, <1>4, ApplyFacts DEF Covered

LEMMA ApplyHeldIInv ==
  ASSUME IInv, NEW g \in Subs, ApplyHeld(g)
  PROVE  IInv'
<1>1. CASE g # gen
  BY <1>1, ExitIInv DEF ApplyHeld
<1>2. CASE g = gen
  <2>1. /\ hub' = Apply(hub, cons[gen].held) /\ op.pc = "idle"
        /\ cons' = [cons EXCEPT ![gen].held = Nil]
        /\ UNCHANGED <<store, writer, chan, session, gen, op>>
    BY <1>2 DEF ApplyHeld, Release, MuFree
  <2>2. /\ hub' \in Snapshots /\ hub'.session = session /\ hub'.rev <= StoredRev(session)
        /\ session \in Sessions /\ session # Nil /\ hub' # Nil
    BY <1>2, <2>1, HeldFacts, NilAssumption DEF ApplyHeld
  <2>3. /\ cons'[gen] \in Consumers /\ cons'[gen].held = Nil
        /\ \A h \in Subs \ {gen} : cons'[h] = cons[h]
        /\ cons' \in [Subs -> Consumers \cup {Nil}]
    BY <1>2, <2>1 DEF IInv, SeamInv, TypeOK, ApplyHeld, Running, Consumers
  <2>4. TypeOK'
    BY <2>1, <2>2, <2>3 DEF IInv, SeamInv, TypeOK, SeamTypeOK
  <2>5. (\A s \in Sessions : WriterInv(s)') /\ StoreInv'
    BY <2>1, WritersKept
  <2>6. \A h \in Subs : ChanInv(h)'
    BY <2>1 DEF IInv, SeamInv, ChanInv, Covered, StoredRev
  <2>7. \A h \in Subs : ConsInv(h)'
    <3>1. Running(gen) /\ ConsInv(gen)
      BY <1>2 DEF IInv, SeamInv, ApplyHeld
    <3> QED BY <2>1, <2>2, <2>3, <3>1 DEF IInv, SeamInv, ConsInv, Covered, StoredRev, Running, Booted
  <2>8. OpInv' /\ HubInv'
    BY <2>1, <2>2 DEF OpInv, HubInv, StoredRev
  <2> QED BY <2>4, <2>5, <2>6, <2>7, <2>8 DEF IInv, SeamInv, TypeOK
<1> QED
  BY <1>1, <1>2

LEMMA GatewayCrashIInv ==
  ASSUME IInv, GatewayCrash
  PROVE  IInv'
<1> USE DEF GatewayCrash
<1>1. Begin(InitSession) \in Ops /\ InitSession \in Sessions /\ InitSession # Nil
  BY GatewayAssumption, NilAssumption DEF Begin, Ops
<1>2. TypeOK'
  BY <1>1, GatewayAssumption DEF IInv, SeamInv, TypeOK, SeamTypeOK
<1>3. (\A s \in Sessions : WriterInv(s)') /\ StoreInv'
  BY WritersKept
<1>4. \A g \in Subs : ChanInv(g)' /\ ConsInv(g)'
  BY DEF ChanInv, ConsInv, Running
<1>5. OpInv' /\ HubInv'
  BY <1>1, GatewayAssumption DEF OpInv, HubInv, Begin, NextGen, Booted
<1> QED
  BY <1>2, <1>3, <1>4, <1>5 DEF IInv, SeamInv, TypeOK

LEMMA NextIInv == IInv /\ [Next]_vars => IInv'
<1> SUFFICES ASSUME IInv, [Next]_vars PROVE IInv'
  OBVIOUS
<1>1. CASE SeamNext /\ UNCHANGED gwVars
  BY <1>1, SeamIInv
<1>2. ASSUME NEW s \in Sources, SwitchTo(s) PROVE IInv'
  BY <1>2, SwitchToIInv
<1>3. CASE OpStep
  BY <1>3, SubscribeIInv, GetIInv, CommitIInv DEF OpStep, SubscribeAndSnapshot
<1>4. CASE OpFails \/ GatewayCrash
  BY <1>4, OpFailsIInv, GatewayCrashIInv
<1>5. ASSUME NEW g \in Subs, Consume(g) PROVE IInv'
  BY <1>5, ReceiveIInv, ApplyHeldIInv, ExitIInv DEF Consume, Return
<1>6. CASE UNCHANGED vars
  BY <1>6 DEF vars, seamVars, gwVars, IInv, SeamInv, TypeOK, SeamTypeOK, WriterInv, StoreInv,
              ChanInv, ConsInv, OpInv, HubInv, Covered, StoredRev, Running, Booted, NextGen
<1> QED
  BY <1>1, <1>2, <1>3, <1>4, <1>5, <1>6 DEF Next

\* The invariant holds throughout, faults, restarts and switches included.
THEOREM Invariant == Spec => []IInv
<1> QED
  BY InitIInv, NextIInv, PTL DEF Spec

\* Every state of the writers, of Redis and of the gateway is well typed; in
\* particular SwitchTo never resets the hub to an absent snapshot.
THEOREM TypeCorrect == Spec => []TypeOK
<1>1. IInv => TypeOK
  BY DEF IInv, SeamInv, TypeOK
<1> QED
  BY <1>1, Invariant, PTL

\* Whatever has left a writer is at or below the lane's stored Rev.
LEMMA PassedFacts ==
  ASSUME IInv, NEW s \in Sessions, NEW r \in Passed(s)
  PROVE  r \in Nat /\ r <= StoredRev(s)
<1> DEFINE of == {g \in Subs : chan[g] # Nil /\ chan[g].session = s}
           holding == {g \in of : Running(g) /\ cons[g].held # Nil}
<1>1. \/ \E g \in of : \E f \in Range(chan[g].queue) : r = f.rev
      \/ \E g \in holding : r = cons[g].held.rev
      \/ session = s /\ r = hub.rev
  BY DEF Passed
<1>2. ASSUME NEW g \in of, NEW f \in Range(chan[g].queue), r = f.rev
      PROVE  r \in Nat /\ r <= StoredRev(s)
  <2>1. PICK i \in DOMAIN chan[g].queue : f = chan[g].queue[i]
    BY <1>2 DEF Range
  <2>2. chan[g] \in Channels /\ Covered(f, s)
    BY <2>1 DEF IInv, SeamInv, TypeOK, SeamTypeOK, ChanInv
  <2>3. f \in Frames
    BY <2>1, <2>2 DEF Channels
  <2> QED BY <1>2, <2>2, <2>3 DEF Covered, Frames
<1>3. ASSUME NEW g \in holding, r = cons[g].held.rev
      PROVE  r \in Nat /\ r <= StoredRev(s)
  <2>1. Covered(cons[g].held, s) /\ cons[g].held \in Frames
    BY DEF IInv, SeamInv, TypeOK, ConsInv, Running, Consumers
  <2> QED BY <1>3, <2>1 DEF Covered, Frames
<1>4. CASE session = s /\ r = hub.rev
  <2>1. Booted /\ hub \in Snapshots
    BY <1>4, NilAssumption DEF IInv, SeamInv, TypeOK, Booted
  <2> QED BY <1>4, <2>1 DEF IInv, SeamInv, HubInv, Snapshots
<1> QED
  BY <1>1, <1>2, <1>3, <1>4

\* No writer, however often it was restarted and whatever it was doing when it
\* died, hands out a Rev at or below one the gateway has already passed: the
\* frame Apply would drop is never made.
THEOREM NeverReemits == Spec => []RestartNeverReemits
<1>1. IInv => RestartNeverReemits
  <2> SUFFICES ASSUME IInv, NEW s \in Sessions, writer[s].pc \in {"ready", "set"},
                      NEW r \in Passed(s)
               PROVE  r < NextRev(s)
    BY DEF RestartNeverReemits
  <2>1. r \in Nat /\ r <= StoredRev(s) /\ StoredRev(s) \in Nat
    BY PassedFacts, StoredRevNat DEF IInv, SeamInv, TypeOK
  <2>2. WriterInv(s)
    BY DEF IInv, SeamInv, TypeOK
  <2>3. CASE writer[s].pc = "ready"
    BY <2>1, <2>2, <2>3 DEF WriterInv, NextRev, Snapshots
  <2>4. CASE writer[s].pc = "set"
    BY <2>1, <2>2, <2>4 DEF WriterInv, NextRev, Frames
  <2> QED BY <2>3, <2>4
<1> QED
  BY <1>1, Invariant, PTL

-----------------------------------------------------------------------------
(* Refinement of LaneBoard *)

\* The Rev on show, LaneBoard's `shown`.
ShownRev == IF Booted THEN hub.rev ELSE 0
Latest == [s \in Sessions |-> StoredRev(s)]

\* A stored Rev changes only in a SET, which raises it and nothing else.
LEMMA StoreOnlyGrows ==
  ASSUME IInv, SeamNext, UNCHANGED gwVars
  PROVE  \/ UNCHANGED Latest
         \/ \E s \in Sessions :
              Latest'[s] \in Nat /\ Latest'[s] > Latest[s]
                /\ Latest' = [Latest EXCEPT ![s] = Latest'[s]]
<1>1. CASE UNCHANGED store
  BY <1>1 DEF Latest, StoredRev
<1>2. ASSUME NEW s \in Sessions, writer[s].pc = "set",
             store' = [store EXCEPT ![s] = writer[s].snap]
      PROVE  Latest'[s] \in Nat /\ Latest'[s] > Latest[s]
               /\ Latest' = [Latest EXCEPT ![s] = Latest'[s]]
  <2>1. /\ writer[s].snap \in Snapshots /\ writer[s].snap # Nil
        /\ StoredRev(s) < writer[s].snap.rev /\ writer[s].snap.rev \in Nat
    BY <1>2, NilAssumption DEF IInv, SeamInv, WriterInv, Snapshots
  <2>2. /\ store'[s] = writer[s].snap
        /\ \A r \in Sessions \ {s} : store'[r] = store[r]
    BY <1>2 DEF IInv, SeamInv, TypeOK, SeamTypeOK
  <2>3. /\ Latest'[s] = writer[s].snap.rev /\ Latest[s] = StoredRev(s)
        /\ \A r \in Sessions \ {s} : Latest'[r] = Latest[r]
    BY <2>1, <2>2 DEF Latest, StoredRev
  <2>4. Latest' = [Latest EXCEPT ![s] = Latest'[s]]
    BY <2>3 DEF Latest
  <2> QED BY <2>1, <2>3, <2>4
<1>3. UNCHANGED store \/ \E s \in Sessions : /\ writer[s].pc = "set"
                                              /\ store' = [store EXCEPT ![s] = writer[s].snap]
  BY DEF SeamNext, WriterStep, WriterStart, WriterFold, Publish, PublishFails, WriterCrash,
         ConnectionDrop, Resubscribe
<1> QED
  BY <1>1, <1>2, <1>3

\* Every step of the gateway is a step of the board or leaves it as it is.
LEMMA StepRefines ==
  ASSUME IInv, [Next]_vars
  PROVE  [Board!Next]_(Board!boardVars)
<1> DEFINE Same == UNCHANGED <<session, ShownRev, Latest>>
<1> SUFFICES Same \/ Board!Next
  BY DEF Board!boardVars, ShownRev, Latest
<1>1. CASE SeamNext /\ UNCHANGED gwVars
  <2>1. UNCHANGED <<session, ShownRev>>
    BY <1>1 DEF gwVars, ShownRev, Booted
  <2>2. CASE UNCHANGED Latest
    BY <2>1, <2>2
  <2>3. CASE \E s \in Sessions :
               Latest'[s] \in Nat /\ Latest'[s] > Latest[s]
                 /\ Latest' = [Latest EXCEPT ![s] = Latest'[s]]
    BY <2>1, <2>3 DEF Board!Next, Board!Store, ShownRev, Latest
  <2> QED BY <1>1, <2>2, <2>3, StoreOnlyGrows
<1>2. CASE UNCHANGED <<store, session, hub>>
  BY <1>2 DEF ShownRev, Latest, Booted, StoredRev
<1>3. CASE Commit
  <2>1. /\ op.target \in Sessions /\ op.target # session
        /\ op.snap \in Snapshots /\ op.snap # Nil
        /\ op.snap.rev \in Nat /\ op.snap.rev <= StoredRev(op.target)
    BY <1>3, NilAssumption DEF Commit, IInv, SeamInv, OpInv, Snapshots
  <2>2. StoredRev(op.target) \in Nat
    BY <2>1, StoredRevNat DEF IInv, SeamInv, TypeOK
  <2>3. /\ session' = op.target /\ ShownRev' = op.snap.rev /\ UNCHANGED Latest
    BY <1>3, <2>1 DEF Commit, seamVars, ShownRev, Booted, Latest, StoredRev
  <2>4. ShownRev' \in 0..Latest[op.target]
    BY <2>1, <2>2, <2>3 DEF Latest
  <2> QED BY <2>1, <2>3, <2>4 DEF Board!Next, Board!Change, ShownRev, Latest
<1>4. ASSUME NEW g \in Subs, ApplyHeld(g) PROVE Same \/ Board!Next
  <2>1. CASE g # gen
    BY <1>2, <1>4, <2>1 DEF ApplyHeld
  <2>2. CASE g = gen
    <3>1. Running(gen) /\ cons[gen].held # Nil /\ hub' = Apply(hub, cons[gen].held)
          /\ UNCHANGED <<store, session>>
      BY <1>4, <2>2 DEF ApplyHeld
    <3>2. /\ session \in Sessions /\ hub.rev \in Nat /\ hub'.rev \in Nat /\ hub.rev <= hub'.rev
          /\ hub'.rev <= StoredRev(session) /\ hub' \in Snapshots /\ hub \in Snapshots
      BY <3>1, HeldFacts
    <3>3. StoredRev(session) \in Nat /\ session # Nil /\ hub # Nil /\ hub' # Nil
      BY <3>2, NilAssumption, StoredRevNat DEF IInv, SeamInv, TypeOK
    <3>4. ShownRev = hub.rev /\ ShownRev' = hub'.rev /\ UNCHANGED Latest
      BY <3>1, <3>3 DEF ShownRev, Booted, Latest, StoredRev
    <3>5. CASE hub'.rev = hub.rev
      BY <3>1, <3>4, <3>5
    <3>6. CASE hub'.rev # hub.rev
      <4>1. ShownRev' \in (ShownRev + 1)..Latest[session]
        BY <3>2, <3>3, <3>4, <3>6 DEF Latest
      <4> QED BY <3>1, <3>3, <3>4, <4>1 DEF Board!Next, Board!Advance, ShownRev, Latest
    <3> QED BY <3>5, <3>6
  <2> QED BY <2>1, <2>2
<1>5. CASE GatewayCrash
  <2>1. UNCHANGED Latest /\ session' = Nil /\ ShownRev' = 0
    BY <1>5 DEF GatewayCrash, Latest, ShownRev, Booted, StoredRev
  <2> QED BY <2>1 DEF Board!Next, Board!Restart, ShownRev, Latest
<1>6. (SeamNext /\ UNCHANGED gwVars) \/ Commit \/ GatewayCrash \/ (\E g \in Subs : ApplyHeld(g))
        \/ UNCHANGED <<store, session, hub>>
  BY DEF Next, OpStep, SwitchTo, SubscribeAndSnapshot, OpFails, Consume, Receive, Return,
         vars, seamVars, gwVars
<1> QED
  BY <1>1, <1>2, <1>3, <1>4, <1>5, <1>6

\* Behind its goroutines, locks and channels, and through every fault, the
\* gateway is LaneBoard: one lane at a time, at a Rev that lane has stored,
\* forward only until the operator changes lanes.
THEOREM Refinement == Spec => ImplementsBoard
<1>1. Init => Board!Init
  BY DEF Init, SeamInit, Board!Init, Booted, StoredRev
<1>2. IInv /\ [Next]_vars => [Board!Next]_(Board!boardVars)
  BY StepRefines
<1> QED
  BY <1>1, <1>2, Invariant, PTL DEF Spec, ImplementsBoard, Board!Spec

-----------------------------------------------------------------------------
(* Lane isolation *)

\* A frame, a snapshot, that carries nothing of another lane.
PureFrame(f) == Carried(f) \subseteq LaneData(f.session)

PureSnap(snap) ==
  Carried(snap) \subseteq LaneData(snap.session)
    /\ snap.header \in {Nil, Clip[snap.session].header}

\* Every frame and snapshot anywhere in the system is pure.
DataInv ==
  /\ \A s \in Sessions :
       /\ store[s] # Nil => PureSnap(store[s])
       /\ writer[s].pc # "down" => PureSnap(writer[s].snap)
       /\ writer[s].pc \in {"set", "publish"} => PureFrame(writer[s].frame)
  /\ \A g \in Subs :
       /\ chan[g] # Nil => \A i \in DOMAIN chan[g].queue : PureFrame(chan[g].queue[i])
       /\ Running(g) /\ cons[g].held # Nil => PureFrame(cons[g].held)
  /\ op.pc = "commit" => PureSnap(op.snap)
  /\ Booted => PureSnap(hub)

LEMMA PureBaked ==
  ASSUME NEW s \in Sessions, NEW r \in Nat
  PROVE  PureSnap([Baked(s) EXCEPT !.rev = r])
BY BakedFacts DEF PureSnap, LaneData

LEMMA PureLine ==
  ASSUME NEW s \in Sessions, NEW r \in Nat, NEW i \in DOMAIN Clip[s].lines
  PROVE  PureFrame(Stamp(s, r, Line(s, i)))
<1>1. Carried(Clip[s].lines[i]) \subseteq LaneData(s)
  BY DEF LaneData
<1> QED
  BY <1>1, LineFacts, StampFacts DEF PureFrame

LEMMA PureLoaded ==
  ASSUME SeamTypeOK, DataInv, NEW s \in Sessions
  PROVE  PureSnap(Loaded(s))
<1>1. CASE store[s] = Nil
  <2>1. Carried(NewSnapshot(s)) = {} /\ NewSnapshot(s).header = Nil
    BY NewSnapshotFacts DEF NewSnapshot
  <2> QED BY <1>1, <2>1 DEF Loaded, PureSnap
<1>2. CASE store[s] # Nil
  BY <1>2 DEF Loaded, DataInv
<1> QED
  BY <1>1, <1>2

\* Folding a lane's frame into that lane's snapshot brings in nothing foreign.
LEMMA PureApply ==
  ASSUME NEW snap \in Snapshots, NEW f \in Frames, f.session = snap.session,
         PureSnap(snap), PureFrame(f)
  PROVE  PureSnap(Apply(snap, f))
BY ApplyFacts DEF PureSnap, PureFrame

LEMMA PureFold ==
  ASSUME NEW s \in Sessions, NEW snap \in Snapshots, NEW f \in Frames,
         f.session = snap.session, f.rev > snap.rev, PureSnap(snap), PureFrame(f)
  PROVE  PureSnap(Fold(s, snap, f))
BY FoldFacts DEF PureSnap, PureFrame

LEMMA InitData == Init => DataInv
BY DEF Init, SeamInit, Down, DataInv, Begin, Running, Booted

LEMMA SeamData ==
  ASSUME IInv, DataInv, SeamNext, UNCHANGED gwVars
  PROVE  DataInv'
<1>1. SeamTypeOK /\ \A s \in Sessions : WriterInv(s)
  BY DEF IInv, SeamInv, TypeOK
<1>2. /\ op.pc = "commit" => PureSnap(op.snap)
      /\ Booted => PureSnap(hub)
      /\ \A g \in Subs : Running(g) /\ cons[g].held # Nil => PureFrame(cons[g].held)
      /\ UNCHANGED gwVars
  BY DEF DataInv
<1>3. ASSUME NEW s \in Sessions, UNCHANGED <<store, chan>>,
             NEW w, writer' = [writer EXCEPT ![s] = w],
             w.pc # "down" => PureSnap(w.snap),
             w.pc \in {"set", "publish"} => PureFrame(w.frame)
      PROVE  DataInv'
  <2>1. writer'[s] = w /\ \A r \in Sessions \ {s} : writer'[r] = writer[r]
    BY <1>1, <1>3 DEF SeamTypeOK
  <2> QED BY <1>2, <1>3, <2>1 DEF DataInv, gwVars, Running, Booted
<1>4. ASSUME NEW s \in Sessions, WriterStart(s) PROVE DataInv'
  <2>1. StoredRev(s) \in Nat
    BY <1>1, StoredRevNat
  <2>2. PICK i : writer' = [writer EXCEPT ![s] =
                   [pc |-> "ready", snap |-> [Baked(s) EXCEPT !.rev = StoredRev(s)],
                    frame |-> Nil, pos |-> i]]
    BY <1>4 DEF WriterStart
  <2>3. PureSnap([Baked(s) EXCEPT !.rev = StoredRev(s)])
    BY <2>1, PureBaked
  <2> QED BY <1>3, <1>4, <2>2, <2>3 DEF WriterStart
<1>5. ASSUME NEW s \in Sessions, WriterFold(s) PROVE DataInv'
  <2> DEFINE v == writer[s]
             f == Stamp(s, v.snap.rev + 1, Line(s, v.pos))
             w == [pc |-> "set", snap |-> Fold(s, v.snap, f), frame |-> f,
                   pos |-> NextLine(s, v.pos)]
  <2>1. /\ v.snap \in Snapshots /\ v.snap.session = s /\ v.pos \in DOMAIN Clip[s].lines
        /\ PureSnap(v.snap) /\ v.snap.rev \in Nat
    BY <1>1, <1>5 DEF WriterFold, WriterInv, DataInv, Snapshots
  <2>2. /\ f \in Frames /\ f.session = s /\ f.rev = v.snap.rev + 1 /\ PureFrame(f)
    BY <2>1, LineFacts, StampFacts, PureLine
  <2>3. writer' = [writer EXCEPT ![s] = w] /\ UNCHANGED <<store, chan>>
    BY <1>5 DEF WriterFold
  <2> HIDE DEF v, f
  <2>4. PureSnap(Fold(s, v.snap, f))
    BY <2>1, <2>2, PureFold
  <2> QED BY <1>3, <2>2, <2>3, <2>4
<1>6. ASSUME NEW s \in Sessions, writer[s].pc = "set", GoTo(s, "publish"), UNCHANGED chan,
             store' = [store EXCEPT ![s] = writer[s].snap]
      PROVE  DataInv'
  <2>1. PureSnap(writer[s].snap) /\ PureFrame(writer[s].frame)
    BY <1>6 DEF DataInv
  <2>2. store'[s] = writer[s].snap /\ \A r \in Sessions \ {s} : store'[r] = store[r]
    BY <1>1, <1>6 DEF SeamTypeOK
  <2>3. /\ writer'[s].snap = writer[s].snap /\ writer'[s].frame = writer[s].frame
        /\ \A r \in Sessions \ {s} : writer'[r] = writer[r]
    BY <1>1, <1>6 DEF SeamTypeOK, GoTo, Writers
  <2> QED BY <1>2, <1>6, <2>1, <2>2, <2>3 DEF DataInv, gwVars, Running, Booted
<1>7. ASSUME NEW s \in Sessions, writer[s].pc = "publish", GoTo(s, "ready"), UNCHANGED store,
             chan' = Deliver(s, writer[s].frame)
      PROVE  DataInv'
  <2> DEFINE f == writer[s].frame
  <2>1. f \in Frames /\ PureFrame(f) /\ PureSnap(writer[s].snap)
    BY <1>1, <1>7 DEF WriterInv, DataInv
  <2>2. /\ writer'[s].snap = writer[s].snap /\ writer'[s].pc = "ready"
        /\ \A r \in Sessions \ {s} : writer'[r] = writer[r]
    BY <1>1, <1>7 DEF SeamTypeOK, GoTo, Writers
  <2>3. ASSUME NEW g \in Subs, chan'[g] # Nil, NEW i \in DOMAIN chan'[g].queue
        PROVE  PureFrame(chan'[g].queue[i])
    <3>1. CASE chan'[g] = chan[g]
      BY <2>3, <3>1 DEF DataInv
    <3>2. CASE chan[g] # Nil /\ chan'[g] = [chan[g] EXCEPT !.queue = Append(@, f)]
      <4>1. chan[g] \in Channels /\ chan[g].queue \in Seq(Frames)
        BY <1>1, <3>2 DEF SeamTypeOK, Channels
      <4>2. chan'[g].queue = Append(chan[g].queue, f)
        BY <3>2, <4>1 DEF Channels
      <4>3. CASE i = Len(chan[g].queue) + 1
        BY <2>1, <4>1, <4>2, <4>3
      <4>4. CASE i \in DOMAIN chan[g].queue
        <5>1. chan'[g].queue[i] = chan[g].queue[i]
          BY <4>1, <4>2, <4>4
        <5> QED BY <3>2, <4>4, <5>1 DEF DataInv
      <4> QED BY <2>3, <4>1, <4>2, <4>3, <4>4
    <3> QED BY <1>7, <3>1, <3>2 DEF Deliver
  <2> QED BY <1>2, <1>7, <2>1, <2>2, <2>3 DEF DataInv, gwVars, Running, Booted
<1>8. ASSUME NEW s \in Sessions, PublishFails(s) PROVE DataInv'
  <2>1. UNCHANGED <<store, chan>>
    BY <1>8 DEF PublishFails
  <2>2. CASE writer' = [writer EXCEPT ![s] = Down]
    BY <1>3, <2>1, <2>2 DEF Down
  <2>3. CASE GoTo(s, "ready")
    <3> DEFINE w == [writer[s] EXCEPT !.pc = "ready"]
    <3>1. w.pc = "ready" /\ w.snap = writer[s].snap /\ PureSnap(w.snap)
      BY <1>1, <1>8 DEF PublishFails, DataInv, SeamTypeOK, Writers
    <3>2. writer' = [writer EXCEPT ![s] = w]
      BY <2>3 DEF GoTo
    <3> HIDE DEF w
    <3> QED BY <1>3, <2>1, <3>1, <3>2
  <2> QED BY <1>8, <2>2, <2>3 DEF PublishFails
<1>9. ASSUME NEW s \in Sessions, WriterCrash(s) PROVE DataInv'
  BY <1>3, <1>9 DEF WriterCrash, Down
<1>10. ASSUME NEW i \in Subs, ConnectionDrop(i) \/ Resubscribe(i) PROVE DataInv'
  <2>1. \A g \in Subs : chan'[g] # Nil => chan[g] # Nil /\ chan'[g].queue = chan[g].queue
    BY <1>1, <1>10 DEF ConnectionDrop, Resubscribe, SeamTypeOK, Channels
  <2> QED BY <1>2, <1>10, <2>1 DEF DataInv, ConnectionDrop, Resubscribe, gwVars, Running, Booted
<1> QED
  BY <1>4, <1>5, <1>6, <1>7, <1>8, <1>9, <1>10 DEF SeamNext, WriterStep, Publish

LEMMA NextData == IInv /\ DataInv /\ [Next]_vars => DataInv'
<1> SUFFICES ASSUME IInv, DataInv, [Next]_vars PROVE DataInv'
  OBVIOUS
<1>1. SeamTypeOK /\ cons \in [Subs -> Consumers \cup {Nil}] /\ op \in Ops
      /\ NextGen \in Nat
  BY NextGenFresh DEF IInv, SeamInv, TypeOK
<1>2. CASE SeamNext /\ UNCHANGED gwVars
  BY <1>2, SeamData
<1>3. ASSUME NEW s \in Sources, SwitchTo(s) PROVE DataInv'
  BY <1>3 DEF SwitchTo, Begin, DataInv, seamVars, Running, Booted
<1>4. CASE op.pc = "subscribe" /\ SubscribeAndSnapshot
  <2>1. op'.pc = "get" /\ OpenChannel /\ UNCHANGED <<store, writer, session, gen, hub, cons>>
    BY <1>1, <1>4 DEF SubscribeAndSnapshot, Ops
  <2>2. \A g \in Subs : chan'[g] = chan[g] \/ chan'[g].queue = <<>>
    BY <1>1, <2>1 DEF OpenChannel, SeamTypeOK
  <2> QED BY <2>1, <2>2 DEF DataInv, Running, Booted
<1>5. CASE op.pc = "get" /\ SubscribeAndSnapshot
  <2>1. op'.snap = Loaded(op.target) /\ UNCHANGED <<store, writer, chan, session, gen, hub, cons>>
    BY <1>1, <1>5 DEF SubscribeAndSnapshot, Ops
  <2>2. PureSnap(op'.snap)
    BY <1>1, <1>5, <2>1, PureLoaded DEF IInv, SeamInv, OpInv
  <2> QED BY <2>1, <2>2 DEF DataInv, Running, Booted
<1>6. CASE OpFails
  <2>1. op'.pc # "commit"
    BY <1>6 DEF OpFails, Idle, Begin
  <2>2. \A g \in Subs : chan'[g] = chan[g] \/ chan'[g] = Nil
    BY <1>1, <1>6 DEF OpFails, SeamTypeOK
  <2> QED BY <1>6, <2>1, <2>2 DEF OpFails, DataInv, Running, Booted
<1>7. CASE GatewayCrash
  BY <1>7 DEF GatewayCrash, Begin, DataInv, Running, Booted
<1>8. CASE Commit
  <2>1. \A g \in Subs : cons'[g] # Nil /\ cons'[g].held # Nil =>
                          Running(g) /\ cons'[g].held = cons[g].held
    <3>1. \A c \in Consumers : [c EXCEPT !.cancelled = TRUE].held = c.held
      BY DEF Consumers
    <3> QED BY <1>1, <1>8, <3>1 DEF Commit, Cancelled, Started, Running
  <2> QED BY <1>8, <2>1 DEF Commit, Idle, DataInv, seamVars, Running, Booted
<1>9. ASSUME NEW g \in Subs, Receive(g) PROVE DataInv'
  <2> DEFINE q == chan[g].queue
  <2>1. chan[g] \in Channels /\ cons[g] \in Consumers /\ q \in Seq(Frames) /\ q # <<>>
    BY <1>1, <1>9 DEF IInv, SeamInv, ConsInv, Receive, Running, SeamTypeOK, Channels
  <2>2. \A i \in DOMAIN q : PureFrame(q[i])
    BY <1>9 DEF DataInv, IInv, SeamInv, ConsInv, Receive
  <2>3. PureFrame(Head(q)) /\ \A i \in DOMAIN Tail(q) : PureFrame(Tail(q)[i])
    <3>1. 1 \in DOMAIN q /\ Head(q) = q[1]
      BY <2>1
    <3>2. \A i \in DOMAIN Tail(q) : i + 1 \in DOMAIN q /\ Tail(q)[i] = q[i + 1]
      BY <2>1
    <3> QED BY <2>2, <3>1, <3>2
  <2>4. /\ chan'[g].queue = Tail(q) /\ cons'[g].held = Head(q)
        /\ \A h \in Subs \ {g} : chan'[h] = chan[h] /\ cons'[h] = cons[h]
        /\ UNCHANGED <<store, writer, session, gen, hub, op>>
    BY <1>1, <1>9, <2>1 DEF Receive, SeamTypeOK, Channels, Consumers
  <2> HIDE DEF q
  <2> QED BY <2>3, <2>4 DEF DataInv, Running, Booted
<1>10. ASSUME NEW g \in Subs, Exit(g), UNCHANGED <<store, writer, session, gen, hub, op>>
      PROVE  DataInv'
  <2>1. \A h \in Subs : \/ chan'[h] = Nil /\ cons'[h] = Nil
                        \/ chan'[h] = chan[h] /\ cons'[h] = cons[h]
    BY <1>1, <1>10 DEF Exit, SeamTypeOK
  <2> QED BY <1>10, <2>1 DEF DataInv, Running, Booted
<1>11. ASSUME NEW g \in Subs, g = gen, ApplyHeld(g) PROVE DataInv'
  <2>1. /\ Running(gen) /\ cons[gen].held # Nil /\ hub' = Apply(hub, cons[gen].held)
        /\ cons' = [cons EXCEPT ![gen].held = Nil]
        /\ UNCHANGED <<store, writer, chan, session, gen, op>>
    BY <1>11 DEF ApplyHeld, Release
  <2>2. hub # Nil /\ hub.session = session
    BY <2>1 DEF IInv, SeamInv, ConsInv, HubInv, Booted, TypeOK
  <2>3. PureSnap(hub')
    BY <2>1, <2>2, HeldFacts, PureApply DEF DataInv, Booted, IInv, SeamInv, TypeOK
  <2>4. \A h \in Subs : cons'[h] # Nil /\ cons'[h].held # Nil => cons'[h] = cons[h]
    BY <1>1, <2>1 DEF Running, Consumers
  <2> QED BY <2>1, <2>3, <2>4 DEF DataInv, Running, Booted
<1>12. CASE UNCHANGED vars
  BY <1>12 DEF vars, seamVars, gwVars, DataInv, Running, Booted
<1>13. CASE OpStep
  BY <1>4, <1>5, <1>8, <1>13 DEF OpStep, SubscribeAndSnapshot
<1>14. ASSUME NEW g \in Subs, Consume(g) PROVE DataInv'
  BY <1>9, <1>10, <1>11, <1>14 DEF Consume, Return, ApplyHeld
<1> QED
  BY <1>2, <1>3, <1>6, <1>12, <1>13, <1>14, <1>7 DEF Next

\* The board shows nothing of any lane but the one on show: not from frames
\* that superseded goroutines still hold, nor from what Redis had stored.
THEOREM Isolation == Spec => []LaneIsolation
<1>1. Init => DataInv
  BY InitData
<1>2. IInv /\ DataInv /\ [Next]_vars => DataInv'
  BY NextData
<1>3. IInv /\ DataInv => LaneIsolation
  BY DEF LaneIsolation, DataInv, IInv, SeamInv, HubInv, PureSnap
<1> QED
  BY <1>1, <1>2, <1>3, Invariant, PTL DEF Spec

-----------------------------------------------------------------------------
(* Catching up *)

\* Go writers whose calls all succeed and that nobody kills, subscriptions whose
\* connections hold. The gateway's own calls may fail and it may be restarted.
Reliable ==
  PythonClip = {} /\ Faults \cap {"crash", "set", "publish", "drop"} = {}

Held(g) == IF cons[g].held = Nil THEN <<>> ELSE <<cons[g].held>>

\* The hub is fed, and so is the snapshot that an operation is about to show;
\* nothing stops the goroutine that feeds the hub.
CatchInv ==
  /\ \A s \in Sessions : SteadyInv(s)
  /\ \A g \in Subs : chan[g] # Nil => chan[g].conn = "first"
  /\ op.pc = "commit" =>
       Feeds(writer[op.target], op.snap, chan[NextGen].queue, op.target)
  /\ Booted => /\ Running(gen) /\ ~cons[gen].cancelled
               /\ Feeds(writer[session], hub, Held(gen) \o chan[gen].queue, session)

LEMMA InitCatch == Init => CatchInv
BY InitSteady DEF Init, SeamInit, CatchInv, Begin, Booted

LEMMA SeamCatch ==
  ASSUME Reliable, IInv, CatchInv, SeamNext, UNCHANGED gwVars
  PROVE  CatchInv'
<1>1. SeamInv /\ SeamMoves
  BY SeamKept DEF IInv
<1>2. \A s \in Sessions : Seen(s, writer[s], writer'[s]) /\ SteadyInv(s)
  <2>1. \A s \in Sessions : Steady(s)
    BY DEF Reliable, Steady
  <2> QED BY <1>1, <2>1, SteadySteps DEF CatchInv
<1>3. \A s \in Sessions : SteadyInv(s)'
  BY <1>1, <1>2, SteadyKept
<1>4. \A g \in Subs : chan'[g] # Nil => chan'[g].conn = "first"
  BY <1>1, WholeBefore DEF CatchInv, Reliable, SeamMoves
<1>5. \A s \in Sessions, g \in Subs, h \in Snapshots, p \in Seq(Frames) :
        chan[g] # Nil /\ chan[g].session = s /\ Feeds(writer[s], h, p \o chan[g].queue, s)
          => Feeds(writer'[s], h, p \o chan'[g].queue, s)
  BY <1>1, <1>2, FeedsKept DEF CatchInv
<1>6. op.pc = "commit" =>
        Feeds(writer'[op.target], op.snap, chan'[NextGen].queue, op.target)
  <2> SUFFICES ASSUME op.pc = "commit"
               PROVE  Feeds(writer'[op.target], op.snap, chan'[NextGen].queue, op.target)
    OBVIOUS
  <2>1. /\ NextGen \in Subs /\ chan[NextGen] # Nil /\ chan[NextGen].session = op.target
        /\ op.target \in Sessions /\ op.snap \in Snapshots
    BY DEF IInv, OpInv
  <2>2. /\ chan[NextGen].queue \in Seq(Frames) /\ chan'[NextGen].queue \in Seq(Frames)
        /\ <<>> \in Seq(Frames)
    <3>1. chan[NextGen] \in Channels /\ chan'[NextGen] \in Channels
      BY <1>1, <2>1, SeamKept DEF SeamInv, SeamTypeOK, SeamMoves
    <3> QED BY <3>1 DEF Channels
  <2>3. /\ <<>> \o chan[NextGen].queue = chan[NextGen].queue
        /\ <<>> \o chan'[NextGen].queue = chan'[NextGen].queue
    BY <2>2
  <2>4. Feeds(writer[op.target], op.snap, <<>> \o chan[NextGen].queue, op.target)
    BY <2>3 DEF CatchInv
  <2> QED BY <1>5, <2>1, <2>2, <2>3, <2>4
<1>7. Booted => /\ Running(gen) /\ ~cons[gen].cancelled
                /\ Feeds(writer'[session], hub, Held(gen) \o chan'[gen].queue, session)
  <2> SUFFICES ASSUME Booted
               PROVE  /\ Running(gen) /\ ~cons[gen].cancelled
                      /\ Feeds(writer'[session], hub, Held(gen) \o chan'[gen].queue, session)
    OBVIOUS
  <2>1. /\ Running(gen) /\ ~cons[gen].cancelled
        /\ Feeds(writer[session], hub, Held(gen) \o chan[gen].queue, session)
    BY DEF CatchInv
  <2>2. /\ gen \in Subs /\ chan[gen] # Nil /\ chan[gen].session = session
        /\ session \in Sessions /\ hub \in Snapshots /\ cons[gen] \in Consumers
    BY <2>1 DEF IInv, TypeOK, ConsInv, Booted, Running
  <2>3. Held(gen) \in Seq(Frames)
    BY <2>2 DEF Held, Consumers
  <2> QED BY <1>5, <2>1, <2>2, <2>3
<1> QED
  BY <1>3, <1>4, <1>6, <1>7 DEF CatchInv, gwVars, NextGen, Booted, Running, Held

\* What the gateway's own steps do to the subscriptions.
LEMMA GatewaySteady ==
  ASSUME IInv, CatchInv, UNCHANGED <<store, writer>>,
         \A g \in Subs : \/ chan'[g] = Nil \/ chan'[g] = chan[g]
                         \/ chan'[g].queue = <<>> /\ chan'[g].conn = "first"
  PROVE  /\ \A s \in Sessions : SteadyInv(s)'
         /\ \A g \in Subs : chan'[g] # Nil => chan'[g].conn = "first"
<1>1. \A g \in Subs : \/ chan'[g] = Nil \/ chan'[g].queue = <<>>
                      \/ /\ chan[g] # Nil /\ chan'[g].session = chan[g].session
                         /\ chan[g].queue = <<>> => chan'[g].queue = <<>>
  OBVIOUS
<1> QED
  BY <1>1, ReaderSteady DEF CatchInv

\* SUBSCRIBE, then GET: what was published in between is queued, and is in what
\* is read.
LEMMA SubscribeCatch ==
  ASSUME IInv, CatchInv, SubscribeAndSnapshot
  PROVE  CatchInv'
<1>1. SeamInv /\ op \in Ops /\ UNCHANGED <<store, writer, session, gen, hub, cons>>
  BY DEF IInv, TypeOK, SubscribeAndSnapshot
<1>2. CASE op.pc = "subscribe"
  <2>1. op'.pc = "get" /\ OpenChannel /\ NextGen \in Subs
    BY <1>1, <1>2 DEF SubscribeAndSnapshot, Ops, IInv, OpInv
  <2>2. \A g \in Subs : /\ g # NextGen => chan'[g] = chan[g]
                        /\ g = NextGen => chan'[g].queue = <<>> /\ chan'[g].conn = "first"
    BY <1>1, <2>1 DEF OpenChannel, SeamInv, SeamTypeOK
  <2>3. (\A s \in Sessions : SteadyInv(s)') /\ \A g \in Subs : chan'[g] # Nil => chan'[g].conn = "first"
    BY <1>1, <2>2, GatewaySteady
  <2>4. Booted => chan'[gen] = chan[gen]
    <3>1. Booted => Running(gen) /\ gen \in Subs
      BY DEF CatchInv, IInv, TypeOK
    <3> QED BY <2>2, <3>1, NextGenFresh
  <2> QED BY <1>1, <2>1, <2>3, <2>4 DEF CatchInv, Booted, Running, Held
<1>3. CASE op.pc = "get"
  <2>1. /\ op'.pc = "commit" /\ op'.snap = Loaded(op.target) /\ op'.target = op.target
        /\ UNCHANGED chan
    BY <1>1, <1>3 DEF SubscribeAndSnapshot, Ops
  <2>2. /\ NextGen \in Subs /\ chan[NextGen] # Nil /\ chan[NextGen].session = op.target
        /\ op.target \in Sessions
    BY <1>3 DEF IInv, OpInv
  <2>3. Feeds(writer[op.target], Loaded(op.target), chan[NextGen].queue, op.target)
    BY <1>1, <2>2, LoadedFeeds DEF CatchInv
  <2>4. (\A s \in Sessions : SteadyInv(s)') /\ \A g \in Subs : chan'[g] # Nil => chan'[g].conn = "first"
    BY <1>1, <2>1, GatewaySteady
  <2>5. op'.pc = "commit" =>
          Feeds(writer'[op'.target], op'.snap, chan'[NextGen'].queue, op'.target)
    BY <1>1, <2>1, <2>3 DEF NextGen, Booted
  <2> QED BY <1>1, <2>1, <2>4, <2>5 DEF CatchInv, Booted, Running, Held
<1> QED
  BY <1>2, <1>3 DEF SubscribeAndSnapshot

LEMMA CommitCatch ==
  ASSUME IInv, CatchInv, Commit
  PROVE  CatchInv'
<1>1. /\ UNCHANGED <<store, writer, chan>> /\ op' = Idle /\ gen' = NextGen
      /\ hub' = op.snap /\ session' = op.target
      /\ cons' = [Cancelled EXCEPT ![NextGen] = Started]
  BY DEF Commit, seamVars
<1>2. /\ NextGen \in Subs /\ chan[NextGen] # Nil /\ op.target \in Sessions
      /\ Feeds(writer[op.target], op.snap, chan[NextGen].queue, op.target)
      /\ cons \in [Subs -> Consumers \cup {Nil}]
  BY DEF IInv, OpInv, TypeOK, Commit, CatchInv
<1>3. cons'[NextGen] = Started /\ Started # Nil
  <2>1. Started \in Consumers
    BY DEF Started, Consumers
  <2> QED BY <1>1, <1>2, <2>1, NoConsumerAssumption DEF Cancelled
<1>4. /\ chan[NextGen].queue \in Seq(Frames) /\ Held(gen)' = <<>>
      /\ <<>> \o chan[NextGen].queue = chan[NextGen].queue
  <2>1. chan[NextGen] \in Channels
    BY <1>2 DEF IInv, TypeOK, SeamTypeOK
  <2>2. chan[NextGen].queue \in Seq(Frames)
    BY <2>1 DEF Channels
  <2>3. Held(gen)' = <<>>
    BY <1>1, <1>3 DEF Held, Started
  <2> QED BY <2>2, <2>3
<1>5. (\A s \in Sessions : SteadyInv(s)') /\ \A g \in Subs : chan'[g] # Nil => chan'[g].conn = "first"
  BY <1>1, GatewaySteady
<1>6. /\ cons'[gen'] # Nil /\ ~cons'[gen'].cancelled
      /\ Feeds(writer'[session'], hub', Held(gen)' \o chan'[gen'].queue, session')
  BY <1>1, <1>2, <1>3, <1>4 DEF Started
<1> QED
  BY <1>1, <1>5, <1>6 DEF CatchInv, Running, Idle

\* The hub takes the next frame out of its queue, into its goroutine's hands, and
\* folds it: it stays as well fed as it was.
LEMMA ReceiveCatch ==
  ASSUME IInv, CatchInv, NEW g \in Subs, Receive(g)
  PROVE  CatchInv'
<1>1. /\ SeamTypeOK /\ cons[g] \in Consumers /\ cons[g].held = Nil
      /\ chan[g] \in Channels /\ chan[g] # Nil /\ chan[g].queue # <<>>
      /\ cons \in [Subs -> Consumers \cup {Nil}]
      /\ UNCHANGED <<store, writer, session, gen, hub, op>>
  BY DEF Receive, IInv, TypeOK, SeamTypeOK, ConsInv, Running
<1>2. chan[g].queue \in Seq(Frames)
  BY <1>1 DEF Channels
<1>3. /\ Head(chan[g].queue) \in Frames /\ Tail(chan[g].queue) \in Seq(Frames)
      /\ <<>> \o chan[g].queue = <<Head(chan[g].queue)>> \o Tail(chan[g].queue)
  BY <1>1, <1>2
<1>4. /\ chan'[g].queue = Tail(chan[g].queue) /\ chan'[g].session = chan[g].session
      /\ chan'[g].conn = chan[g].conn
      /\ cons'[g].held = Head(chan[g].queue) /\ cons'[g].cancelled = cons[g].cancelled
      /\ \A h \in Subs \ {g} : chan'[h] = chan[h] /\ cons'[h] = cons[h]
  BY <1>1 DEF Receive, SeamTypeOK, Channels, Consumers
<1>5. \A s \in Sessions : SteadyInv(s)'
  <2>1. \A h \in Subs : \/ chan'[h] = Nil \/ chan'[h].queue = <<>>
                        \/ /\ chan[h] # Nil /\ chan'[h].session = chan[h].session
                           /\ chan[h].queue = <<>> => chan'[h].queue = <<>>
    BY <1>1, <1>4
  <2> QED BY <1>1, <2>1, ReaderSteady DEF CatchInv
<1>6. \A h \in Subs : chan'[h] # Nil => chan'[h].conn = "first"
  BY <1>1, <1>4 DEF CatchInv
<1>7. op'.pc = "commit" =>
        Feeds(writer'[op'.target], op'.snap, chan'[NextGen'].queue, op'.target)
  <2>1. NextGen # g /\ NextGen' = NextGen
    BY <1>1, NextGenFresh DEF Receive, NextGen, Booted
  <2>2. op.pc = "commit" => NextGen \in Subs
    BY DEF IInv, OpInv
  <2> QED BY <1>1, <1>4, <2>1, <2>2 DEF CatchInv
<1>8. Booted => /\ cons'[gen] # Nil /\ ~cons'[gen].cancelled
                /\ Held(gen)' \o chan'[gen].queue = Held(gen) \o chan[gen].queue
  <2> SUFFICES ASSUME Booted
               PROVE  /\ cons'[gen] # Nil /\ ~cons'[gen].cancelled
                      /\ Held(gen)' \o chan'[gen].queue = Held(gen) \o chan[gen].queue
    OBVIOUS
  <2>1. CASE g # gen
    <3>1. gen \in Subs
      BY DEF IInv, TypeOK
    <3> QED BY <1>1, <1>4, <2>1, <3>1 DEF CatchInv, Held, Running
  <2>2. CASE g = gen
    <3>1. Held(gen) = <<>>
      BY <1>1, <2>2 DEF Held
    <3>2. Held(gen)' = <<Head(chan[gen].queue)>>
      BY <1>1, <1>3, <1>4, <2>2, NilAssumption DEF Held
    <3>3. cons'[gen] # Nil
      <4>1. cons'[gen] \in Consumers
        BY <1>1, <1>3, <2>2 DEF Receive, Consumers
      <4> QED BY <4>1, NoConsumerAssumption
    <3> QED BY <1>3, <1>4, <2>2, <3>1, <3>2, <3>3 DEF CatchInv
  <2> QED BY <2>1, <2>2
<1> QED
  BY <1>1, <1>5, <1>6, <1>7, <1>8 DEF CatchInv, Booted, Running

LEMMA ApplyHeldCatch ==
  ASSUME IInv, CatchInv, NEW g \in Subs, g = gen, ApplyHeld(g)
  PROVE  CatchInv'
<1>1. /\ Running(gen) /\ cons[gen].held # Nil /\ hub' = Apply(hub, cons[gen].held)
      /\ cons' = [cons EXCEPT ![gen].held = Nil] /\ op.pc = "idle"
      /\ UNCHANGED <<store, writer, chan, session, gen, op>>
  BY DEF ApplyHeld, Release, MuFree
<1>2. /\ hub \in Snapshots /\ cons[gen].held \in Frames /\ session \in Sessions
      /\ SeamInv /\ gen \in Subs /\ chan[gen] # Nil /\ hub # Nil
  BY <1>1, HeldFacts DEF IInv, ConsInv, Booted, TypeOK
<1>3. chan[gen].queue \in Seq(Frames)
  <2>1. chan[gen] \in Channels
    BY <1>2 DEF SeamInv, SeamTypeOK
  <2> QED BY <2>1 DEF Channels
<1>4. Held(gen) = <<cons[gen].held>>
  BY <1>1 DEF Held
<1>5. Feeds(writer[session], hub, <<cons[gen].held>> \o chan[gen].queue, session)
  BY <1>2, <1>4 DEF CatchInv, Booted
<1>6. Feeds(writer[session], Apply(hub, cons[gen].held), chan[gen].queue, session)
  BY <1>2, <1>3, <1>5, FeedsApply
<1>7. /\ cons'[gen].held = Nil /\ cons'[gen].cancelled = cons[gen].cancelled
      /\ cons'[gen] # Nil
  <2>1. cons[gen] \in Consumers /\ cons \in [Subs -> Consumers \cup {Nil}]
    BY <1>1, <1>2 DEF IInv, TypeOK, Running
  <2>2. cons'[gen] = [cons[gen] EXCEPT !.held = Nil] /\ cons'[gen] \in Consumers
    BY <1>1, <1>2, <2>1 DEF Consumers
  <2> QED BY <2>1, <2>2, NoConsumerAssumption DEF Consumers
<1>8. Held(gen)' \o chan[gen].queue = chan[gen].queue
  <2>1. Held(gen)' = <<>>
    BY <1>1, <1>7 DEF Held
  <2> QED BY <1>3, <2>1
<1>9. (\A s \in Sessions : SteadyInv(s)') /\ \A h \in Subs : chan'[h] # Nil => chan'[h].conn = "first"
  BY <1>1, GatewaySteady
<1>10. /\ cons'[gen'] # Nil /\ ~cons'[gen'].cancelled
       /\ Feeds(writer'[session'], hub', Held(gen)' \o chan'[gen'].queue, session')
  BY <1>1, <1>2, <1>6, <1>7, <1>8 DEF CatchInv, Booted
<1> QED
  BY <1>1, <1>9, <1>10 DEF CatchInv, Running

\* A goroutine that ends is not the current one.
LEMMA ExitCatch ==
  ASSUME IInv, CatchInv, NEW g \in Subs, g # gen, Running(g), Exit(g),
         UNCHANGED <<store, writer, session, gen, hub, op>>
  PROVE  CatchInv'
<1>1. /\ chan'[g] = Nil /\ \A h \in Subs \ {g} : chan'[h] = chan[h] /\ cons'[h] = cons[h]
  BY DEF IInv, TypeOK, SeamTypeOK, Exit
<1>2. (\A s \in Sessions : SteadyInv(s)') /\ \A h \in Subs : chan'[h] # Nil => chan'[h].conn = "first"
  BY <1>1, GatewaySteady
<1>3. op.pc = "commit" => NextGen \in Subs \ {g}
  BY NextGenFresh DEF IInv, OpInv
<1>4. gen \in Subs \ {g}
  BY DEF IInv, TypeOK
<1> QED
  BY <1>1, <1>2, <1>3, <1>4 DEF CatchInv, Running, Booted, NextGen, Held

LEMMA NextCatch == Reliable /\ IInv /\ CatchInv /\ [Next]_vars => CatchInv'
<1> SUFFICES ASSUME Reliable, IInv, CatchInv, [Next]_vars PROVE CatchInv'
  OBVIOUS
<1>1. CASE SeamNext /\ UNCHANGED gwVars
  BY <1>1, SeamCatch
<1>2. ASSUME UNCHANGED <<seamVars, session, gen, hub, cons>>, op'.pc # "commit" PROVE CatchInv'
  <2>1. \A s \in Sessions : SteadyInv(s)'
    BY <1>2 DEF CatchInv, SteadyInv, Loaded, QueuesOf, seamVars
  <2> QED BY <1>2, <2>1 DEF CatchInv, seamVars, Booted, Running, Held
<1>3. ASSUME NEW s \in Sources, SwitchTo(s) PROVE CatchInv'
  BY <1>2, <1>3 DEF SwitchTo, Begin
<1>4. CASE OpStep
  BY <1>4, SubscribeCatch, CommitCatch DEF OpStep
<1>5. CASE OpFails
  <2>1. /\ NextGen \in Subs /\ op'.pc # "commit"
        /\ UNCHANGED <<store, writer, session, gen, hub, cons>>
    BY <1>5 DEF OpFails, IInv, OpInv, Idle, Begin
  <2>2. chan'[NextGen] = Nil /\ \A g \in Subs : g # NextGen => chan'[g] = chan[g]
    BY <1>5, <2>1 DEF OpFails, IInv, TypeOK, SeamTypeOK
  <2>3. (\A s \in Sessions : SteadyInv(s)') /\ \A g \in Subs : chan'[g] # Nil => chan'[g].conn = "first"
    BY <2>1, <2>2, GatewaySteady
  <2>4. Booted => chan'[gen] = chan[gen]
    <3>1. Booted => Running(gen) /\ gen \in Subs
      BY DEF CatchInv, IInv, TypeOK
    <3> QED BY <2>2, <3>1, NextGenFresh
  <2> QED BY <2>1, <2>3, <2>4 DEF CatchInv, Booted, Running, Held
<1>6. CASE GatewayCrash
  <2>1. /\ hub' = Nil /\ op'.pc = "subscribe" /\ UNCHANGED <<store, writer>>
        /\ \A g \in Subs : chan'[g] = Nil
    BY <1>6 DEF GatewayCrash, Begin
  <2>2. \A s \in Sessions : SteadyInv(s)'
    BY <2>1, GatewaySteady
  <2> QED BY <2>1, <2>2 DEF CatchInv, Booted
<1>7. ASSUME NEW g \in Subs, Consume(g) PROVE CatchInv'
  <2>1. CASE Receive(g)
    BY <2>1, ReceiveCatch
  <2>2. CASE Return(g)
    <3>1. Booted /\ chan[g] # Nil
      BY <2>2 DEF Return, IInv, ConsInv
    <3>2. g # gen
      BY <2>2, <3>1 DEF Return, CatchInv
    <3> QED BY <2>2, <3>2, ExitCatch DEF Return
  <2>3. CASE ApplyHeld(g)
    BY <2>3, ApplyHeldCatch, ExitCatch DEF ApplyHeld
  <2> QED BY <1>7, <2>1, <2>2, <2>3 DEF Consume
<1>8. CASE UNCHANGED vars
  <2>1. UNCHANGED <<seamVars, gwVars>>
    BY <1>8 DEF vars
  <2>2. \A s \in Sessions : SteadyInv(s)'
    BY <2>1 DEF CatchInv, SteadyInv, Loaded, QueuesOf, seamVars
  <2> QED BY <2>1, <2>2 DEF CatchInv, seamVars, gwVars, Booted, Running, Held, NextGen
<1> QED
  BY <1>1, <1>3, <1>4, <1>5, <1>6, <1>7, <1>8 DEF Next

\* While the writers run, their calls succeed and no connection drops, nothing is
\* lost and nothing is folded twice, however often the operator switches, Redis
\* refuses the gateway's calls and the gateway is restarted: from every state, the
\* frames in flight bring the hub to exactly the writer's own snapshot.
THEOREM CatchesUp == Reliable => (Spec => []HubCatchesUp)
<1>1. IInv /\ CatchInv => HubCatchesUp
  <2> SUFFICES ASSUME IInv, CatchInv, Booted, writer[session].pc # "down"
               PROVE  LET folded == Folded(hub, InFlight)
                          snap == writer[session].snap
                      IN  /\ FrameFields(folded) = FrameFields(snap)
                          /\ hub.header # Nil => folded = snap
    BY DEF HubCatchesUp
  <2>1. /\ Running(gen) /\ gen \in Subs /\ SeamInv /\ hub \in Snapshots /\ session \in Sessions
        /\ chan[gen] # Nil /\ cons[gen] \in Consumers
        /\ Feeds(writer[session], hub, Held(gen) \o chan[gen].queue, session)
    BY DEF IInv, TypeOK, ConsInv, CatchInv, Booted, Running
  <2>2. Held(gen) \o chan[gen].queue \in Seq(Frames)
    BY <2>1 DEF Held, Consumers, SeamInv, SeamTypeOK, Channels
  <2>3. InFlight = (Held(gen) \o chan[gen].queue) \o Unpublished(writer[session])
    BY DEF InFlight, Held
  <2> QED BY <2>1, <2>2, <2>3, FedCatchesUp
<1>2. ASSUME Reliable PROVE Spec => []HubCatchesUp
  <2>1. Init => CatchInv
    BY InitCatch
  <2>2. IInv /\ CatchInv /\ [Next]_vars => CatchInv'
    BY <1>2, NextCatch
  <2> QED BY <1>1, <2>1, <2>2, Invariant, PTL DEF Spec
<1> QED
  BY <1>2
=============================================================================
