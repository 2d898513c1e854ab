---------------------------- MODULE RegistryProofs ----------------------------
(***************************************************************************)
(* Proofs about module Registry: a lane never gets two hubs, no            *)
(* subscription is left behind but by a failed SUBSCRIBE, and every hub    *)
(* becomes its writer's own snapshot by folding what is in flight; with    *)
(* any number of lanes and requests, in any interleaving.                  *)
(***************************************************************************)
EXTENDS Registry, SeamProofs

-----------------------------------------------------------------------------
(* The inductive invariant *)

Making == {"subscribe", "get", "commit"}

TypeInv ==
  /\ regMu \in Subs \cup {Nil}
  /\ req \in [Subs -> Requests]
  /\ registry \in [Sessions -> Subs \cup {Nil}]
  /\ hub \in [Subs -> Snapshots \cup {Nil}]
  /\ cons \in [Subs -> Consumers \cup {Nil}]

\* A request holds the mutex exactly while it makes its lane's hub, and finds the
\* lane without one all that time; once served, by the hub that is registered.
ReqInv(r) ==
  LET q == req[r] IN
  /\ q.pc \in Making <=> regMu = r
  /\ q.pc \in Making \cup {"waiting", "served"} => q.lane \in Sessions
  /\ q.pc \in Making => registry[q.lane] = Nil
  /\ q.pc \in {"get", "commit"} => chan[r] # Nil /\ chan[r].session = q.lane
  /\ q.pc = "commit" => q.snap \in Snapshots
  /\ q.pc = "served" => q.by # Nil /\ registry[q.lane] = q.by

\* A registered hub exists, and the request that made it is among the served.
HubInv(s) ==
  registry[s] # Nil =>
    LET h == registry[s] IN
    hub[h] # Nil /\ req[h].pc = "served" /\ req[h].lane = s

\* A subscription is the one request's that is making a hub, or feeds a hub, or was
\* left behind by a SUBSCRIBE that failed.
OwnerInv(i) ==
  chan[i] # Nil /\ req[i].pc # "noSubscribe" =>
    i = regMu \/ (registry[chan[i].session] = i /\ Running(i))

\* A consume goroutine has its subscription, and its hub is registered.
ConsInv(h) ==
  Running(h) => chan[h] # Nil /\ registry[chan[h].session] = h

IInv ==
  /\ SeamInv
  /\ TypeInv
  /\ \A r \in Subs : ReqInv(r) /\ OwnerInv(r) /\ ConsInv(r)
  /\ \A s \in Sessions : HubInv(s)

LEMMA InitIInv == Init => IInv
<1> SUFFICES ASSUME Init PROVE IInv
  OBVIOUS
<1> USE DEF Init, New
<1>1. SeamInv /\ \A i \in Subs : chan[i] = Nil
  BY InitSeam DEF SeamInit
<1>2. TypeInv
  BY DEF TypeInv, Requests
<1>3. \A r \in Subs : ReqInv(r) /\ OwnerInv(r) /\ ConsInv(r)
  BY <1>1, RegistryAssumption DEF ReqInv, Making, OwnerInv, ConsInv, Running
<1>4. \A s \in Sessions : HubInv(s)
  BY DEF HubInv
<1> QED
  BY <1>1, <1>2, <1>3, <1>4 DEF IInv

-----------------------------------------------------------------------------
(* Every step keeps it *)

LEMMA SeamIInv ==
  ASSUME IInv, SeamNext, UNCHANGED regVars
  PROVE  IInv'
<1>1. SeamInv' /\ SeamMoves
  BY SeamKept DEF IInv
<1>2. TypeInv' /\ \A s \in Sessions : HubInv(s)'
  BY DEF IInv, TypeInv, HubInv, regVars
<1>3. \A r \in Subs : ReqInv(r)' /\ OwnerInv(r)' /\ ConsInv(r)'
  BY <1>1 DEF IInv, SeamMoves, ReqInv, OwnerInv, ConsInv, Running, regVars
<1> QED
  BY <1>1, <1>2, <1>3 DEF IInv

LEMMA AskIInv ==
  ASSUME IInv, NEW r \in Subs, NEW s \in AllowedSessions, Ask(r, s)
  PROVE  IInv'
<1>1. /\ req \in [Subs -> Requests] /\ req[r].pc = "new" /\ s \in Sessions
      /\ req' = [req EXCEPT ![r].lane = s, ![r].pc = "waiting"]
      /\ UNCHANGED <<store, writer, chan, regMu, registry, hub, cons>>
  BY RegistryAssumption DEF Ask, seamVars, IInv, TypeInv
<1>2. /\ req'[r] \in Requests /\ req'[r].pc = "waiting" /\ req'[r].lane = s
      /\ \A q \in Subs \ {r} : req'[q] = req[q]
      /\ req' \in [Subs -> Requests]
  BY <1>1 DEF Requests
<1>3. SeamInv' /\ TypeInv'
  BY <1>1, <1>2 DEF IInv, TypeInv, SeamInv, SeamTypeOK, WriterInv, StoreInv, ChanInv, Covered,
                    StoredRev
<1>4. ReqInv(r)'
  BY <1>1, <1>2 DEF IInv, ReqInv, Making
<1>5. \A q \in Subs : ReqInv(q)'
  BY <1>1, <1>2, <1>4 DEF IInv, ReqInv
<1>6. \A q \in Subs : OwnerInv(q)' /\ ConsInv(q)'
  BY <1>1 DEF IInv, OwnerInv, ConsInv, Running
<1>7. \A l \in Sessions : HubInv(l)'
  BY <1>1, <1>2 DEF IInv, HubInv, TypeInv
<1> QED
  BY <1>3, <1>5, <1>6, <1>7 DEF IInv

LEMMA LockIInv ==
  ASSUME IInv, NEW r \in Subs, Lock(r)
  PROVE  IInv'
<1> DEFINE h == registry[req[r].lane]
<1>1. /\ req \in [Subs -> Requests] /\ req[r].pc = "waiting" /\ regMu = Nil
      /\ req[r].lane \in Sessions /\ h \in Subs \cup {Nil}
      /\ UNCHANGED <<store, writer, chan, registry, hub, cons>>
  BY DEF Lock, seamVars, IInv, TypeInv, ReqInv
<1>2. /\ \A q \in Subs \ {r} : req'[q] = req[q]
      /\ req'[r].lane = req[r].lane /\ req' \in [Subs -> Requests]
      /\ \/ h # Nil /\ req'[r].pc = "served" /\ req'[r].by = h /\ regMu' = Nil
         \/ h = Nil /\ req'[r].pc = "subscribe" /\ regMu' = r
  <2>1. CASE h # Nil
    <3>1. req' = [req EXCEPT ![r] = [req[r] EXCEPT !.pc = "served", !.by = h]] /\ regMu' = Nil
      BY <1>1, <2>1 DEF Lock, ServedBy
    <3>2. /\ [req[r] EXCEPT !.pc = "served", !.by = h] \in Requests
          /\ [req[r] EXCEPT !.pc = "served", !.by = h].pc = "served"
          /\ [req[r] EXCEPT !.pc = "served", !.by = h].by = h
          /\ [req[r] EXCEPT !.pc = "served", !.by = h].lane = req[r].lane
      BY <1>1 DEF Requests
    <3> HIDE DEF h
    <3> QED BY <1>1, <2>1, <3>1, <3>2
  <2>2. CASE h = Nil
    <3>1. req' = [req EXCEPT ![r].pc = "subscribe"] /\ regMu' = r
      BY <1>1, <2>2 DEF Lock
    <3> HIDE DEF h
    <3> QED BY <1>1, <2>2, <3>1 DEF Requests
  <2> QED BY <2>1, <2>2
<1>3. SeamInv' /\ TypeInv'
  BY <1>1, <1>2 DEF IInv, TypeInv, SeamInv, SeamTypeOK, WriterInv, StoreInv, ChanInv, Covered,
                    StoredRev
<1>4. ReqInv(r)'
  BY <1>1, <1>2, RegistryAssumption DEF ReqInv, Making
<1>5. ASSUME NEW q \in Subs \ {r} PROVE ReqInv(q)'
  <2>1. ReqInv(q) /\ req'[q] = req[q] /\ q # Nil
    BY <1>2, RegistryAssumption DEF IInv
  <2> QED BY <1>1, <1>2, <2>1 DEF ReqInv
<1>6. \A q \in Subs : OwnerInv(q)' /\ ConsInv(q)'
  <2>1. \A q \in Subs : req'[q].pc = "noSubscribe" <=> req[q].pc = "noSubscribe"
    BY <1>1, <1>2
  <2> QED BY <1>1, <2>1, RegistryAssumption DEF IInv, OwnerInv, ConsInv, Running
<1>7. \A l \in Sessions : HubInv(l)'
  BY <1>1, <1>2 DEF IInv, HubInv, TypeInv
<1> QED
  BY <1>3, <1>4, <1>5, <1>6, <1>7 DEF IInv

\* A request that makes a hub has no hub yet.
LEMMA MakingFacts ==
  ASSUME IInv, NEW r \in Subs, req[r].pc \in Making
  PROVE  /\ req \in [Subs -> Requests] /\ SeamTypeOK
         /\ req[r].lane \in Sessions /\ registry[req[r].lane] = Nil /\ regMu = r
         /\ r # Nil /\ ~Running(r)
         /\ \A s \in Sessions : registry[s] # r
<1>1. ReqInv(r) /\ TypeInv /\ SeamTypeOK /\ ConsInv(r) /\ \A s \in Sessions : HubInv(s)
  BY DEF IInv, SeamInv
<1>2. r # Nil
  BY RegistryAssumption
<1>3. \A s \in Sessions : registry[s] # r
  BY <1>1, <1>2 DEF HubInv, Making
<1>4. ~Running(r)
  BY <1>1, <1>3 DEF ConsInv, SeamTypeOK, Channels
<1> QED
  BY <1>1, <1>2, <1>3, <1>4 DEF ReqInv, TypeInv

\* The subscription that a request opens.
LEMMA OpenedFacts ==
  ASSUME IInv, NEW r \in Subs, req[r].pc \in Making, OpenChannel(r)
  PROVE  /\ chan'[r] \in Channels /\ chan'[r] # Nil /\ chan'[r].queue = <<>>
         /\ chan'[r].session = req[r].lane
         /\ \A q \in Subs \ {r} : chan'[q] = chan[q]
         /\ chan' \in [Subs -> Channels \cup {Nil}]
<1> DEFINE c == [session |-> req[r].lane, conn |-> "first", queue |-> <<>>]
<1>1. SeamTypeOK /\ req[r].lane \in Sessions
  BY MakingFacts
<1>2. <<>> \in Seq(Frames)
  OBVIOUS
<1>3. c \in Channels
  BY <1>1, <1>2 DEF Channels
<1>4. c.queue = <<>> /\ c.session = req[r].lane
  OBVIOUS
<1>5. chan' = [chan EXCEPT ![r] = c]
  BY DEF OpenChannel
<1> HIDE DEF c
<1> QED
  BY <1>1, <1>3, <1>4, <1>5, NoChannelAssumption DEF SeamTypeOK

LEMMA SubscribeIInv ==
  ASSUME IInv, NEW r \in Subs, req[r].pc = "subscribe", SubscribeAndSnapshot(r)
  PROVE  IInv'
<1>1. /\ req \in [Subs -> Requests] /\ SeamTypeOK
      /\ req[r].lane \in Sessions /\ registry[req[r].lane] = Nil /\ regMu = r
      /\ r # Nil /\ ~Running(r)
  BY MakingFacts DEF Making
<1>2. /\ req' = [req EXCEPT ![r].pc = "get"] /\ OpenChannel(r)
      /\ UNCHANGED <<store, writer, regMu, registry, hub, cons>>
  BY <1>1 DEF SubscribeAndSnapshot
<1>3. /\ chan'[r] \in Channels /\ chan'[r] # Nil /\ chan'[r].queue = <<>>
      /\ chan'[r].session = req[r].lane
      /\ \A q \in Subs \ {r} : chan'[q] = chan[q]
      /\ chan' \in [Subs -> Channels \cup {Nil}]
  BY <1>2, OpenedFacts DEF Making
<1>4. /\ req'[r].pc = "get" /\ req'[r].lane = req[r].lane
      /\ \A q \in Subs \ {r} : req'[q] = req[q]
      /\ req' \in [Subs -> Requests]
  BY <1>1, <1>2 DEF Requests
<1>5. SeamInv'
  <2>1. \A q \in Subs : ChanInv(q)'
    BY <1>2, <1>3 DEF IInv, SeamInv, ChanInv, Covered, StoredRev
  <2> QED BY <1>2, <1>3, <2>1, ReaderKeeps DEF IInv
<1>6. TypeInv'
  BY <1>2, <1>4 DEF IInv, TypeInv
<1>7. ReqInv(r)'
  BY <1>1, <1>2, <1>3, <1>4 DEF ReqInv, Making
<1>8. ASSUME NEW q \in Subs \ {r} PROVE ReqInv(q)' /\ OwnerInv(q)' /\ ConsInv(q)'
  <2>1. /\ ReqInv(q) /\ OwnerInv(q) /\ ConsInv(q)
        /\ req'[q] = req[q] /\ chan'[q] = chan[q]
    BY <1>3, <1>4 DEF IInv
  <2> QED BY <1>2, <2>1 DEF ReqInv, OwnerInv, ConsInv, Running
<1>9. OwnerInv(r)' /\ ConsInv(r)'
  BY <1>1, <1>2 DEF OwnerInv, ConsInv, Running
<1>10. \A l \in Sessions : HubInv(l)'
  BY <1>2, <1>4 DEF IInv, HubInv, TypeInv
<1> QED
  BY <1>5, <1>6, <1>7, <1>8, <1>9, <1>10 DEF IInv

LEMMA GetIInv ==
  ASSUME IInv, NEW r \in Subs, req[r].pc = "get", SubscribeAndSnapshot(r)
  PROVE  IInv'
<1>1. /\ req \in [Subs -> Requests] /\ req[r].lane \in Sessions /\ SeamInv /\ ReqInv(r)
  BY MakingFacts DEF Making, IInv
<1>2. /\ req' = [req EXCEPT ![r].pc = "commit", ![r].snap = Loaded(req[r].lane)]
      /\ UNCHANGED <<store, writer, chan, regMu, registry, hub, cons>>
  BY <1>1 DEF SubscribeAndSnapshot
<1>3. Loaded(req[r].lane) \in Snapshots
  BY <1>1, LoadedFacts DEF SeamInv
<1>4. /\ req'[r].pc = "commit" /\ req'[r].lane = req[r].lane
      /\ req'[r].snap = Loaded(req[r].lane)
      /\ \A q \in Subs \ {r} : req'[q] = req[q]
      /\ req' \in [Subs -> Requests]
  BY <1>1, <1>2, <1>3, ZenonT(60) DEF Requests
<1>5. SeamInv' /\ TypeInv'
  BY <1>2, <1>4 DEF IInv, TypeInv, SeamInv, SeamTypeOK, WriterInv, StoreInv, ChanInv, Covered,
                    StoredRev
<1>6. ReqInv(r)'
  BY <1>1, <1>2, <1>3, <1>4 DEF ReqInv, Making
<1>7. ASSUME NEW q \in Subs PROVE ReqInv(q)' /\ OwnerInv(q)' /\ ConsInv(q)'
  <2>1. ReqInv(q) /\ OwnerInv(q) /\ ConsInv(q)
    BY DEF IInv
  <2> QED BY <1>2, <1>4, <1>6, <2>1 DEF ReqInv, OwnerInv, ConsInv, Running
<1>8. \A l \in Sessions : HubInv(l)'
  BY <1>2, <1>4 DEF IInv, HubInv, TypeInv
<1> QED
  BY <1>5, <1>7, <1>8 DEF IInv

\* What a failed call leaves of the request's subscription: none, or one that
\* nothing has come in on.
LEMMA FailsFacts ==
  ASSUME IInv, NEW r \in Subs, Fails(r)
  PROVE  /\ req[r].pc \in {"subscribe", "get"} /\ regMu' = Nil
         /\ UNCHANGED <<store, writer, registry, hub, cons>>
         /\ req'[r].pc \in {"noSubscribe", "noGet"}
         /\ req'[r].pc = "noGet" => chan'[r] = Nil
         /\ \A q \in Subs \ {r} : chan'[q] = chan[q] /\ req'[q] = req[q]
         /\ chan' \in [Subs -> Channels \cup {Nil}] /\ req' \in [Subs -> Requests]
         /\ chan'[r] = Nil \/ chan'[r] = chan[r] \/ chan'[r].queue = <<>>
<1>1. /\ req[r].pc \in {"subscribe", "get"} /\ regMu' = Nil
      /\ UNCHANGED <<store, writer, registry, hub, cons>>
  BY DEF Fails, NoSubscribe, NoGet
<1>2. req \in [Subs -> Requests] /\ SeamTypeOK
  BY <1>1, MakingFacts DEF Making
<1>3. CASE NoSubscribe(r)
  <2>1. /\ req'[r].pc = "noSubscribe" /\ \A q \in Subs \ {r} : req'[q] = req[q]
        /\ req' \in [Subs -> Requests]
    BY <1>2, <1>3 DEF NoSubscribe, Requests
  <2>2. CASE OpenChannel(r)
    BY <1>1, <2>1, <2>2, OpenedFacts DEF Making
  <2>3. CASE UNCHANGED chan
    BY <1>1, <1>2, <2>1, <2>3 DEF SeamTypeOK
  <2> QED BY <1>3, <2>2, <2>3 DEF NoSubscribe
<1>4. CASE NoGet(r)
  <2>1. /\ req'[r].pc = "noGet" /\ \A q \in Subs \ {r} : req'[q] = req[q]
        /\ req' \in [Subs -> Requests]
    BY <1>2, <1>4 DEF NoGet, Requests
  <2>2. /\ chan'[r] = Nil /\ \A q \in Subs \ {r} : chan'[q] = chan[q]
        /\ chan' \in [Subs -> Channels \cup {Nil}]
    BY <1>2, <1>4 DEF NoGet, SeamTypeOK
  <2> QED BY <1>1, <2>1, <2>2
<1> QED
  BY <1>3, <1>4 DEF Fails

\* A refusal releases the mutex, and leaves no subscription behind if it was the
\* GET that failed.
LEMMA FailsIInv ==
  ASSUME IInv, NEW r \in Subs, Fails(r)
  PROVE  IInv'
<1>1. /\ SeamTypeOK /\ regMu = r /\ r # Nil /\ ~Running(r) /\ req[r].pc \in Making
  BY FailsFacts, MakingFacts DEF Making
<1>2. /\ regMu' = Nil /\ UNCHANGED <<store, writer, registry, hub, cons>>
      /\ req'[r].pc \in {"noSubscribe", "noGet"}
      /\ req'[r].pc = "noGet" => chan'[r] = Nil
      /\ \A q \in Subs \ {r} : chan'[q] = chan[q] /\ req'[q] = req[q]
      /\ chan' \in [Subs -> Channels \cup {Nil}] /\ req' \in [Subs -> Requests]
      /\ chan'[r] = Nil \/ chan'[r] = chan[r] \/ chan'[r].queue = <<>>
  BY FailsFacts
<1>3. SeamInv'
  <2>1. \A q \in Subs : ChanInv(q)'
    BY <1>2 DEF IInv, SeamInv, ChanInv, Covered, StoredRev
  <2> QED BY <1>2, <2>1, ReaderKeeps DEF IInv
<1>4. TypeInv'
  BY <1>2 DEF IInv, TypeInv
<1>5. ReqInv(r)' /\ OwnerInv(r)' /\ ConsInv(r)'
  BY <1>1, <1>2 DEF ReqInv, Making, OwnerInv, ConsInv, Running
<1>6. ASSUME NEW q \in Subs \ {r} PROVE ReqInv(q)' /\ OwnerInv(q)' /\ ConsInv(q)'
  <2>1. /\ ReqInv(q) /\ OwnerInv(q) /\ ConsInv(q) /\ q # Nil
        /\ req'[q] = req[q] /\ chan'[q] = chan[q]
    BY <1>2, RegistryAssumption DEF IInv
  <2> QED BY <1>1, <1>2, <2>1 DEF ReqInv, OwnerInv, ConsInv, Running
<1>7. \A l \in Sessions : HubInv(l)'
  BY <1>1, <1>2 DEF IInv, HubInv, TypeInv, Making
<1> QED
  BY <1>3, <1>4, <1>5, <1>6, <1>7 DEF IInv

LEMMA CommitIInv ==
  ASSUME IInv, NEW r \in Subs, Commit(r)
  PROVE  IInv'
<1> DEFINE l == req[r].lane
<1>1. /\ req \in [Subs -> Requests] /\ l \in Sessions /\ registry[l] = Nil
      /\ regMu = r /\ r # Nil /\ ~Running(r)
      /\ \A s \in Sessions : registry[s] # r
  BY MakingFacts DEF Commit, Making
<1>2. /\ chan[r] # Nil /\ chan[r].session = l /\ req[r].snap \in Snapshots
      /\ req[r].snap # Nil
  BY NilAssumption DEF Commit, IInv, ReqInv
<1>3. /\ hub' = [hub EXCEPT ![r] = req[r].snap] /\ registry' = [registry EXCEPT ![l] = r]
      /\ cons' = [cons EXCEPT ![r] = Started]
      /\ req' = [req EXCEPT ![r] = [req[r] EXCEPT !.pc = "served", !.by = r]]
      /\ regMu' = Nil /\ UNCHANGED <<store, writer, chan>>
  BY <1>1 DEF Commit, ServedBy, seamVars
<1>4. Started \in Consumers /\ Started # Nil
  BY NoConsumerAssumption DEF Started, Consumers
<1>5. /\ [req[r] EXCEPT !.pc = "served", !.by = r] \in Requests
      /\ [req[r] EXCEPT !.pc = "served", !.by = r].pc = "served"
      /\ [req[r] EXCEPT !.pc = "served", !.by = r].by = r
      /\ [req[r] EXCEPT !.pc = "served", !.by = r].lane = l
  BY <1>1 DEF Requests
<1> HIDE DEF l
<1>6. /\ req'[r].pc = "served" /\ req'[r].by = r /\ req'[r].lane = l
      /\ \A q \in Subs \ {r} : req'[q] = req[q]
      /\ req' \in [Subs -> Requests]
  BY <1>1, <1>3, <1>5
<1>7. /\ registry'[l] = r /\ \A s \in Sessions \ {l} : registry'[s] = registry[s]
      /\ registry' \in [Sessions -> Subs \cup {Nil}]
  BY <1>1, <1>3 DEF IInv, TypeInv
<1>8. /\ hub'[r] = req[r].snap /\ \A q \in Subs \ {r} : hub'[q] = hub[q]
      /\ hub' \in [Subs -> Snapshots \cup {Nil}]
  BY <1>2, <1>3 DEF IInv, TypeInv
<1>9. /\ cons'[r] = Started /\ \A q \in Subs \ {r} : cons'[q] = cons[q]
      /\ cons' \in [Subs -> Consumers \cup {Nil}]
  BY <1>3, <1>4 DEF IInv, TypeInv
<1>10. SeamInv' /\ TypeInv'
  BY <1>3, <1>6, <1>7, <1>8, <1>9 DEF IInv, TypeInv, SeamInv, SeamTypeOK, WriterInv, StoreInv,
                                      ChanInv, Covered, StoredRev
<1>11. ReqInv(r)' /\ OwnerInv(r)' /\ ConsInv(r)'
  BY <1>1, <1>2, <1>3, <1>4, <1>6, <1>7, <1>9 DEF ReqInv, Making, OwnerInv, ConsInv, Running
<1>12. ASSUME NEW q \in Subs \ {r} PROVE ReqInv(q)' /\ OwnerInv(q)' /\ ConsInv(q)'
  <2>1. /\ ReqInv(q) /\ OwnerInv(q) /\ ConsInv(q) /\ q # Nil
        /\ req'[q] = req[q] /\ cons'[q] = cons[q] /\ chan'[q] = chan[q]
    BY <1>3, <1>6, <1>9, RegistryAssumption DEF IInv
  <2>2. ReqInv(q)'
    BY <1>1, <1>3, <1>7, <2>1 DEF ReqInv
  <2>3. chan[q] # Nil => chan[q].session \in Sessions
    BY DEF IInv, SeamInv, SeamTypeOK, Channels
  <2>4. OwnerInv(q)' /\ ConsInv(q)'
    BY <1>1, <1>3, <1>7, <2>1, <2>3 DEF OwnerInv, ConsInv, Running
  <2> QED BY <2>2, <2>4
<1>13. ASSUME NEW s \in Sessions PROVE HubInv(s)'
  <2>1. CASE s = l
    BY <1>2, <1>6, <1>7, <1>8, <2>1 DEF HubInv
  <2>2. CASE s # l
    <3>1. HubInv(s) /\ registry'[s] = registry[s] /\ registry[s] # r
          /\ registry[s] \in Subs \cup {Nil}
      BY <1>1, <1>7, <2>2 DEF IInv, TypeInv
    <3> QED BY <1>6, <1>8, <3>1 DEF HubInv
  <2> QED BY <2>1, <2>2
<1> QED
  BY <1>10, <1>11, <1>12, <1>13 DEF IInv

LEMMA ReceiveIInv ==
  ASSUME IInv, NEW h \in Subs, Receive(h)
  PROVE  IInv'
<1> DEFINE q == chan[h].queue
<1>1. /\ SeamTypeOK /\ cons \in [Subs -> Consumers \cup {Nil}] /\ cons[h] \in Consumers
      /\ chan[h] \in Channels /\ chan[h] # Nil /\ q # <<>>
      /\ UNCHANGED <<store, writer, regMu, req, registry, hub>>
  BY DEF Receive, IInv, TypeInv, SeamInv, SeamTypeOK, ConsInv, Running
<1>2. q \in Seq(Frames)
  BY <1>1 DEF Channels
<1>3. /\ Head(q) \in Frames /\ Tail(q) \in Seq(Frames)
      /\ \A i \in DOMAIN Tail(q) : Covered(Tail(q)[i], chan[h].session)
  <2>1. \A i \in DOMAIN q : Covered(q[i], chan[h].session)
    BY <1>1 DEF IInv, SeamInv, ChanInv
  <2>2. \A i \in DOMAIN Tail(q) : i + 1 \in DOMAIN q /\ Tail(q)[i] = q[i + 1]
    BY <1>1, <1>2
  <2> QED BY <1>1, <1>2, <2>1, <2>2
<1>4. /\ chan'[h] \in Channels /\ chan'[h] # Nil
      /\ chan'[h].queue = Tail(q) /\ chan'[h].session = chan[h].session
      /\ \A g \in Subs \ {h} : chan'[g] = chan[g]
      /\ chan' \in [Subs -> Channels \cup {Nil}]
  <2> HIDE DEF q
  <2>1. chan' = [chan EXCEPT ![h] = [chan[h] EXCEPT !.queue = Tail(q)]]
    BY DEF Receive, q
  <2>2. [chan[h] EXCEPT !.queue = Tail(q)] \in Channels
    BY <1>1, <1>3 DEF Channels
  <2> QED BY <1>1, <2>1, <2>2, NoChannelAssumption DEF SeamTypeOK, Channels
<1>5. /\ cons'[h] \in Consumers /\ cons'[h] # Nil
      /\ \A g \in Subs \ {h} : cons'[g] = cons[g]
      /\ cons' \in [Subs -> Consumers \cup {Nil}]
  BY <1>1, <1>3, NoConsumerAssumption DEF Receive, Consumers
<1> HIDE DEF q
<1>6. SeamInv'
  <2>1. ChanInv(h)'
    BY <1>1, <1>3, <1>4 DEF ChanInv, Covered, StoredRev
  <2>2. \A g \in Subs \ {h} : ChanInv(g)'
    BY <1>1, <1>4 DEF IInv, SeamInv, ChanInv, Covered, StoredRev
  <2> QED BY <1>1, <1>4, <2>1, <2>2, ReaderKeeps DEF IInv
<1>7. TypeInv' /\ \A s \in Sessions : HubInv(s)'
  BY <1>1, <1>5 DEF IInv, TypeInv, HubInv
<1>8. ASSUME NEW g \in Subs PROVE ReqInv(g)' /\ OwnerInv(g)' /\ ConsInv(g)'
  <2>1. ReqInv(g) /\ OwnerInv(g) /\ ConsInv(g)
    BY DEF IInv
  <2>2. /\ chan'[g] = Nil <=> chan[g] = Nil
        /\ chan'[g].session = chan[g].session
        /\ cons'[g] = Nil <=> cons[g] = Nil
    BY <1>1, <1>4, <1>5 DEF Receive, Running
  <2> QED BY <1>1, <2>1, <2>2 DEF ReqInv, OwnerInv, ConsInv, Running
<1> QED
  BY <1>6, <1>7, <1>8 DEF IInv

\* A registered hub is folded into, never replaced.
LEMMA ApplyHeldIInv ==
  ASSUME IInv, NEW h \in Subs, ApplyHeld(h)
  PROVE  IInv'
<1>1. /\ hub \in [Subs -> Snapshots \cup {Nil}] /\ cons \in [Subs -> Consumers \cup {Nil}]
      /\ cons[h] \in Consumers /\ cons[h].held \in Frames
      /\ hub' = [hub EXCEPT ![h] = Apply(hub[h], cons[h].held)]
      /\ cons' = [cons EXCEPT ![h].held = Nil]
      /\ UNCHANGED <<store, writer, chan, regMu, req, registry>>
  BY DEF IInv, TypeInv, ApplyHeld, Running, Consumers, seamVars
<1>2. hub[h] \in Snapshots
  <2>1. chan[h] # Nil /\ registry[chan[h].session] = h
    BY DEF ApplyHeld, IInv, ConsInv
  <2>2. chan[h].session \in Sessions /\ h # Nil
    BY <2>1, RegistryAssumption DEF IInv, SeamInv, SeamTypeOK, Channels
  <2> QED BY <1>1, <2>1, <2>2 DEF IInv, HubInv
<1>3. Apply(hub[h], cons[h].held) \in Snapshots
  BY <1>1, <1>2, ApplyFacts
<1>4. /\ hub'[h] # Nil /\ \A g \in Subs \ {h} : hub'[g] = hub[g]
      /\ hub' \in [Subs -> Snapshots \cup {Nil}]
  BY <1>1, <1>3, NilAssumption
<1>5. /\ cons'[h] # Nil /\ \A g \in Subs \ {h} : cons'[g] = cons[g]
      /\ cons' \in [Subs -> Consumers \cup {Nil}]
  BY <1>1, NoConsumerAssumption DEF Consumers
<1>6. SeamInv' /\ TypeInv'
  BY <1>1, <1>4, <1>5 DEF IInv, TypeInv, SeamInv, SeamTypeOK, WriterInv, StoreInv, ChanInv,
                          Covered, StoredRev
<1>7. ASSUME NEW g \in Subs PROVE ReqInv(g)' /\ OwnerInv(g)' /\ ConsInv(g)'
  <2>1. ReqInv(g) /\ OwnerInv(g) /\ ConsInv(g) /\ (cons'[g] = Nil <=> cons[g] = Nil)
    BY <1>1, <1>5 DEF IInv, ApplyHeld, Running
  <2> QED BY <1>1, <2>1 DEF ReqInv, OwnerInv, ConsInv, Running
<1>8. \A s \in Sessions : HubInv(s)'
  BY <1>1, <1>4 DEF IInv, HubInv, TypeInv
<1> QED
  BY <1>6, <1>7, <1>8 DEF IInv

LEMMA NextIInv == IInv /\ [Next]_vars => IInv'
<1> SUFFICES ASSUME IInv, [Next]_vars PROVE IInv'
  OBVIOUS
<1>1. CASE SeamNext /\ UNCHANGED regVars
  BY <1>1, SeamIInv
<1>2. ASSUME NEW r \in Subs,
             (\E s \in AllowedSessions : Ask(r, s)) \/ Serve(r) \/ Fails(r) \/ Consume(r)
      PROVE  IInv'
  <2>1. CASE SubscribeAndSnapshot(r)
    <3>1. req[r].pc \in {"subscribe", "get"}
      BY <2>1 DEF SubscribeAndSnapshot
    <3> QED BY <2>1, <3>1, SubscribeIInv, GetIInv
  <2> QED
    BY <1>2, <2>1, AskIInv, LockIInv, CommitIInv, FailsIInv, ReceiveIInv, ApplyHeldIInv
    DEF Serve, Consume
<1>3. CASE UNCHANGED vars
  <2>1. UNCHANGED <<store, writer, chan, regMu, req, registry, hub, cons>>
    BY <1>3 DEF vars, seamVars, regVars
  <2>2. SeamInv' /\ TypeInv'
    BY <2>1 DEF IInv, TypeInv, SeamInv, SeamTypeOK, WriterInv, StoreInv, ChanInv, Covered,
                StoredRev
  <2>3. /\ \A r \in Subs : ReqInv(r)' /\ OwnerInv(r)' /\ ConsInv(r)'
        /\ \A s \in Sessions : HubInv(s)'
    BY <2>1 DEF IInv, ReqInv, OwnerInv, ConsInv, HubInv, Running
  <2> QED BY <2>2, <2>3 DEF IInv
<1> QED
  BY <1>1, <1>2, <1>3 DEF Next

THEOREM Invariant == Spec => []IInv
<1> QED
  BY InitIInv, NextIInv, PTL DEF Spec

\* However requests interleave, wait for the mutex, fail and are made again, a
\* lane has one hub, and a subscription its hub or the request making it, unless a
\* SUBSCRIBE that failed left it behind.
THEOREM OneHubAlways == Spec => []OneHub
<1>1. IInv => OneHub
  BY DEF IInv, ReqInv, OwnerInv, OneHub, Served
<1> QED
  BY <1>1, Invariant, PTL

-----------------------------------------------------------------------------
(* Catching up *)

\* Go writers whose calls all succeed and that nobody kills. The gateway's own
\* calls may fail, and connections may be dropped.
Reliable == PythonClip = {} /\ Faults \cap {"crash", "set", "publish"} = {}

Held(h) == IF cons[h].held = Nil THEN <<>> ELSE <<cons[h].held>>

\* Every hub is fed while its connection holds, and so is the snapshot that a
\* request is about to make one from.
CatchInv ==
  /\ \A s \in Sessions : SteadyInv(s)
  /\ \A r \in Subs : req[r].pc = "commit" /\ chan[r].conn = "first" =>
       Feeds(writer[req[r].lane], req[r].snap, chan[r].queue, req[r].lane)
  /\ \A s \in Fed :
       Feeds(writer[s], hub[registry[s]], Held(registry[s]) \o chan[registry[s]].queue, s)

LEMMA InitCatch == Init => CatchInv
BY InitSteady DEF Init, New, CatchInv, Fed

LEMMA FedFacts ==
  ASSUME IInv, NEW s \in Fed
  PROVE  LET h == registry[s] IN
         /\ s \in Sessions /\ h \in Subs /\ h # Nil /\ Running(h)
         /\ chan[h] \in Channels /\ chan[h] # Nil /\ chan[h].session = s /\ chan[h].conn = "first"
         /\ chan[h].queue \in Seq(Frames) /\ Held(h) \in Seq(Frames)
         /\ hub[h] \in Snapshots /\ hub[h] # Nil /\ cons[h] \in Consumers
<1> DEFINE h == registry[s]
<1>1. /\ s \in Sessions /\ h \in Subs /\ h # Nil /\ Running(h) /\ chan[h].conn = "first"
      /\ cons[h] \in Consumers
  BY DEF Fed, IInv, TypeInv, Running
<1>2. /\ ConsInv(h) /\ HubInv(s) /\ chan[h] # Nil /\ chan[h] \in Channels
      /\ hub[h] \in Snapshots /\ hub[h] # Nil
  BY <1>1 DEF IInv, TypeInv, SeamInv, SeamTypeOK, ConsInv, HubInv
<1>3. chan[h].session \in Sessions /\ registry[chan[h].session] = h
  BY <1>1, <1>2 DEF ConsInv, Channels
<1>4. req[h].lane = chan[h].session /\ req[h].lane = s
  BY <1>1, <1>3 DEF IInv, HubInv
<1>5. chan[h].queue \in Seq(Frames) /\ Held(h) \in Seq(Frames)
  BY <1>1, <1>2 DEF Channels, Held, Consumers
<1> QED
  BY <1>1, <1>2, <1>4, <1>5

LEMMA SeamCatch ==
  ASSUME Reliable, IInv, CatchInv, SeamNext, UNCHANGED regVars
  PROVE  CatchInv'
<1>1. SeamInv /\ SeamInv' /\ SeamMoves
  BY SeamKept DEF IInv
<1>2. \A s \in Sessions : Seen(s, writer[s], writer'[s]) /\ SteadyInv(s)
  <2>1. \A s \in Sessions : Steady(s)
    BY DEF Reliable, Steady
  <2> QED BY <1>1, <2>1, SteadySteps DEF CatchInv
<1>3. \A s \in Sessions : SteadyInv(s)'
  BY <1>1, <1>2, SteadyKept
<1>4. \A g \in Subs : chan[g] # Nil /\ chan'[g].conn = "first" => chan[g].conn = "first"
  BY <1>1, WholeBefore
<1>5. \A s \in Sessions, g \in Subs, h \in Snapshots, p \in Seq(Frames) :
        chan[g] # Nil /\ chan[g].session = s /\ chan'[g].conn = "first"
          /\ Feeds(writer[s], h, p \o chan[g].queue, s)
          => Feeds(writer'[s], h, p \o chan'[g].queue, s)
  BY <1>1, <1>2, <1>4, FeedsKept
<1>6. ASSUME NEW r \in Subs, req[r].pc = "commit", chan'[r].conn = "first"
      PROVE  Feeds(writer'[req[r].lane], req[r].snap, chan'[r].queue, req[r].lane)
  <2>1. /\ chan[r] # Nil /\ chan[r].session = req[r].lane
        /\ req[r].lane \in Sessions /\ req[r].snap \in Snapshots
    BY <1>6 DEF IInv, ReqInv, Making
  <2>2. /\ chan[r].queue \in Seq(Frames) /\ chan'[r].queue \in Seq(Frames)
        /\ <<>> \in Seq(Frames)
    <3>1. chan[r] \in Channels /\ chan'[r] \in Channels
      BY <1>1, <2>1 DEF SeamInv, SeamTypeOK, SeamMoves
    <3> QED BY <3>1 DEF Channels
  <2>3. /\ <<>> \o chan[r].queue = chan[r].queue
        /\ <<>> \o chan'[r].queue = chan'[r].queue
    BY <2>2
  <2>4. Feeds(writer[req[r].lane], req[r].snap, <<>> \o chan[r].queue, req[r].lane)
    BY <1>4, <1>6, <2>1, <2>3 DEF CatchInv
  <2> QED BY <1>5, <1>6, <2>1, <2>2, <2>3, <2>4
<1>7. ASSUME NEW s \in Fed'
      PROVE  Feeds(writer'[s], hub[registry[s]],
                   Held(registry[s]) \o chan'[registry[s]].queue, s)
  <2>1. /\ s \in Sessions /\ registry[s] # Nil /\ Running(registry[s])
        /\ chan'[registry[s]].conn = "first"
    BY DEF Fed, Running, regVars
  <2>2. registry[s] \in Subs /\ chan[registry[s]] # Nil
    BY <2>1 DEF IInv, TypeInv, ConsInv
  <2>3. s \in Fed
    BY <1>4, <2>1, <2>2 DEF Fed
  <2>4. Feeds(writer[s], hub[registry[s]], Held(registry[s]) \o chan[registry[s]].queue, s)
    BY <2>3 DEF CatchInv
  <2>5. /\ chan[registry[s]].session = s /\ Held(registry[s]) \in Seq(Frames)
        /\ hub[registry[s]] \in Snapshots
    BY <2>3, FedFacts
  <2> QED BY <1>5, <2>1, <2>2, <2>4, <2>5
<1>8. ASSUME NEW r \in Subs, req'[r].pc = "commit", chan'[r].conn = "first"
      PROVE  Feeds(writer'[req'[r].lane], req'[r].snap, chan'[r].queue, req'[r].lane)
  BY <1>6, <1>8 DEF regVars
<1>9. ASSUME NEW s \in Fed'
      PROVE  Feeds(writer'[s], hub'[registry'[s]],
                   Held(registry[s])' \o chan'[registry'[s]].queue, s)
  BY <1>7 DEF regVars, Held
<1> QED
  BY <1>3, <1>8, <1>9 DEF CatchInv

\* What is left of the invariant when the writers, the store and the hubs stand.
LEMMA ReqCatch ==
  ASSUME IInv, CatchInv, NEW r \in Subs, req[r].pc \notin {"served"},
         UNCHANGED <<store, writer, registry, hub, cons>>,
         \A q \in Subs \ {r} : chan'[q] = chan[q] /\ req'[q] = req[q],
         chan'[r] = Nil \/ chan'[r] = chan[r] \/ chan'[r].queue = <<>>,
         req'[r].pc # "commit"
  PROVE  CatchInv'
<1>1. \A s \in Sessions : SteadyInv(s)'
  <2>1. \A g \in Subs : \/ chan'[g] = Nil \/ chan'[g].queue = <<>>
                        \/ /\ chan[g] # Nil /\ chan'[g].session = chan[g].session
                           /\ chan[g].queue = <<>> => chan'[g].queue = <<>>
    OBVIOUS
  <2> QED BY <2>1, ReaderSteady DEF CatchInv
<1>2. \A q \in Subs : req'[q].pc = "commit" => q # r
  OBVIOUS
<1>3. \A s \in Sessions : registry[s] # Nil => registry[s] \in Subs \ {r}
  BY DEF IInv, TypeInv, HubInv
<1>4. ASSUME NEW s \in Fed'
      PROVE  Feeds(writer'[s], hub'[registry'[s]],
                   Held(registry[s])' \o chan'[registry'[s]].queue, s)
  <2>1. registry[s] # Nil /\ s \in Sessions
    BY DEF Fed
  <2>2. registry[s] \in Subs /\ chan'[registry[s]] = chan[registry[s]]
    BY <1>3, <2>1
  <2>3. s \in Fed
    BY <2>1, <2>2 DEF Fed, Running
  <2>4. Held(registry[s])' = Held(registry[s])
    BY DEF Held
  <2> QED BY <2>2, <2>3, <2>4 DEF CatchInv
<1>5. ASSUME NEW q \in Subs, req'[q].pc = "commit", chan'[q].conn = "first"
      PROVE  Feeds(writer'[req'[q].lane], req'[q].snap, chan'[q].queue, req'[q].lane)
  BY <1>2, <1>5 DEF CatchInv
<1> QED
  BY <1>1, <1>4, <1>5 DEF CatchInv

LEMMA GetCatch ==
  ASSUME IInv, CatchInv, NEW r \in Subs, req[r].pc = "get", SubscribeAndSnapshot(r)
  PROVE  CatchInv'
<1>1. /\ req \in [Subs -> Requests] /\ req[r].lane \in Sessions /\ SeamInv
      /\ chan[r] # Nil /\ chan[r].session = req[r].lane
  BY MakingFacts DEF Making, IInv, ReqInv
<1>2. /\ req' = [req EXCEPT ![r].pc = "commit", ![r].snap = Loaded(req[r].lane)]
      /\ UNCHANGED <<store, writer, chan, regMu, registry, hub, cons>>
  BY <1>1 DEF SubscribeAndSnapshot
<1>3. /\ req'[r].lane = req[r].lane /\ req'[r].snap = Loaded(req[r].lane)
      /\ \A q \in Subs \ {r} : req'[q] = req[q]
  BY <1>1, <1>2 DEF Requests
<1>4. Feeds(writer[req[r].lane], Loaded(req[r].lane), chan[r].queue, req[r].lane)
  BY <1>1, LoadedFeeds DEF CatchInv
<1>5. \A s \in Sessions : SteadyInv(s)'
  BY <1>2, ReaderSteady DEF CatchInv
<1>6. ASSUME NEW q \in Subs, req'[q].pc = "commit", chan'[q].conn = "first"
      PROVE  Feeds(writer'[req'[q].lane], req'[q].snap, chan'[q].queue, req'[q].lane)
  <2>1. CASE q = r
    BY <1>2, <1>3, <1>4, <2>1
  <2>2. CASE q # r
    BY <1>2, <1>3, <1>6, <2>2 DEF CatchInv
  <2> QED BY <2>1, <2>2
<1>7. Fed' = Fed
  BY <1>2 DEF Fed, Running
<1>8. \A s \in Fed : Feeds(writer'[s], hub'[registry'[s]],
                           Held(registry[s])' \o chan'[registry'[s]].queue, s)
  BY <1>2 DEF CatchInv, Held
<1> QED
  BY <1>5, <1>6, <1>7, <1>8 DEF CatchInv

LEMMA CommitCatch ==
  ASSUME IInv, CatchInv, NEW r \in Subs, Commit(r)
  PROVE  CatchInv'
<1> DEFINE l == req[r].lane
<1>1. /\ req \in [Subs -> Requests] /\ l \in Sessions /\ registry[l] = Nil /\ r # Nil
      /\ \A s \in Sessions : registry[s] # r
  BY MakingFacts DEF Commit, Making
<1>2. /\ chan[r] # Nil /\ chan[r].session = l
      /\ chan[r].conn = "first" => Feeds(writer[l], req[r].snap, chan[r].queue, l)
  BY DEF Commit, IInv, ReqInv, CatchInv
<1>3. /\ hub' = [hub EXCEPT ![r] = req[r].snap] /\ registry' = [registry EXCEPT ![l] = r]
      /\ cons' = [cons EXCEPT ![r] = Started]
      /\ req' = ServedBy(r, r)
      /\ UNCHANGED <<store, writer, chan>>
  BY DEF Commit, seamVars
<1>4. req'[r].pc = "served" /\ \A q \in Subs \ {r} : req'[q] = req[q]
  BY <1>1, <1>3 DEF ServedBy, Requests
<1>5. /\ registry'[l] = r /\ \A s \in Sessions \ {l} : registry'[s] = registry[s]
      /\ hub'[r] = req[r].snap /\ \A q \in Subs \ {r} : hub'[q] = hub[q]
      /\ cons'[r] = Started /\ \A q \in Subs \ {r} : cons'[q] = cons[q]
  BY <1>1, <1>3 DEF IInv, TypeInv
<1>6. \A s \in Sessions : SteadyInv(s)'
  BY <1>3, ReaderSteady DEF CatchInv
<1>7. ASSUME NEW q \in Subs, req'[q].pc = "commit", chan'[q].conn = "first"
      PROVE  Feeds(writer'[req'[q].lane], req'[q].snap, chan'[q].queue, req'[q].lane)
  BY <1>3, <1>4, <1>7 DEF CatchInv
<1> DEFINE held(g) == IF cons'[g].held = Nil THEN <<>> ELSE <<cons'[g].held>>
<1>8. ASSUME NEW s \in Fed'
      PROVE  Feeds(writer'[s], hub'[registry'[s]],
                   held(registry'[s]) \o chan'[registry'[s]].queue, s)
  <2>1. CASE s = l
    <3>1. registry'[s] = r /\ chan[r].conn = "first"
      BY <1>3, <1>5, <2>1 DEF Fed
    <3>2. chan[r].queue \in Seq(Frames)
      BY <1>2 DEF IInv, SeamInv, SeamTypeOK, Channels
    <3>3. held(r) \o chan[r].queue = chan[r].queue
      <4>1. held(r) = <<>>
        BY <1>5 DEF Started
      <4> HIDE DEF held
      <4>2. <<>> \o chan[r].queue = chan[r].queue
        BY <3>2
      <4> QED BY <4>1, <4>2
    <3> QED BY <1>2, <1>3, <1>5, <2>1, <3>1, <3>3
  <2>2. CASE s # l
    <3>1. /\ s \in Sessions /\ registry'[s] = registry[s] /\ registry[s] # r /\ registry[s] # Nil
          /\ registry[s] \in Subs
      BY <1>1, <1>5, <2>2 DEF Fed, IInv, TypeInv
    <3>2. cons'[registry[s]] = cons[registry[s]] /\ hub'[registry[s]] = hub[registry[s]]
      BY <1>5, <3>1
    <3>3. s \in Fed
      BY <1>3, <3>1, <3>2 DEF Fed, Running
    <3>4. held(registry[s]) = Held(registry[s])
      BY <3>2 DEF Held
    <3> QED BY <1>3, <3>1, <3>2, <3>3, <3>4 DEF CatchInv
  <2> QED BY <2>1, <2>2
<1>9. \A s \in Fed' : Feeds(writer'[s], hub'[registry'[s]],
                            Held(registry[s])' \o chan'[registry'[s]].queue, s)
  BY <1>8 DEF Held
<1> QED
  BY <1>6, <1>7, <1>9 DEF CatchInv

\* A hub takes the next frame from its queue, and folds it: as well fed as before.
LEMMA ConsumeCatch ==
  ASSUME IInv, CatchInv, NEW h \in Subs, Receive(h) \/ ApplyHeld(h)
  PROVE  CatchInv'
<1>1. /\ SeamInv /\ SeamTypeOK /\ cons \in [Subs -> Consumers \cup {Nil}]
      /\ hub \in [Subs -> Snapshots \cup {Nil}]
      /\ cons[h] \in Consumers /\ cons[h] # Nil /\ chan[h] \in Channels /\ chan[h] # Nil
      /\ UNCHANGED <<store, writer, regMu, req, registry>>
  BY DEF Receive, ApplyHeld, IInv, TypeInv, SeamInv, SeamTypeOK, ConsInv, Running, seamVars
<1>2. chan[h].queue \in Seq(Frames)
  BY <1>1 DEF Channels
<1>3. \/ /\ cons[h].held = Nil /\ chan[h].queue # <<>> /\ UNCHANGED hub
         /\ cons'[h].held = Head(chan[h].queue) /\ chan'[h].queue = Tail(chan[h].queue)
      \/ /\ cons[h].held # Nil /\ cons[h].held \in Frames
         /\ hub'[h] = Apply(hub[h], cons[h].held) /\ cons'[h].held = Nil /\ UNCHANGED chan
  BY <1>1 DEF Receive, ApplyHeld, SeamTypeOK, Channels, Consumers, seamVars
<1>4. /\ chan'[h].session = chan[h].session /\ chan'[h].conn = chan[h].conn
      /\ \A g \in Subs \ {h} : chan'[g] = chan[g] /\ cons'[g] = cons[g] /\ hub'[g] = hub[g]
  BY <1>1 DEF Receive, ApplyHeld, SeamTypeOK, Channels, seamVars
<1>5. \A s \in Sessions : SteadyInv(s)'
  <2>1. \A g \in Subs : \/ chan'[g] = Nil \/ chan'[g].queue = <<>>
                        \/ /\ chan[g] # Nil /\ chan'[g].session = chan[g].session
                           /\ chan[g].queue = <<>> => chan'[g].queue = <<>>
    BY <1>1, <1>3, <1>4
  <2> QED BY <1>1, <2>1, ReaderSteady DEF CatchInv
<1>6. ASSUME NEW q \in Subs, req'[q].pc = "commit", chan'[q].conn = "first"
      PROVE  Feeds(writer'[req'[q].lane], req'[q].snap, chan'[q].queue, req'[q].lane)
  <2>1. q # h
    BY <1>1, <1>6, MakingFacts DEF Making, Running
  <2> QED BY <1>1, <1>4, <1>6, <2>1 DEF CatchInv
<1> DEFINE held(g) == IF cons'[g].held = Nil THEN <<>> ELSE <<cons'[g].held>>
<1>7. ASSUME NEW s \in Fed'
      PROVE  Feeds(writer[s], hub'[registry[s]], held(registry[s]) \o chan'[registry[s]].queue, s)
  <2>1. s \in Sessions /\ registry[s] # Nil /\ registry[s] \in Subs
    BY <1>1 DEF Fed, IInv, TypeInv
  <2>2. CASE registry[s] # h
    <3>1. /\ cons'[registry[s]] = cons[registry[s]] /\ hub'[registry[s]] = hub[registry[s]]
          /\ chan'[registry[s]] = chan[registry[s]]
      BY <1>4, <2>1, <2>2
    <3>2. s \in Fed
      BY <1>1, <2>1, <3>1 DEF Fed, Running
    <3>3. held(registry[s]) = Held(registry[s])
      BY <3>1 DEF Held
    <3> QED BY <3>1, <3>2, <3>3 DEF CatchInv
  <2>3. CASE registry[s] = h
    <3>1. s \in Fed
      BY <1>1, <1>4, <2>1, <2>3 DEF Fed, Running
    <3>2. Feeds(writer[s], hub[h], Held(h) \o chan[h].queue, s) /\ hub[h] \in Snapshots
      BY <2>3, <3>1, FedFacts DEF CatchInv
    <3>3. CASE cons[h].held = Nil
      <4>1. /\ chan[h].queue # <<>> /\ UNCHANGED hub
            /\ cons'[h].held = Head(chan[h].queue) /\ chan'[h].queue = Tail(chan[h].queue)
        BY <1>3, <3>3
      <4>2. /\ Head(chan[h].queue) \in Frames
            /\ <<Head(chan[h].queue)>> \o Tail(chan[h].queue) = <<>> \o chan[h].queue
        BY <1>2, <4>1
      <4>3. held(h) = <<Head(chan[h].queue)>> /\ Held(h) = <<>>
        BY <3>3, <4>1, <4>2, NilAssumption DEF Held
      <4> QED BY <2>3, <3>2, <4>1, <4>2, <4>3
    <3>4. CASE cons[h].held # Nil
      <4>1. /\ cons[h].held \in Frames /\ UNCHANGED chan
            /\ hub'[h] = Apply(hub[h], cons[h].held) /\ cons'[h].held = Nil
        BY <1>3, <3>4
      <4>2. held(h) = <<>> /\ Held(h) = <<cons[h].held>>
        BY <3>4, <4>1 DEF Held
      <4>3. <<>> \o chan[h].queue = chan[h].queue
        BY <1>2
      <4>4. Feeds(writer[s], Apply(hub[h], cons[h].held), chan[h].queue, s)
        BY <1>1, <1>2, <2>1, <3>2, <4>1, <4>2, FeedsApply
      <4> QED BY <2>3, <4>1, <4>2, <4>3, <4>4
    <3> QED BY <3>3, <3>4
  <2> QED BY <2>2, <2>3
<1>8. \A s \in Fed' : Feeds(writer'[s], hub'[registry'[s]],
                            Held(registry[s])' \o chan'[registry'[s]].queue, s)
  BY <1>1, <1>7 DEF Held
<1> QED
  BY <1>5, <1>6, <1>8 DEF CatchInv

LEMMA NextCatch == Reliable /\ IInv /\ CatchInv /\ [Next]_vars => CatchInv'
<1> SUFFICES ASSUME Reliable, IInv, CatchInv, [Next]_vars PROVE CatchInv'
  OBVIOUS
<1>1. CASE SeamNext /\ UNCHANGED regVars
  BY <1>1, SeamCatch
<1>2. ASSUME NEW r \in Subs, (\E s \in AllowedSessions : Ask(r, s)) \/ Lock(r) PROVE CatchInv'
  <2>1. /\ \A q \in Subs : req'[q] = req[q] \/ req'[q].pc # "commit"
        /\ UNCHANGED <<store, writer, chan, registry, hub, cons>>
    <3>1. req \in [Subs -> Requests]
      BY DEF IInv, TypeInv
    <3>2. ASSUME NEW pc \in {"waiting", "served", "subscribe"}, NEW q,
                 req' = [req EXCEPT ![r] = q], q.pc = pc
          PROVE  \A g \in Subs : req'[g] = req[g] \/ req'[g].pc # "commit"
      BY <3>1, <3>2
    <3>3. CASE \E s \in AllowedSessions : Ask(r, s)
      <4>1. PICK s \in AllowedSessions :
              req' = [req EXCEPT ![r] = [req[r] EXCEPT !.lane = s, !.pc = "waiting"]]
        BY <3>3 DEF Ask
      <4>2. [req[r] EXCEPT !.lane = s, !.pc = "waiting"].pc = "waiting"
        BY <3>1 DEF Requests
      <4> QED BY <3>2, <3>3, <4>1, <4>2 DEF Ask, seamVars
    <3>4. CASE Lock(r)
      <4>1. \E h : req' = [req EXCEPT ![r] = [req[r] EXCEPT !.pc = "served", !.by = h]]
              \/ req' = [req EXCEPT ![r] = [req[r] EXCEPT !.pc = "subscribe"]]
        BY <3>4 DEF Lock, ServedBy
      <4>2. /\ \A h : [req[r] EXCEPT !.pc = "served", !.by = h].pc = "served"
            /\ [req[r] EXCEPT !.pc = "subscribe"].pc = "subscribe"
        BY <3>1 DEF Requests
      <4> QED BY <3>2, <3>4, <4>1, <4>2 DEF Lock, seamVars
    <3> QED BY <1>2, <3>3, <3>4
  <2>2. \A s \in Sessions : SteadyInv(s)'
    BY <2>1, ReaderSteady DEF CatchInv
  <2>3. Fed' = Fed
    BY <2>1 DEF Fed, Running
  <2>4. ASSUME NEW q \in Subs, req'[q].pc = "commit", chan'[q].conn = "first"
        PROVE  Feeds(writer'[req'[q].lane], req'[q].snap, chan'[q].queue, req'[q].lane)
    BY <2>1, <2>4 DEF CatchInv
  <2>5. \A s \in Fed : Feeds(writer'[s], hub'[registry'[s]],
                             Held(registry[s])' \o chan'[registry'[s]].queue, s)
    BY <2>1 DEF CatchInv, Held
  <2> QED BY <2>2, <2>3, <2>4, <2>5 DEF CatchInv
<1>3. ASSUME NEW r \in Subs, SubscribeAndSnapshot(r) PROVE CatchInv'
  <2>1. CASE req[r].pc = "subscribe"
    <3>1. /\ chan' = [chan EXCEPT ![r] =
                        [session |-> req[r].lane, conn |-> "first", queue |-> <<>>]]
          /\ req' = [req EXCEPT ![r].pc = "get"]
          /\ UNCHANGED <<store, writer, registry, hub, cons>>
      BY <1>3, <2>1 DEF SubscribeAndSnapshot, OpenChannel
    <3>2. /\ chan'[r].queue = <<>> /\ req'[r].pc = "get"
          /\ \A q \in Subs \ {r} : chan'[q] = chan[q] /\ req'[q] = req[q]
      BY <3>1 DEF IInv, TypeInv, SeamInv, SeamTypeOK, Requests
    <3> QED BY <2>1, <3>1, <3>2, ReqCatch
  <2>2. CASE req[r].pc = "get"
    BY <1>3, <2>2, GetCatch
  <2> QED BY <1>3, <2>1, <2>2 DEF SubscribeAndSnapshot
<1>4. ASSUME NEW r \in Subs, Fails(r) PROVE CatchInv'
  BY <1>4, FailsFacts, ReqCatch
<1>5. CASE UNCHANGED vars
  <2>1. UNCHANGED <<store, writer, chan, regMu, req, registry, hub, cons>>
    BY <1>5 DEF vars, seamVars, regVars
  <2>2. \A s \in Sessions : SteadyInv(s)'
    BY <2>1, ReaderSteady DEF CatchInv
  <2> QED BY <2>1, <2>2 DEF CatchInv, Fed, Held, Running
<1> QED
  BY <1>1, <1>2, <1>3, <1>4, <1>5, CommitCatch, ConsumeCatch
     DEF Next, Serve, Consume

\* Whichever request made a lane's hub, and whatever others do meanwhile, the
\* hub misses no frame while its connection holds: from every state, what is in
\* flight brings it to exactly the writer's own snapshot.
THEOREM HubsAlwaysCatchUp == Reliable => (Spec => []HubsCatchUp)
<1>1. IInv /\ CatchInv => HubsCatchUp
  <2> SUFFICES ASSUME IInv, CatchInv, NEW s \in Fed, writer[s].pc # "down"
               PROVE  LET h == hub[registry[s]]
                          folded == Folded(h, InFlight(s))
                          snap == writer[s].snap
                      IN  /\ FrameFields(folded) = FrameFields(snap)
                          /\ h.header # Nil => folded = snap
    BY DEF HubsCatchUp
  <2> DEFINE g == registry[s]
  <2>1. /\ s \in Sessions /\ hub[g] \in Snapshots /\ SeamInv
        /\ chan[g].queue \in Seq(Frames) /\ Held(g) \in Seq(Frames)
        /\ Feeds(writer[s], hub[g], Held(g) \o chan[g].queue, s)
    BY FedFacts DEF IInv, CatchInv
  <2>2. Held(g) \o chan[g].queue \in Seq(Frames)
    BY <2>1
  <2>3. InFlight(s) = (Held(g) \o chan[g].queue) \o Unpublished(writer[s])
    BY DEF InFlight, Held
  <2> QED BY <2>1, <2>2, <2>3, FedCatchesUp
<1>2. ASSUME Reliable PROVE Spec => []HubsCatchUp
  <2>1. Init => CatchInv
    BY InitCatch
  <2>2. IInv /\ CatchInv /\ [Next]_vars => CatchInv'
    BY <1>2, NextCatch
  <2> QED BY <1>1, <2>1, <2>2, Invariant, PTL DEF Spec
<1> QED
  BY <1>2
=============================================================================
