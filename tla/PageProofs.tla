------------------------------ MODULE PageProofs ------------------------------
(***************************************************************************)
(* Three parts of the page that share no state.                            *)
(*                                                                         *)
(* Its selection, its URL and the shared pair (AppRoutes), for any         *)
(* catalogue, laps, boards and links: what the page shows is what the user *)
(* or a link chose, and a copied link opens the pair it was copied from.   *)
(*                                                                         *)
(* Its radio panel (Comms), for any radio, clock, history and tolerance,   *)
(* and however play() is answered: every clip fires once, and the banner   *)
(* names the clip that is heard.                                           *)
(*                                                                         *)
(* The stall that its rail claims (Rail), for any threshold and any order  *)
(* of frames, ticks, switches, losses, Freeze and Resume.                  *)
(***************************************************************************)
EXTENDS AppRoutes, Comms, Rail, ListProofs

-----------------------------------------------------------------------------
(* The radio panel: Comms *)

\* play() of a new source names that source, or nothing.
LEMMA PlayNames ==
  ASSUME NEW m, Play(m)
  PROVE  BannerIsHeard'
  BY DEF Play, BannerIsHeard

\* So does whatever pump() does to a player that is idle or starts another clip.
LEMMA PumpNames ==
  ASSUME BannerIsHeard, NEW q, NEW now, NEW arrivals, Pump(q, now, arrivals)
  PROVE  BannerIsHeard'
<1>1. CASE Playable(q, now, arrivals) = {}
  BY <1>1 DEF Pump, BannerIsHeard
<1>2. CASE Playable(q, now, arrivals) # {}
  <2>1. Play(q[Min(Playable(q, now, arrivals))])
    BY <1>2 DEF Pump
  <2> QED  BY <2>1, PlayNames
<1> QED  BY <1>1, <1>2

\* A banner that stays while the element does is still right.
LEMMA SameNames ==
  ASSUME BannerIsHeard, nowPlaying' \in {nowPlaying, Null}, audio' = audio
  PROVE  BannerIsHeard'
  BY DEF BannerIsHeard

\* The banner names the clip that the element has: whoever changes the element's
\* source changes the banner, and a rejection clears only its own clip (useComms.ts).
THEOREM Banner == CommsSpec => []BannerIsHeard
<1>1. CommsInit => BannerIsHeard
  BY DEF CommsInit, BannerIsHeard
<1>2. BannerIsHeard /\ [CommsNext]_commsVars => BannerIsHeard'
  <2> SUFFICES ASSUME BannerIsHeard, [CommsNext]_commsVars
               PROVE  BannerIsHeard'
    OBVIOUS
  <2>1. ASSUME NEW l, NEW t, SnapshotArrives(l, t)
        PROVE  BannerIsHeard'
    BY <2>1, SameNames DEF SnapshotArrives, player
  <2>2. CASE FrameArrives
    BY <2>2, SameNames DEF FrameArrives, player
  <2>3. ASSUME NEW t, Seek(t)
        PROVE  BannerIsHeard'
    BY <2>3, SameNames DEF Seek, player
  <2>4. CASE StepEffect
    <3>1. PICK refs : \/ Pump(queue \o refs, clock, live')
                     \/ UNCHANGED <<nowPlaying, audio>>
      BY <2>4 DEF StepEffect, player
    <3> QED  BY <3>1, PumpNames, SameNames
  <2>5. CASE Starts
    BY <2>5 DEF Starts, BannerIsHeard
  <2>6. CASE Refused
    BY <2>6 DEF Refused, Rejected, BannerIsHeard
  <2>7. CASE LateRejection
    BY <2>7, SameNames DEF LateRejection, Rejected
  <2>8. CASE Breaks
    BY <2>8 DEF Breaks, BannerIsHeard
  <2>9. CASE Ended
    <3>1. CASE Playable(queue, cursor, live) = {}
      BY <2>9, <3>1 DEF Ended, BannerIsHeard
    <3>2. CASE Playable(queue, cursor, live) # {}
      BY <2>9, <3>2, PumpNames DEF Ended
    <3> QED  BY <3>1, <3>2
  <2>10. CASE Toggle
    <3>1. CASE enabled
      BY <2>10, <3>1 DEF Toggle, BannerIsHeard
    <3>2. CASE ~enabled
      BY <2>10, <3>2, SameNames DEF Toggle, player
    <3> QED  BY <3>1, <3>2
  <2>11. ASSUME NEW m, Replay(m)
         PROVE  BannerIsHeard'
    <3>1. CASE m.clip.allowed
      BY <2>11, <3>1, PlayNames DEF Replay
    <3>2. CASE ~m.clip.allowed
      BY <2>11, <3>2, SameNames DEF Replay
    <3> QED  BY <3>1, <3>2
  <2>12. CASE UNCHANGED commsVars
    BY <2>12, SameNames DEF commsVars, player
  <2> QED
    BY <2>1, <2>2, <2>3, <2>4, <2>5, <2>6, <2>7, <2>8, <2>9, <2>10, <2>11, <2>12 DEF CommsNext
<1> QED  BY <1>1, <1>2, PTL DEF CommsSpec

-----------------------------------------------------------------------------
(* What fires *)

CommsTypeOK ==
  /\ lane \in {"replay", "live"} /\ clock \in Nat /\ dirty \in BOOLEAN
  /\ snapshotSeq \in 0 .. MaxSnapshots /\ published \in 0 .. Len(Transmitted)
  /\ radio \in Seq(Refs) /\ fired \in Seq(Refs)
  /\ cursor \in Int /\ seenSeq \in Int /\ seenLen \in Nat
  /\ since \in [clock : Int, len : Nat]

\* The live lane has every clip it published, spoken by now.
RadioInv ==
  /\ IsInjective(radio)
  /\ lane = "live" =>
       /\ Len(radio) = published
       /\ \A i \in 1 .. published :
            radio[i].clip = Transmitted[i] /\ Transmitted[i].timeMs <= clock

\* What should have fired when the effect has seen n clips and the clock at t.
Owed(n, t) ==
  {i \in 1 .. n : \/ since.len < i
                  \/ since.clock < radio[i].clip.timeMs /\ radio[i].clip.timeMs <= t}

\* A cursor of this snapshot: it is behind, and what was owed at it has fired.
CursorInv ==
  seenSeq = snapshotSeq =>
    /\ since.len <= seenLen /\ seenLen <= Len(radio) /\ since.clock <= cursor
    /\ Range(fired) = {radio[i] : i \in Owed(seenLen, cursor)}
    /\ lane = "live" =>
         cursor <= clock /\ \A i \in 1 .. seenLen : radio[i].clip.timeMs <= cursor
    /\ lane = "replay" => since.len = Len(radio)

FiredInv ==
  /\ CommsTypeOK /\ RadioInv /\ IsInjective(fired) /\ CursorInv
  /\ seenSeq <= snapshotSeq
  /\ ~dirty => \/ seenSeq = snapshotSeq /\ seenLen = Len(radio) /\ cursor = clock
               \/ radio = <<>> /\ fired = <<>>

LEMMA RefFacts ==
  ASSUME CommsTypeOK
  PROVE  /\ Len(radio) \in Nat /\ DOMAIN radio = 1 .. Len(radio)
         /\ \A i \in 1 .. Len(radio) : radio[i] \in Refs /\ radio[i].clip.timeMs \in Int
<1>1. Len(radio) \in Nat /\ DOMAIN radio = 1 .. Len(radio)
      /\ \A i \in 1 .. Len(radio) : radio[i] \in Refs
  BY DEF CommsTypeOK
<1>2. \A m \in Refs : m.clip.timeMs \in Int
  BY CommsAssumption DEF Refs
<1> QED  BY <1>1, <1>2

\* Sorted by time or as they came: each reference once.
LEMMA ByTimeFacts ==
  ASSUME CommsTypeOK, IsInjective(radio), NEW I \in SUBSET DOMAIN radio
  PROVE  /\ ByTime[I] \in Seq(Refs) /\ IsInjective(ByTime[I])
         /\ Range(ByTime[I]) = {radio[i] : i \in I}
<1> DEFINE key == [i \in I |-> radio[i].clip.timeMs]
           n == Cardinality(I)
<1>1. I \in SUBSET Int /\ IsFiniteSet(I)
  <2>1. IsFiniteSet(1 .. Len(radio)) /\ I \in SUBSET (1 .. Len(radio))
    BY RefFacts, FS_Interval
  <2> QED  BY <2>1, FS_Subset
<1>2. key \in [I -> Int]
  BY RefFacts
<1>3. ByTime[I] = StableSort(radio, key)
  BY DEF ByTime
<1> HIDE DEF key
<1>4. PICK at \in Bijection(1 .. n, I) : StableSort(radio, key) = [k \in 1 .. n |-> radio[at[k]]]
  BY <1>1, <1>2, StableSortFacts
<1>5. n \in Nat
  BY <1>1, FS_CardinalityType
<1> HIDE DEF n
<1>6. /\ at \in [1 .. n -> I] /\ \A k, l \in 1 .. n : at[k] = at[l] => k = l
      /\ \A i \in I : \E k \in 1 .. n : at[k] = i
  BY <1>4 DEF Bijection, Injection, Surjection, IsInjective
<1>7. \A i \in I : i \in DOMAIN radio /\ radio[i] \in Refs
  BY RefFacts
<1>8. \A i, j \in I : radio[i] = radio[j] => i = j
  BY DEF IsInjective
<1> DEFINE q == [k \in 1 .. n |-> radio[at[k]]]
<1>9. q \in Seq(Refs)
  BY <1>5, <1>6, <1>7
<1>10. IsInjective(q)
  BY <1>6, <1>8 DEF IsInjective
<1>11. Range(q) = {radio[i] : i \in I}
  BY <1>6 DEF Range
<1> QED  BY <1>3, <1>4, <1>9, <1>10, <1>11

LEMMA ArrivedFacts ==
  ASSUME CommsTypeOK, IsInjective(radio)
  PROVE  /\ Arrived \in Seq(Refs) /\ IsInjective(Arrived)
         /\ Range(Arrived) = {radio[i] : i \in Arrivals}
<1>1. CASE Arrivals = {}
  <2>1. <<>> \in Seq(Refs) /\ IsInjective(<<>>) /\ Range(<<>>) = {}
    BY DEF IsInjective, Range
  <2> QED  BY <1>1, <2>1 DEF Arrived
<1>2. CASE Arrivals # {}
  <2> DEFINE q == SubSeq(radio, seenLen + 1, Len(radio))
             n == Len(radio) - seenLen
  <2>1. Arrivals = seenLen + 1 .. Len(radio) /\ Arrived = q
    BY <1>2 DEF Arrivals, Arrived
  <2>2. seenLen \in Nat /\ Len(radio) \in Nat /\ seenLen + 1 <= Len(radio) /\ radio \in Seq(Refs)
    BY <1>2, <2>1, RefFacts DEF CommsTypeOK
  <2>3. q \in Seq(Refs) /\ DOMAIN q = 1 .. n /\ \A k \in 1 .. n : q[k] = radio[seenLen + k]
    BY <2>2
  <2> HIDE DEF q, n
  <2>4. \A k \in 1 .. n : seenLen + k \in Arrivals /\ seenLen + k \in DOMAIN radio
    BY <2>1, <2>2, RefFacts DEF n
  <2>5. IsInjective(q)
    <3> SUFFICES ASSUME NEW k \in 1 .. n, NEW l \in 1 .. n, q[k] = q[l]
                 PROVE  k = l
      BY <2>3 DEF IsInjective
    <3>1. seenLen + k = seenLen + l
      BY <2>3, <2>4 DEF IsInjective
    <3> QED  BY <2>2, <3>1
  <2>6. \A i \in Arrivals : i - seenLen \in 1 .. n /\ seenLen + (i - seenLen) = i
    BY <2>1, <2>2 DEF n
  <2>7. Range(q) = {radio[i] : i \in Arrivals}
    <3>1. Range(q) \subseteq {radio[i] : i \in Arrivals}
      BY <2>3, <2>4 DEF Range
    <3>2. \A i \in Arrivals : radio[i] = q[i - seenLen] /\ i - seenLen \in DOMAIN q
      BY <2>3, <2>6
    <3>3. {radio[i] : i \in Arrivals} \subseteq Range(q)
      BY <3>2 DEF Range
    <3> QED  BY <3>1, <3>3
  <2> QED  BY <2>1, <2>3, <2>5, <2>7
<1> QED  BY <1>1, <1>2

\* The effect fires what is owed since it last ran, or starts again from here.
LEMMA EffectFires ==
  ASSUME FiredInv, StepEffect
  PROVE  /\ fired' \in Seq(Refs) /\ IsInjective(fired')
         /\ since' \in [clock : Int, len : Nat]
         /\ since'.len <= Len(radio) /\ since'.clock <= clock
         /\ lane = "replay" => since'.len = Len(radio)
         /\ Range(fired') =
              {radio[i] : i \in {j \in 1 .. Len(radio) :
                 \/ since'.len < j
                 \/ since'.clock < radio[j].clip.timeMs /\ radio[j].clip.timeMs <= clock}}
<1> DEFINE owed == {j \in 1 .. Len(radio) :
                      \/ since'.len < j
                      \/ since'.clock < radio[j].clip.timeMs /\ radio[j].clip.timeMs <= clock}
<1>1. /\ radio \in Seq(Refs) /\ Len(radio) \in Nat /\ clock \in Nat /\ cursor \in Int
      /\ seenLen \in Nat /\ since.clock \in Int /\ since.len \in Nat
      /\ DOMAIN radio = 1 .. Len(radio)
      /\ \A i \in 1 .. Len(radio) : radio[i].clip.timeMs \in Int
      /\ lane \in {"replay", "live"} /\ fired \in Seq(Refs) /\ since \in [clock : Int, len : Nat]
  BY RefFacts DEF FiredInv, CommsTypeOK
<1>2. CASE isSnapshot \/ looped
  <2>1. fired' = <<>> /\ since' = [clock |-> clock, len |-> Len(radio)]
    BY <1>2 DEF StepEffect
  <2>2. since'.clock = clock /\ since'.len = Len(radio)
    BY <2>1
  <2>3. owed = {}
    BY <1>1, <2>2
  <2>4. fired' \in Seq(Refs) /\ IsInjective(fired') /\ Range(fired') = {}
    BY <2>1 DEF IsInjective, Range
  <2>5. since' \in [clock : Int, len : Nat]
    BY <1>1, <2>1
  <2> HIDE DEF owed
  <2>6. Range(fired') = {radio[i] : i \in owed}
    BY <2>3, <2>4
  <2>7. since'.len <= Len(radio) /\ since'.clock <= clock
        /\ (lane = "replay" => since'.len = Len(radio))
    BY <1>1, <2>2
  <2> QED  BY <2>4, <2>5, <2>6, <2>7 DEF owed
<1>3. CASE ~(isSnapshot \/ looped)
  <2>1. fired' = fired \o Fired /\ since' = since
    BY <1>3 DEF StepEffect
  <2>2. /\ seenSeq = snapshotSeq /\ cursor <= clock
        /\ since.len <= seenLen /\ seenLen <= Len(radio) /\ since.clock <= cursor
        /\ Range(fired) = {radio[i] : i \in Owed(seenLen, cursor)}
        /\ lane = "live" =>
             cursor <= clock /\ \A i \in 1 .. seenLen : radio[i].clip.timeMs <= cursor
        /\ lane = "replay" => since.len = Len(radio)
        /\ IsInjective(fired) /\ IsInjective(radio)
    <3>1. seenSeq = snapshotSeq /\ cursor <= clock
      BY <1>1, <1>3 DEF isSnapshot, looped
    <3>2. CursorInv /\ IsInjective(fired) /\ IsInjective(radio)
      BY DEF FiredInv, RadioInv
    <3> QED  BY <3>1, <3>2, Zenon DEF CursorInv
  <2> DEFINE I == Passed \ Arrivals
             A == Arrivals
             O == Owed(seenLen, cursor)
  <2>3. /\ A = seenLen + 1 .. Len(radio)
        /\ I = {i \in 1 .. seenLen : cursor < radio[i].clip.timeMs /\ radio[i].clip.timeMs <= clock}
    BY <1>1, <1>3, <2>2 DEF Passed, Arrivals
  <2>4. O = {i \in 1 .. seenLen : \/ since.len < i
                                  \/ since.clock < radio[i].clip.timeMs /\ radio[i].clip.timeMs <= cursor}
    BY DEF Owed
  <2>5. Fired = ByTime[I] \o Arrived
    BY DEF Fired
  <2> HIDE DEF I, A, O
  <2>6. I \cap A = {} /\ O \cap A = {} /\ I \cap O = {}
    <3>1. I \cap A = {} /\ O \cap A = {}
      BY <1>1, <2>3, <2>4
    <3>2. ASSUME NEW i \in I, i \in O
          PROVE  FALSE
      <4>1. i \in 1 .. seenLen /\ cursor < radio[i].clip.timeMs /\ radio[i].clip.timeMs \in Int
        BY <1>1, <2>2, <2>3, <3>2
      <4>2. since.len < i
        BY <1>1, <2>4, <3>2, <4>1
      <4>3. lane # "replay"
        BY <1>1, <2>2, <4>1, <4>2
      <4> QED  BY <1>1, <2>2, <4>1, <4>3
    <3> QED  BY <3>1, <3>2
  <2>7. (O \cup I) \cup A = owed
    <3>1. ASSUME NEW j \in 1 .. Len(radio)
          PROVE  j \in (O \cup I) \cup A <=> j \in owed
      <4>1. j \in Int /\ radio[j].clip.timeMs \in Int /\ (j \in A <=> seenLen < j)
        BY <1>1, <2>3
      <4>2. CASE seenLen < j
        BY <1>1, <2>1, <2>2, <4>1, <4>2
      <4>3. CASE j <= seenLen
        <5>1. j \in 1 .. seenLen
          BY <1>1, <4>3
        <5> QED  BY <1>1, <2>1, <2>2, <2>3, <2>4, <4>1, <4>3, <5>1
      <4> QED  BY <1>1, <4>1, <4>2, <4>3
    <3>2. O \cup I \cup A \subseteq 1 .. Len(radio)
      BY <1>1, <2>2, <2>3, <2>4
    <3> QED  BY <3>1, <3>2
  <2>8. A \subseteq DOMAIN radio /\ I \subseteq DOMAIN radio /\ O \subseteq DOMAIN radio
    BY <1>1, <2>2, <2>3, <2>4
  <2>9. \A S, T \in SUBSET DOMAIN radio :
          S \cap T = {} => {radio[i] : i \in S} \cap {radio[i] : i \in T} = {}
    BY <2>2 DEF IsInjective
  <2>10. CommsTypeOK /\ IsInjective(radio)
    BY <2>2 DEF FiredInv
  <2>11. /\ Arrived \in Seq(Refs) /\ IsInjective(Arrived) /\ Range(Arrived) = {radio[i] : i \in A}
    BY <2>10, ArrivedFacts DEF A
  <2>12. ByTime[I] \in Seq(Refs) /\ IsInjective(ByTime[I]) /\ Range(ByTime[I]) = {radio[i] : i \in I}
    BY <2>8, <2>10, ByTimeFacts
  <2> DEFINE passed == ByTime[I]
             both == passed \o Arrived
  <2>13. /\ both \in Seq(Refs) /\ IsInjective(both)
         /\ Range(both) = {radio[i] : i \in I} \cup {radio[i] : i \in A}
    <3> HIDE DEF passed
    <3>1. passed \in Seq(Refs) /\ IsInjective(passed) /\ Range(passed) = {radio[i] : i \in I}
      BY <2>12 DEF passed
    <3>2. Range(passed) \cap Range(Arrived) = {}
      BY <2>6, <2>8, <2>9, <2>11, <3>1
    <3> QED  BY <2>11, <3>1, <3>2, Joined
  <2>14. fired' = fired \o both
    BY <2>1, <2>5
  <2> HIDE DEF both
  <2>15. Range(fired) \cap Range(both) = {}
    <3>1. /\ {radio[i] : i \in O} \cap {radio[i] : i \in I} = {}
          /\ {radio[i] : i \in O} \cap {radio[i] : i \in A} = {}
      BY <2>6, <2>8, <2>9
    <3> QED  BY <2>2, <2>13, <3>1 DEF O
  <2>16. /\ fired' \in Seq(Refs) /\ IsInjective(fired')
         /\ Range(fired') = Range(fired) \cup Range(both)
    BY <1>1, <2>2, <2>13, <2>14, <2>15, Joined
  <2>17. Range(fired') = {radio[i] : i \in (O \cup I) \cup A}
    BY <2>2, <2>13, <2>16 DEF O
  <2> HIDE DEF owed
  <2>18. Range(fired') = {radio[i] : i \in owed}
    BY <2>7, <2>17
  <2>19. /\ since' \in [clock : Int, len : Nat]
         /\ since'.len <= Len(radio) /\ since'.clock <= clock
         /\ lane = "replay" => since'.len = Len(radio)
    BY <1>1, <2>1, <2>2
  <2> QED  BY <2>16, <2>18, <2>19 DEF owed
<1> QED  BY <1>2, <1>3

LEMMA EffectKeeps ==
  ASSUME FiredInv, StepEffect
  PROVE  FiredInv'
<1>1. /\ UNCHANGED <<lane, clock, radio, snapshotSeq, published>>
      /\ cursor' = clock /\ seenSeq' = snapshotSeq /\ seenLen' = Len(radio) /\ dirty' = FALSE
  BY DEF StepEffect, board
<1>2. /\ radio \in Seq(Refs) /\ Len(radio) \in Nat /\ clock \in Nat /\ snapshotSeq \in Int
      /\ DOMAIN radio = 1 .. Len(radio)
      /\ \A i \in 1 .. Len(radio) : radio[i].clip.timeMs \in Int
  BY RefFacts DEF FiredInv, CommsTypeOK
<1>3. /\ fired' \in Seq(Refs) /\ IsInjective(fired')
      /\ since' \in [clock : Int, len : Nat]
      /\ since'.len <= Len(radio) /\ since'.clock <= clock
      /\ lane = "replay" => since'.len = Len(radio)
      /\ Range(fired') =
           {radio[i] : i \in {j \in 1 .. Len(radio) :
              \/ since'.len < j
              \/ since'.clock < radio[j].clip.timeMs /\ radio[j].clip.timeMs <= clock}}
  BY EffectFires
<1>4. CommsTypeOK'
  <2>1. CommsTypeOK
    BY DEF FiredInv
  <2>2. clock \in Int /\ \A n \in Nat : n \in Int
    BY <1>2
  <2>3. cursor' \in Int /\ seenSeq' \in Int /\ seenLen' \in Nat
    BY <1>1, <1>2, <2>2, Zenon
  <2>4. dirty' \in BOOLEAN
    BY <1>1
  <2> QED  BY <1>1, <1>3, <2>1, <2>3, <2>4, Zenon DEF CommsTypeOK
<1>5. RadioInv'
  BY <1>1 DEF FiredInv, RadioInv
<1>6. CursorInv'
  <2>1. Range(fired') = {radio'[i] : i \in Owed(seenLen, cursor)'}
    BY <1>1, <1>3 DEF Owed
  <2>2. lane' = "live" =>
          cursor' <= clock' /\ \A i \in 1 .. seenLen' : radio'[i].clip.timeMs <= cursor'
    BY <1>1, <1>2 DEF FiredInv, RadioInv
  <2>3. /\ since'.len <= seenLen' /\ seenLen' <= Len(radio)' /\ since'.clock <= cursor'
        /\ lane' = "replay" => since'.len = Len(radio)'
    BY <1>1, <1>2, <1>3
  <2> QED  BY <2>1, <2>2, <2>3 DEF CursorInv
<1>7. /\ seenSeq' <= snapshotSeq'
      /\ seenSeq' = snapshotSeq' /\ seenLen' = Len(radio)' /\ cursor' = clock'
  BY <1>1, <1>2
<1> QED  BY <1>3, <1>4, <1>5, <1>6, <1>7 DEF FiredInv

\* What a snapshot brings: the references of a list without a repetition.
LEMMA ObjectsFacts ==
  ASSUME CommsTypeOK, snapshotSeq < MaxSnapshots, NEW q \in Seq(Clips), IsInjective(q)
  PROVE  /\ Objects(q) \in Seq(Refs) /\ IsInjective(Objects(q)) /\ Len(Objects(q)) = Len(q)
         /\ \A i \in 1 .. Len(q) : Objects(q)[i].clip = q[i]
<1>1. snapshotSeq + 1 \in 1 .. MaxSnapshots
  BY CommsAssumption DEF CommsTypeOK
<1>2. Len(q) \in Nat /\ DOMAIN q = 1 .. Len(q) /\ \A i \in 1 .. Len(q) : q[i] \in Clips
  OBVIOUS
<1> DEFINE born == snapshotSeq + 1
           ref(i) == [clip |-> q[i], born |-> born]
<1>3. Objects(q) = [i \in 1 .. Len(q) |-> ref(i)]
  BY <1>2 DEF Objects
<1> HIDE DEF born
<1>4. \A i \in 1 .. Len(q) : ref(i) \in Refs /\ ref(i).clip = q[i]
  BY <1>1, <1>2 DEF Refs, born
<1> HIDE DEF ref
<1>5. Objects(q) \in Seq(Refs) /\ Len(Objects(q)) = Len(q)
      /\ DOMAIN Objects(q) = 1 .. Len(q)
      /\ \A i \in 1 .. Len(q) : Objects(q)[i].clip = q[i]
  BY <1>2, <1>3, <1>4
<1>6. IsInjective(Objects(q))
  BY <1>2, <1>5 DEF IsInjective
<1> QED  BY <1>5, <1>6

LEMMA ClipLists ==
  /\ Recorded \in Seq(Clips) /\ IsInjective(Recorded)
  /\ Transmitted \in Seq(Clips) /\ Len(Transmitted) \in Nat
  /\ \A i, j \in 1 .. Len(Transmitted) : Transmitted[i] = Transmitted[j] => i = j
  /\ \A i \in 1 .. Len(Transmitted) : Transmitted[i] \in Clips
<1>1. Recorded \in Seq(Clips) /\ Transmitted \in Seq(Clips)
  BY CommsAssumption DEF Clips
<1>2. Len(Transmitted) \in Nat /\ DOMAIN Transmitted = 1 .. Len(Transmitted)
      /\ \A i \in 1 .. Len(Transmitted) : Transmitted[i] \in Clips
  BY <1>1
<1> QED  BY <1>1, <1>2, CommsAssumption DEF IsInjective

\* The effect will see a snapshot for what it is, and start again.
LEMMA SnapshotKeeps ==
  ASSUME FiredInv, NEW l \in {"replay", "live"}, NEW t \in 0 .. MaxClock, SnapshotArrives(l, t)
  PROVE  FiredInv'
<1>1. /\ snapshotSeq < MaxSnapshots /\ snapshotSeq' = snapshotSeq + 1 /\ dirty' = TRUE
      /\ lane' = l /\ clock' = t /\ published' \in published .. Len(Transmitted)
      /\ l = "live" => \A i \in 1 .. published' : Transmitted[i].timeMs <= t
      /\ radio' = Objects(IF l = "replay" THEN Recorded ELSE SubSeq(Transmitted, 1, published'))
      /\ UNCHANGED <<fired, cursor, seenSeq, seenLen, since>>
  BY DEF SnapshotArrives, seen
<1>2. /\ published' \in 0 .. Len(Transmitted) /\ published' \in Nat
      /\ snapshotSeq' \in 0 .. MaxSnapshots /\ t \in Nat
      /\ seenSeq' <= snapshotSeq' /\ seenSeq' # snapshotSeq'
  BY <1>1, CommsAssumption, ClipLists DEF FiredInv, CommsTypeOK
<1> DEFINE q == IF l = "replay" THEN Recorded ELSE SubSeq(Transmitted, 1, published')
<1>3. q \in Seq(Clips) /\ IsInjective(q)
  <2>1. CASE l = "replay"
    BY <2>1, ClipLists
  <2>2. CASE l = "live"
    <3> DEFINE n == published'
    <3>1. q = SubSeq(Transmitted, 1, n) /\ n \in 0 .. Len(Transmitted)
      BY <1>2, <2>2
    <3> HIDE DEF n, q
    <3>2. /\ q \in Seq(Clips) /\ DOMAIN q = 1 .. n
          /\ \A i \in 1 .. n : q[i] = Transmitted[i] /\ i \in 1 .. Len(Transmitted)
      BY <3>1, ClipLists
    <3> QED  BY <3>2, ClipLists DEF IsInjective
  <2> QED  BY <2>1, <2>2
<1>4. l = "live" => Len(q) = published' /\ \A i \in 1 .. published' : q[i] = Transmitted[i]
  <2> DEFINE n == published'
  <2>1. n \in 0 .. Len(Transmitted)
    BY <1>2
  <2> HIDE DEF n
  <2>2. LET s == SubSeq(Transmitted, 1, n)
        IN  Len(s) = n /\ \A i \in 1 .. n : s[i] = Transmitted[i]
    BY <2>1, ClipLists
  <2> QED  BY <2>2 DEF n
<1>5. radio' = Objects(q)
  BY <1>1
<1> HIDE DEF q
<1>6. /\ radio' \in Seq(Refs) /\ IsInjective(radio') /\ Len(radio') = Len(q)
      /\ \A i \in 1 .. Len(q) : radio'[i].clip = q[i]
  BY <1>1, <1>3, <1>5, ObjectsFacts DEF FiredInv
<1>7. CommsTypeOK'
  BY <1>1, <1>2, <1>6 DEF FiredInv, CommsTypeOK
<1>8. RadioInv'
  BY <1>1, <1>4, <1>6 DEF RadioInv
<1> QED  BY <1>1, <1>2, <1>7, <1>8 DEF FiredInv, CursorInv

\* A frame's clip goes to the end, where it is not yet seen.
LEMMA FrameKeeps ==
  ASSUME FiredInv, FrameArrives
  PROVE  FiredInv'
<1>1. /\ snapshotSeq > 0 /\ clock' = clock + 1 /\ dirty' = TRUE
      /\ UNCHANGED <<lane, snapshotSeq, fired, cursor, seenSeq, seenLen, since>>
  BY DEF FrameArrives, seen
<1>2. /\ radio \in Seq(Refs) /\ Len(radio) \in Nat /\ clock \in Nat /\ cursor \in Int
      /\ seenLen \in Nat /\ DOMAIN radio = 1 .. Len(radio)
      /\ published \in 0 .. Len(Transmitted) /\ snapshotSeq \in 1 .. MaxSnapshots
      /\ Len(Transmitted) \in Nat
      /\ \A i \in 1 .. Len(radio) : radio[i].clip.timeMs \in Int
      /\ \A i \in 1 .. Len(Transmitted) : Transmitted[i].timeMs \in Int
  <2>1. \A c \in Clips : c.timeMs \in Int
    BY CommsAssumption
  <2> QED  BY <1>1, <2>1, RefFacts, ClipLists, CommsAssumption DEF FiredInv, CommsTypeOK
<1>3. CASE UNCHANGED <<radio, published>>
  <2>1. CommsTypeOK'
    <3>1. CommsTypeOK
      BY DEF FiredInv
    <3>2. clock' \in Nat /\ dirty' \in BOOLEAN
      BY <1>1, <1>2
    <3> QED  BY <1>1, <1>3, <3>1, <3>2, Zenon DEF CommsTypeOK
  <2>2. RadioInv'
    <3>1. \A i \in 1 .. published : Transmitted[i].timeMs <= clock => Transmitted[i].timeMs <= clock'
      BY <1>1, <1>2
    <3> QED  BY <1>1, <1>3, <3>1 DEF FiredInv, RadioInv
  <2>3. CursorInv'
    <3>1. Owed(seenLen, cursor)' = Owed(seenLen, cursor)
      BY <1>1, <1>3 DEF Owed
    <3>2. cursor <= clock => cursor' <= clock'
      BY <1>1, <1>2
    <3> QED  BY <1>1, <1>3, <3>1, <3>2 DEF FiredInv, CursorInv
  <2> QED  BY <1>1, <2>1, <2>2, <2>3 DEF FiredInv
<1>4. CASE /\ lane = "live" /\ published < Len(Transmitted)
           /\ Transmitted[published + 1].timeMs <= clock'
           /\ published' = published + 1
           /\ radio' = Append(radio, [clip |-> Transmitted[published'], born |-> snapshotSeq])
  <2> DEFINE clip == Transmitted[published + 1]
             ref == [clip |-> clip, born |-> snapshotSeq]
             n == Len(radio)
  <2>1. clip \in Clips /\ published + 1 \in 1 .. Len(Transmitted)
    BY <1>2, <1>4, ClipLists
  <2>2. /\ Len(radio) = published
        /\ \A i \in 1 .. published :
             radio[i].clip = Transmitted[i] /\ Transmitted[i].timeMs <= clock
        /\ IsInjective(radio)
    BY <1>4 DEF FiredInv, RadioInv
  <2>3. ref \in Refs /\ ref.clip = clip
    BY <1>2, <2>1 DEF Refs
  <2>4. radio' = Append(radio, ref)
    BY <1>4
  <2> HIDE DEF clip, ref
  <2>5. /\ radio' \in Seq(Refs) /\ Len(radio') = n + 1 /\ DOMAIN radio' = 1 .. n + 1
        /\ radio'[n + 1] = ref /\ \A i \in 1 .. n : radio'[i] = radio[i]
    BY <1>2, <2>3, <2>4
  <2> DEFINE now == radio'
  <2>6. /\ now \in Seq(Refs) /\ Len(now) = n + 1 /\ DOMAIN now = 1 .. n + 1
        /\ now[n + 1] = ref /\ \A i \in 1 .. n : now[i] = radio[i]
    BY <2>5
  <2>7. CommsTypeOK'
    <3>1. CommsTypeOK
      BY DEF FiredInv
    <3>2. clock' \in Nat /\ dirty' \in BOOLEAN /\ published' \in 0 .. Len(Transmitted)
      BY <1>1, <1>2, <1>4
    <3> QED  BY <1>1, <2>5, <3>1, <3>2, Zenon DEF CommsTypeOK
  <2> HIDE DEF now
  <2>8. \A i \in 1 .. n + 1 : now[i].clip = Transmitted[i] /\ Transmitted[i].timeMs <= clock'
    <3> SUFFICES ASSUME NEW i \in 1 .. n + 1
                 PROVE  now[i].clip = Transmitted[i] /\ Transmitted[i].timeMs <= clock'
      OBVIOUS
    <3>1. CASE i = n + 1
      BY <1>4, <2>2, <2>3, <2>6, <3>1 DEF clip
    <3>2. CASE i \in 1 .. n
      <4>1. Transmitted[i].timeMs <= clock /\ Transmitted[i].timeMs \in Int
        BY <1>2, <2>2, <3>2
      <4> QED  BY <1>1, <1>2, <2>2, <2>6, <3>2, <4>1
    <3> QED  BY <1>2, <3>1, <3>2
  <2>9. IsInjective(now)
    <3> SUFFICES ASSUME NEW i \in 1 .. n + 1, NEW j \in 1 .. n + 1, now[i] = now[j]
                 PROVE  i = j
      BY <2>6 DEF IsInjective
    <3>1. Transmitted[i] = Transmitted[j]
      BY <2>8
    <3>2. i \in 1 .. Len(Transmitted) /\ j \in 1 .. Len(Transmitted)
      BY <1>2, <2>1, <2>2
    <3> QED  BY <3>1, <3>2, ClipLists
  <2>10. RadioInv'
    BY <1>1, <1>4, <2>2, <2>6, <2>8, <2>9 DEF RadioInv, now
  <2>11. CursorInv'
    <3> SUFFICES ASSUME seenSeq = snapshotSeq
                 PROVE  CursorInv'
      BY <1>1 DEF CursorInv
    <3>1. /\ since.len <= seenLen /\ seenLen <= n /\ since.clock <= cursor
          /\ Range(fired) = {radio[i] : i \in Owed(seenLen, cursor)}
          /\ cursor <= clock /\ \A i \in 1 .. seenLen : radio[i].clip.timeMs <= cursor
      BY <1>4 DEF FiredInv, CursorInv
    <3>2. \A i \in 1 .. seenLen : i \in 1 .. n /\ now[i] = radio[i]
      BY <1>2, <2>6, <3>1
    <3>3. Owed(seenLen, cursor)' = Owed(seenLen, cursor)
          /\ Owed(seenLen, cursor) \subseteq 1 .. seenLen
      BY <1>1, <3>2 DEF Owed, now
    <3>4. Range(fired) = {now[i] : i \in Owed(seenLen, cursor)}
      BY <3>1, <3>2, <3>3
    <3>5. seenLen <= n + 1 /\ cursor <= clock'
      BY <1>1, <1>2, <3>1
    <3>6. lane' = "live" /\ Len(radio)' = n + 1
      BY <1>1, <1>4, <2>5
    <3> QED  BY <1>1, <3>1, <3>2, <3>3, <3>4, <3>5, <3>6 DEF CursorInv, now
  <2> QED  BY <1>1, <2>7, <2>9, <2>10, <2>11 DEF FiredInv
<1> QED  BY <1>3, <1>4 DEF FrameArrives

\* Every clip fires once: those the clock passed and those that arrived, however many
\* messages a render has behind it (useComms.ts and stepComms of state/comms.ts).
THEOREM Fires == CommsSpec => []FiredExactlyOnce
<1>1. CommsInit => FiredInv
  <2> SUFFICES ASSUME CommsInit
               PROVE  FiredInv
    OBVIOUS
  <2>1. <<>> \in Seq(Refs) /\ IsInjective(<<>>) /\ Len(<<>>) = 0
    BY DEF IsInjective
  <2>2. 0 \in 0 .. MaxSnapshots /\ 0 \in 0 .. Len(Transmitted)
    BY CommsAssumption, ClipLists
  <2>3. CommsTypeOK
    <3>1. /\ 0 \in Nat /\ FALSE \in BOOLEAN /\ -1 \in Int
          /\ [clock |-> -1, len |-> 0] \in [clock : Int, len : Nat]
      OBVIOUS
    <3> QED  BY <2>1, <2>2, <3>1 DEF CommsInit, CommsTypeOK
  <2> QED  BY <2>1, <2>3 DEF CommsInit, FiredInv, RadioInv, CursorInv
<1>2. FiredInv /\ [CommsNext]_commsVars => FiredInv'
  <2> SUFFICES ASSUME FiredInv, [CommsNext]_commsVars
               PROVE  FiredInv'
    OBVIOUS
  <2>1. ASSUME NEW t \in 0 .. MaxClock, Seek(t)
        PROVE  FiredInv'
    <3>1. /\ lane = "replay" /\ clock' = t /\ dirty' = TRUE
          /\ UNCHANGED <<lane, radio, snapshotSeq, published, fired, cursor, seenSeq, seenLen, since>>
      BY <2>1 DEF Seek, seen
    <3>2. CommsTypeOK' /\ RadioInv'
      BY <3>1, CommsAssumption DEF FiredInv, CommsTypeOK, RadioInv
    <3>3. CursorInv'
      <4>1. Owed(seenLen, cursor)' = Owed(seenLen, cursor)
        BY <3>1 DEF Owed
      <4> QED  BY <3>1, <4>1 DEF FiredInv, CursorInv
    <3> QED  BY <3>1, <3>2, <3>3 DEF FiredInv
  <2>2. ASSUME UNCHANGED <<board, dirty, seen>>
        PROVE  FiredInv'
    <3>1. Owed(seenLen, cursor)' = Owed(seenLen, cursor)
      BY <2>2 DEF Owed, board, seen
    <3> QED  BY <2>2, <3>1 DEF FiredInv, CommsTypeOK, RadioInv, CursorInv, board, seen
  <2>3. Starts \/ Refused \/ LateRejection \/ Breaks \/ Ended \/ Toggle \/ (\E m : Replay(m))
          => UNCHANGED <<board, dirty, seen>>
    BY DEF Starts, Refused, LateRejection, Breaks, Ended, Toggle, Replay
  <2>4. UNCHANGED commsVars => UNCHANGED <<board, dirty, seen>>
    BY DEF commsVars
  <2> QED
    BY <2>1, <2>2, <2>3, <2>4, EffectKeeps, SnapshotKeeps, FrameKeeps DEF CommsNext
<1>3. FiredInv => FiredExactlyOnce
  <2> SUFFICES ASSUME FiredInv, ~dirty
               PROVE  Range(fired) =
                        {radio[i] : i \in since.len + 1 .. Len(radio)} \cup
                        {m \in Range(radio) : since.clock < m.clip.timeMs /\ m.clip.timeMs <= clock}
    BY DEF FiredInv, FiredExactlyOnce
  <2>1. /\ Len(radio) \in Nat /\ since.len \in Nat /\ DOMAIN radio = 1 .. Len(radio)
    BY RefFacts DEF FiredInv, CommsTypeOK
  <2>2. CASE radio = <<>> /\ fired = <<>>
    BY <2>1, <2>2 DEF Range
  <2>3. CASE seenSeq = snapshotSeq /\ seenLen = Len(radio) /\ cursor = clock
    <3>1. Range(fired) = {radio[i] : i \in Owed(Len(radio), clock)}
      BY <2>3 DEF FiredInv, CursorInv
    <3>2. \A i \in since.len + 1 .. Len(radio) : i \in Owed(Len(radio), clock)
      BY <2>1 DEF Owed
    <3>3. \A i \in Owed(Len(radio), clock) :
             \/ i \in since.len + 1 .. Len(radio)
             \/ i \in DOMAIN radio /\ since.clock < radio[i].clip.timeMs /\ radio[i].clip.timeMs <= clock
      BY <2>1 DEF Owed
    <3>4. \A i \in DOMAIN radio :
             since.clock < radio[i].clip.timeMs /\ radio[i].clip.timeMs <= clock
               => i \in Owed(Len(radio), clock)
      BY <2>1 DEF Owed
    <3> QED  BY <3>1, <3>2, <3>3, <3>4, Zenon DEF Range
  <2> QED  BY <2>2, <2>3 DEF FiredInv
<1> QED  BY <1>1, <1>2, <1>3, PTL DEF CommsSpec

USE CatalogueAssumption, CodesAssumption, TraceAssumption, BoardCodesAssumption

-----------------------------------------------------------------------------
(* The selection *)

\* On a board that has been seeded, a hash that names no other car leaves it alone.
LEMMA SeededKeeps ==
  ASSUME leaderSeeded, NEW h, NEW cs, NEW sel, parseHash(h).car = parseHash(hash).car
  PROVE  FromUrl(h, cs, Seed(h, cs, sel)) = sel
  BY DEF Seed, FromUrl

\* After the seed, frames, Escape and the overlay never choose a car: only a click
\* and a link do (App.tsx).
THEOREM Selection == Spec => SelectionStands
<1> DEFINE Stands == leaderSeeded /\ selected' \notin {Nil, selected} =>
             (\E d \in DOMAIN cars : Select(d)) \/ (\E h \in Hashes : Navigate(h))
<1>1. [Next]_vars => Stands
  <2> SUFFICES ASSUME [Next]_vars, leaderSeeded, selected' \notin {Nil, selected}
               PROVE  (\E d \in DOMAIN cars : Select(d)) \/ (\E h \in Hashes : Navigate(h))
    OBVIOUS
  <2>1. ASSUME NEW cs \in BoardCars, Board(cs)
        PROVE  FALSE
    BY <2>1, SeededKeeps DEF Board, Render
  <2>2. ASSUME NEW d, Select(d)
        PROVE  \E e \in DOMAIN cars : Select(e)
    BY <2>2 DEF Select
  <2>3. CASE Escape
    BY <2>3, SeededKeeps DEF Escape, Render
  <2>4. CASE GhostStep
    BY <2>4 DEF GhostStep, boardVars
  <2>5. CASE UNCHANGED vars
    BY <2>5 DEF vars, boardVars
  <2> QED
    BY <2>1, <2>2, <2>3, <2>4, <2>5 DEF Next
<1>2. [Next]_vars => [Stands]_vars
  BY <1>1
<1> QED  BY <1>2, PTL DEF Spec, SelectionStands

-----------------------------------------------------------------------------
(* The URL *)

\* The seed comes with the first cars; they are a board's; and the overlay is on
\* screen on its own route only.
RouteInv ==
  /\ ~leaderSeeded => cars = <<>>
  /\ cars \in BoardCars \cup {<<>>}
  /\ route # "ghost" => sideA = Nil

\* Whatever App renders, the cars and the seed keep to RouteInv.
LEMMA RenderKeeps ==
  ASSUME RouteInv, NEW loc, NEW h, NEW cs \in BoardCars \cup {<<>>}, NEW sel,
         Render(loc, h, cs, sel), route' # "ghost" => sideA' = Nil
  PROVE  RouteInv'
  BY DEF RouteInv, Render

LEMMA GhostKeeps ==
  ASSUME RouteInv, GhostStep
  PROVE  route = "ghost" /\ Shown
<1>1. Shown
  BY DEF GhostStep, LaneLoads, PickSession, PickCar, SameDriverTwoYears,
         TwoDriversOneRace, TogglePaused, TimePasses, ScrubTo
<1> QED  BY <1>1 DEF Shown, RouteInv

LEMMA RouteHolds == Spec => []RouteInv
<1>1. Init => RouteInv
  BY DEF Init, RouteInv
<1>2. RouteInv /\ [Next]_vars => RouteInv'
  <2> SUFFICES ASSUME RouteInv, [Next]_vars
               PROVE  RouteInv'
    OBVIOUS
  <2>1. ASSUME NEW cs \in BoardCars, Board(cs)
        PROVE  RouteInv'
    <3>1. Render(location, hash, cs, selected) /\ sideA' = sideA /\ hash' = hash
      BY <2>1 DEF Board, Render, ghostVars
    <3> QED  BY <3>1, RenderKeeps DEF RouteInv, route
  <2>2. ASSUME NEW d, Select(d) \/ Escape
        PROVE  RouteInv'
    <3>1. PICK sel : Render(location, hash, cars, sel)
      BY <2>2 DEF Select, Escape
    <3>2. sideA' = sideA /\ hash' = hash
      BY <2>2 DEF Select, Escape, Render, ghostVars
    <3> QED  BY <3>1, <3>2, RenderKeeps DEF RouteInv, route
  <2>3. ASSUME NEW h \in Hashes, Navigate(h)
        PROVE  RouteInv'
    <3>1. CASE h = hash
      BY <2>3, <3>1 DEF Navigate, RouteInv, route, boardVars, ghostVars
    <3>2. CASE h # hash
      <4>1. Render(h, h, cars, selected) /\ hash' = h
        BY <2>3, <3>2 DEF Navigate, Render
      <4>2. parseHash(h).route # "ghost" => sideA' = Nil
        BY <2>3, <3>2 DEF Navigate, Unmounted
      <4> QED  BY <4>1, <4>2, RenderKeeps DEF RouteInv, route
    <3> QED  BY <3>1, <3>2
  <2>4. CASE GhostStep
    BY <2>4, GhostKeeps DEF GhostStep, RouteInv, route, boardVars
  <2>5. CASE UNCHANGED vars
    BY <2>5 DEF vars, RouteInv, route, boardVars, ghostVars
  <2> QED
    BY <2>1, <2>2, <2>3, <2>4, <2>5 DEF Next
<1> QED  BY <1>1, <1>2, PTL DEF Spec

\* Who follows a link to a car that the board has sees it selected (App.tsx).
THEOREM Links == Spec => LinkMoves
<1> DEFINE Seeded == ~leaderSeeded /\ leaderSeeded' /\ linked(parseHash(hash).car, cars') # Nil =>
                       selected' = linked(parseHash(hash).car, cars')
           Followed == /\ parseHash(hash').car # parseHash(hash).car
                       /\ linked(parseHash(hash').car, cars') # Nil
                       => selected' = linked(parseHash(hash').car, cars')
<1>1. RouteInv /\ [Next]_vars => Seeded
  <2> SUFFICES ASSUME RouteInv, [Next]_vars, ~leaderSeeded, leaderSeeded',
                      linked(parseHash(hash).car, cars') # Nil
               PROVE  selected' = linked(parseHash(hash).car, cars')
    OBVIOUS
  <2>1. ASSUME NEW loc, NEW h, NEW sel, Render(loc, h, cars, sel)
        PROVE  FALSE
    BY <2>1 DEF Render, RouteInv
  <2>2. ASSUME NEW d, Select(d)
        PROVE  FALSE
    BY <2>1, <2>2 DEF Select
  <2>3. ASSUME NEW h, Navigate(h)
        PROVE  FALSE
    BY <2>1, <2>3 DEF Navigate, boardVars
  <2>4. ~Escape
    BY <2>1 DEF Escape
  <2>5. ~GhostStep /\ ~UNCHANGED vars
    BY DEF GhostStep, vars, boardVars
  <2>6. PICK cs \in BoardCars : Board(cs)
    BY <2>2, <2>3, <2>4, <2>5 DEF Next
  <2> QED  BY <2>6 DEF Board, Render, Seed, FromUrl
<1>2. [Next]_vars => Followed
  <2> SUFFICES ASSUME [Next]_vars, parseHash(hash').car # parseHash(hash).car,
                      linked(parseHash(hash').car, cars') # Nil
               PROVE  selected' = linked(parseHash(hash').car, cars')
    OBVIOUS
  <2>1. PICK h \in Hashes : Navigate(h) /\ h # hash
    BY DEF Next, Board, Select, Escape, Navigate, GhostStep, Render, vars
  <2> QED  BY <2>1 DEF Navigate, Render, FromUrl
<1>3. RouteInv /\ [Next]_vars => [Seeded /\ Followed]_vars
  BY <1>1, <1>2
<1> QED  BY <1>3, RouteHolds, PTL DEF Spec, LinkMoves

\* A bare board hash, or one with a car, survives parsing: what is read back is
\* what was written.
LEMMA BoardHashFacts ==
  ASSUME NEW c \in WellFormed \cup {Nil}
  PROVE  LET h == buildHash("board", c, Nil, Nil)
         IN  Rebuilt(h) = h
<1> DEFINE h == buildHash("board", c, Nil, Nil)
<1>1. parseCode(c) = c
  BY DEF parseCode
<1>2. PICK n \in {"", "board"} : h = [name |-> n, car |-> c, a |-> Nil, b |-> Nil]
  <2>1. CASE c = Nil
    BY <2>1 DEF buildHash
  <2>2. CASE c # Nil
    BY <2>2 DEF buildHash
  <2> QED  BY <2>1, <2>2
<1> HIDE DEF h
<1>3. h.name = n /\ h.car = c /\ h.a = Nil /\ h.b = Nil
  BY <1>2
<1>6. /\ parseHash(h).route = "board" /\ parseHash(h).car = c
      /\ parseHash(h).a = Nil /\ parseHash(h).b = Nil
  BY <1>1, <1>3 DEF parseHash, parseSide, ROUTES
<1>7. Rebuilt(h) = buildHash("board", c, Nil, Nil)
  BY <1>6 DEF Rebuilt
<1> QED  BY <1>7 DEF h

LEMMA BoardLinkFacts ==
  ASSUME NEW cs \in BoardCars \cup {<<>>}, NEW sel
  PROVE  Rebuilt(BoardLink(sel, cs)) = BoardLink(sel, cs)
<1>1. selectedCode(sel, cs) \in WellFormed \cup {Nil}
  BY DEF selectedCode
<1> QED  BY <1>1, BoardHashFacts DEF BoardLink

\* A render with a new hash, or with the hash that was read last.
LEMMA RenderNames ==
  ASSUME NEW loc, NEW h, NEW cs \in BoardCars \cup {<<>>}, NEW sel, Render(loc, h, cs, sel),
         loc = h \/ (loc = location /\ h = hash /\ UrlNamesSelection)
  PROVE  UrlNamesSelection'
<1> DEFINE now == FromUrl(h, cs, Seed(h, cs, sel))
<1>1. /\ hash' = h /\ cars' = cs /\ selected' = now
      /\ leaderSeeded' = (leaderSeeded \/ cs # <<>>)
      /\ location' = Written(loc, h, cs, now)
  BY DEF Render
<1> SUFFICES ASSUME route' = "board"
             PROVE  IF leaderSeeded'
                    THEN Rebuilt(location') = BoardLink(now, cs) \/ location' = h
                    ELSE location' = h
  BY <1>1 DEF UrlNamesSelection
<1>2. parseHash(h).route = "board"
  BY <1>1 DEF route
<1>3. CASE location' = BoardLink(now, cs) /\ leaderSeeded'
  BY <1>3, BoardLinkFacts
<1>4. CASE loc = h /\ location' = loc
  BY <1>4
<1>5. CASE loc = location /\ h = hash /\ UrlNamesSelection /\ location' = loc
  <2>1. CASE ~leaderSeeded'
    BY <1>1, <1>2, <1>5, <2>1 DEF UrlNamesSelection, route
  <2>2. CASE leaderSeeded' /\ Rebuilt(loc) = BoardLink(now, cs)
    BY <1>5, <2>2
  <2>3. CASE leaderSeeded' /\ Rebuilt(loc) # BoardLink(now, cs)
    <3>1. \/ location' = BoardLink(now, cs)
          \/ leaderSeeded /\ selectedCode(now, cs) = selectedCode(selected, cars)
      BY <1>1, <1>2, <2>3 DEF Written
    <3>2. CASE leaderSeeded /\ selectedCode(now, cs) = selectedCode(selected, cars)
      <4>1. Rebuilt(location) = BoardLink(selected, cars) \/ location = hash
        BY <1>2, <1>5, <3>2 DEF UrlNamesSelection, route
      <4>2. BoardLink(now, cs) = BoardLink(selected, cars)
        BY <3>2 DEF BoardLink
      <4> QED  BY <1>5, <2>3, <4>1, <4>2
    <3> QED  BY <2>3, <3>1, <3>2, BoardLinkFacts
  <2> QED  BY <2>1, <2>2, <2>3
<1>6. location' = loc \/ (location' = BoardLink(now, cs) /\ leaderSeeded')
  BY <1>1 DEF Written
<1> QED  BY <1>3, <1>4, <1>5, <1>6

\* The board's URL is written after every change of the reference car, and not
\* before the link that opened the page has been followed (App.tsx).
THEOREM Url == Spec => []UrlNamesSelection
<1>1. Init => UrlNamesSelection
  BY DEF Init, UrlNamesSelection
<1>2. RouteInv /\ UrlNamesSelection /\ [Next]_vars => UrlNamesSelection'
  <2> SUFFICES ASSUME RouteInv, UrlNamesSelection, [Next]_vars
               PROVE  UrlNamesSelection'
    OBVIOUS
  <2>1. ASSUME NEW cs \in BoardCars, Board(cs)
        PROVE  UrlNamesSelection'
    BY <2>1, RenderNames DEF Board
  <2>2. ASSUME NEW d, Select(d) \/ Escape
        PROVE  UrlNamesSelection'
    <3>1. PICK sel : Render(location, hash, cars, sel)
      BY <2>2 DEF Select, Escape
    <3> QED  BY <3>1, RenderNames DEF RouteInv
  <2>3. ASSUME NEW h \in Hashes, Navigate(h)
        PROVE  UrlNamesSelection'
    <3>1. CASE h = hash
      BY <2>3, <3>1 DEF Navigate, UrlNamesSelection, route, boardVars
    <3>2. CASE h # hash
      BY <2>3, <3>2, RenderNames DEF Navigate, RouteInv
    <3> QED  BY <3>1, <3>2
  <2>4. CASE GhostStep
    <3>1. route' # "board"
      BY <2>4, GhostKeeps DEF GhostStep, route
    <3> QED  BY <3>1 DEF UrlNamesSelection
  <2>5. CASE UNCHANGED vars
    BY <2>5 DEF vars, UrlNamesSelection, route, boardVars
  <2> QED
    BY <2>1, <2>2, <2>3, <2>4, <2>5 DEF Next
<1> QED  BY <1>1, <1>2, RouteHolds, PTL DEF Spec
-----------------------------------------------------------------------------
(* The shared pair *)

\* A set of naturals that has an element has a least one: of the intervals up to
\* its elements, which are finite sets, one includes no other.
LEMMA LeastIn ==
  ASSUME NEW S \in SUBSET Nat, S # {}
  PROVE  Min(S) \in S /\ \A n \in S : Min(S) <= n
<1> DEFINE T == {0 .. n : n \in S}
<1>1. IsWellFoundedOn(StrictSubsetOrdering(Nat), FiniteSubsetsOf(Nat))
  BY FS_StrictSubsetOrderingWellFounded
<1>2. T \subseteq FiniteSubsetsOf(Nat) /\ T # {}
  <2>1. \A n \in S : 0 .. n \in SUBSET Nat /\ IsFiniteSet(0 .. n)
    <3>1. \A n \in S : n \in Int /\ 0 .. n \in SUBSET Nat
      OBVIOUS
    <3>2. \A i, j \in Int : IsFiniteSet(i .. j)
      BY FS_Interval
    <3>3. 0 \in Int
      OBVIOUS
    <3> QED  BY <3>1, <3>2, <3>3, Zenon
  <2>2. \A u \in T : u \in FiniteSubsetsOf(Nat)
    <3>1. \A n \in S : 0 .. n \in FiniteSubsetsOf(Nat)
      BY <2>1 DEF FiniteSubsetsOf
    <3> QED  BY <3>1
  <2>3. T # {}
    <3>1. PICK n \in S : TRUE
      OBVIOUS
    <3>2. 0 .. n \in T
      OBVIOUS
    <3> QED  BY <3>2
  <2> QED  BY <2>2, <2>3
<1>3. PICK t \in T : \A u \in T : <<u, t>> \notin StrictSubsetOrdering(Nat)
  <2> HIDE DEF T
  <2> QED  BY <1>1, <1>2, WFMin
<1>4. PICK m \in S : t = 0 .. m
  OBVIOUS
<1>5. \A n \in S : m <= n
  <2> SUFFICES ASSUME NEW n \in S, n < m
               PROVE  FALSE
    OBVIOUS
  <2>1. 0 .. n \subseteq 0 .. m /\ 0 .. n # 0 .. m
    <3>1. m \in 0 .. m /\ m \notin 0 .. n
      OBVIOUS
    <3> QED  BY <3>1
  <2>2. <<0 .. n, 0 .. m>> \in StrictSubsetOrdering(Nat)
    <3>1. 0 .. n \in SUBSET Nat /\ 0 .. m \in SUBSET Nat
      OBVIOUS
    <3> QED  BY <2>1, <3>1 DEF StrictSubsetOrdering
  <2>3. 0 .. n \in T
    OBVIOUS
  <2> QED  BY <1>3, <1>4, <2>2, <2>3
<1> QED  BY <1>5 DEF Min

LEMMA CatalogueFacts ==
  /\ DEFAULT_SESSION \in Range(SESSIONS)
  /\ \A s \in Range(SESSIONS) : Other(s) \in Range(SESSIONS)
<1>1. /\ SESSIONS \in Seq(Range(SESSIONS)) /\ 1 \in DOMAIN SESSIONS
      /\ DOMAIN SESSIONS = 1 .. Len(SESSIONS) /\ Len(SESSIONS) \in Nat
  OBVIOUS
<1>2. DEFAULT_SESSION \in Range(SESSIONS)
  BY <1>1 DEF DEFAULT_SESSION, Range
<1>3. ASSUME NEW s \in Range(SESSIONS)
      PROVE  Other(s) \in Range(SESSIONS)
  <2> DEFINE I == {i \in DOMAIN SESSIONS : SESSIONS[i] # s}
  <2>1. CASE I = {}
    <3>1. \A q \in Range(SESSIONS) : q = s
      BY <2>1 DEF Range
    <3> QED  BY <3>1 DEF Other
  <2>2. CASE I # {}
    <3>1. I \subseteq Nat
      BY <1>1
    <3>2. Min(I) \in I /\ \A i \in I : Min(I) <= i
      <4> HIDE DEF I
      <4> QED  BY <2>2, <3>1, LeastIn
    <3>3. \E i \in DOMAIN SESSIONS : SESSIONS[i] # s /\ \A j \in 1 .. i - 1 : SESSIONS[j] = s
      <4>1. Min(I) \in DOMAIN SESSIONS /\ SESSIONS[Min(I)] # s
        BY <3>2
      <4>2. ASSUME NEW j \in 1 .. Min(I) - 1
            PROVE  SESSIONS[j] = s
        <5>1. Min(I) \in 1 .. Len(SESSIONS)
          BY <1>1, <4>1
        <5>2. j \in DOMAIN SESSIONS /\ ~(Min(I) <= j)
          BY <1>1, <5>1
        <5>3. j \notin I
          BY <3>2, <5>2
        <5> QED  BY <5>2, <5>3
      <4> QED  BY <4>1, <4>2
    <3>4. \E q \in Range(SESSIONS) : q # s
      BY <3>3 DEF Range
    <3>5. PICK k \in DOMAIN SESSIONS : Other(s) = SESSIONS[k]
      BY <3>3, <3>4 DEF Other
    <3> QED  BY <3>5 DEF Range
  <2> QED  BY <2>1, <2>2
<1> QED  BY <1>2, <1>3

\* The overlay's sides are of the catalogue, and their drivers' codes well formed.
SidesInv == Shown => sideA \in Sides /\ sideB \in Sides

LEMMA OpensFacts ==
  ASSUME NEW h, NEW fallback \in Range(SESSIONS)
  PROVE  /\ Opens(parseHash(h).a, fallback) \in Sides
         /\ Opens(parseHash(h).b, fallback) \in Sides
<1>1. \A c : parseCode(c) \in WellFormed \cup {Nil}
  BY DEF parseCode
<1>2. \A v : parseSide(v) = Nil \/ parseSide(v) = [session |-> v.session, car |-> parseCode(v.car)]
  BY DEF parseSide
<1>3. \A v : Opens(parseSide(v), fallback) \in Sides
  BY <1>1, <1>2 DEF Opens, Sides
<1> QED  BY <1>3 DEF parseHash

LEMMA MountFacts ==
  ASSUME NEW h
  PROVE  OpensA(parseHash(h)) \in Sides /\ OpensB(parseHash(h)) \in Sides
BY OpensFacts, CatalogueFacts DEF OpensA, OpensB

\* A driver on screen has a lap in its side's session.
LEMMA FirstIn ==
  ASSUME NEW S \in SUBSET Nat
  PROVE  First(S) = Nil \/ First(S) \in S
BY LeastIn DEF First

LEMMA FoundIn ==
  ASSUME NEW codes, NEW S \in SUBSET Nat, NEW code
  PROVE  findByCode(codes, S, code) = Nil \/ findByCode(codes, S, code) \in S
<1> DEFINE named == {n \in S : Upper[codes[n]] = Upper[code]}
<1>1. named # {} => Min(named) \in named
  <2>1. named \in SUBSET Nat
    OBVIOUS
  <2> HIDE DEF named
  <2> QED  BY <2>1, LeastIn
<1> QED  BY <1>1 DEF findByCode

\* The driver of a code, looked up in a session that has a lap of that driver's.
LEMMA FoundByItsCode ==
  ASSUME NEW s \in Range(SESSIONS), NEW n \in DOMAIN Trace[s]
  PROVE  findByCode(Code[s], DOMAIN Trace[s], Code[s][n]) = n
<1> DEFINE named == {m \in DOMAIN Trace[s] : Upper[Code[s][m]] = Upper[Code[s][n]]}
<1>1. Code[s][n] # Nil
  OBVIOUS
<1>2. named = {n}
  OBVIOUS
<1>3. Min(named) = n
  <2>1. named \in SUBSET Nat /\ named # {}
    BY <1>2
  <2> QED  BY <1>2, <2>1, LeastIn
<1> QED  BY <1>1, <1>2, <1>3 DEF findByCode

LEMMA NumAIn ==
  ASSUME NEW a \in Sides, NEW ls
  PROVE  numA(a, ls) = Nil \/ (ls[a.session] /\ numA(a, ls) \in DOMAIN Trace[a.session])
<1> DEFINE ds == drivers(a, ls)
<1>1. a # Nil /\ a.session \in Range(SESSIONS)
  BY DEF Sides
<1>2. ds \in SUBSET Nat /\ (ds = {} \/ (ls[a.session] /\ ds = DOMAIN Trace[a.session]))
  BY <1>1 DEF drivers
<1>3. numA(a, ls) = Nil \/ numA(a, ls) \in ds
  <2> HIDE DEF ds
  <2>1. First(ds) = Nil \/ First(ds) \in ds
    BY <1>2, FirstIn
  <2>2. \A code : findByCode(Code[a.session], ds, code) = Nil \/ findByCode(Code[a.session], ds, code) \in ds
    BY <1>2, FoundIn
  <2> QED  BY <2>1, <2>2 DEF numA, ds
<1> QED  BY <1>2, <1>3

LEMMA NumBIn ==
  ASSUME NEW a \in Sides, NEW b \in Sides, NEW ls
  PROVE  numB(a, b, ls) = Nil \/ (ls[b.session] /\ numB(a, b, ls) \in DOMAIN Trace[b.session])
<1> DEFINE ds == drivers(b, ls)
           others == ds \ {numA(a, ls)}
<1>1. b # Nil /\ b.session \in Range(SESSIONS)
  BY DEF Sides
<1>2. ds \in SUBSET Nat /\ (ds = {} \/ (ls[b.session] /\ ds = DOMAIN Trace[b.session]))
  BY <1>1 DEF drivers
<1>3. others \in SUBSET Nat /\ others \subseteq ds
  BY <1>2
<1>4. numB(a, b, ls) = Nil \/ numB(a, b, ls) \in ds
  <2> HIDE DEF ds, others
  <2>1. /\ First(ds) = Nil \/ First(ds) \in ds
        /\ others # {} => Min(others) \in ds
    BY <1>2, <1>3, FirstIn, LeastIn
  <2>2. \A code : findByCode(Code[b.session], ds, code) = Nil \/ findByCode(Code[b.session], ds, code) \in ds
    BY <1>2, FoundIn
  <2> QED  BY <2>1, <2>2, <1>1 DEF numB, ds, others
<1> QED  BY <1>2, <1>4

\* What a step of the overlay leaves on screen is of the catalogue.
LEMMA SidesKept ==
  ASSUME SidesInv, GhostStep
  PROVE  SidesInv'
<1>1. Shown /\ sideA \in Sides /\ sideB \in Sides
  BY DEF SidesInv, GhostStep, LaneLoads, PickSession, PickCar, SameDriverTwoYears,
         TwoDriversOneRace, TogglePaused, TimePasses, ScrubTo
<1>2. ASSUME NEW s \in Range(SESSIONS), LaneLoads(s)
      PROVE  SidesInv'
  BY <1>1, <1>2 DEF LaneLoads, Settle, SidesInv, Shown
<1>3. ASSUME NEW s \in Range(SESSIONS), PickSession(s)
      PROVE  SidesInv'
  <2>1. [sideA EXCEPT !.session = s] \in Sides /\ [sideB EXCEPT !.session = s] \in Sides
    BY <1>1 DEF Sides
  <2> QED  BY <1>1, <1>3, <2>1 DEF PickSession, Settle, SidesInv, Shown
<1>4. CASE PickCar
  <2>1. ASSUME NEW side \in Sides, NEW n \in drivers(side, lanes)
        PROVE  [side EXCEPT !.car = Code[side.session][n]] \in Sides
    BY DEF drivers, Sides
  <2>2. ASSUME NEW a \in Sides, NEW b \in Sides, NEW ls, Settle(a, b, ls)
        PROVE  SidesInv'
    BY <2>2 DEF Settle, SidesInv, Shown
  <2>3. CASE \E n \in drivers(sideA, lanes) :
               Settle([sideA EXCEPT !.car = Code[sideA.session][n]], sideB, lanes)
    BY <1>1, <2>1, <2>2, <2>3
  <2>4. CASE \E n \in drivers(sideB, lanes) :
               Settle(sideA, [sideB EXCEPT !.car = Code[sideB.session][n]], lanes)
    BY <1>1, <2>1, <2>2, <2>4
  <2> QED  BY <1>4, <2>3, <2>4 DEF PickCar
<1>5. CASE SameDriverTwoYears
  <2> DEFINE n == numA(sideA, lanes)
             b == [session |-> Other(sideA.session),
                   car |-> IF n = Nil THEN Nil ELSE Code[sideA.session][n]]
  <2>1. sideA.session \in Range(SESSIONS)
    BY <1>1 DEF Sides
  <2>2. (IF n = Nil THEN Nil ELSE Code[sideA.session][n]) \in WellFormed \cup {Nil}
    BY <1>1, <2>1, NumAIn
  <2>3. b \in Sides
    BY <2>1, <2>2, CatalogueFacts DEF Sides
  <2> QED  BY <1>1, <1>5, <2>3 DEF SameDriverTwoYears, Settle, SidesInv, Shown
<1>6. CASE TwoDriversOneRace
  <2>1. [session |-> sideA.session, car |-> Nil] \in Sides
    BY <1>1 DEF Sides
  <2> QED  BY <1>1, <1>6, <2>1 DEF TwoDriversOneRace, Settle, SidesInv, Shown
<1>7. CASE TogglePaused \/ TimePasses \/ \E v \in 0 .. loopMs(thePair) - 1 : ScrubTo(v)
  BY <1>1, <1>7 DEF TogglePaused, TimePasses, ScrubTo, SidesInv, Shown
<1> QED  BY <1>2, <1>3, <1>4, <1>5, <1>6, <1>7 DEF GhostStep

LEMMA SidesHold == Spec => []SidesInv
<1>1. Init => SidesInv
  BY MountFacts DEF Init, SidesInv, Shown
<1>2. SidesInv /\ [Next]_vars => SidesInv'
  <2> SUFFICES ASSUME SidesInv, [Next]_vars
               PROVE  SidesInv'
    OBVIOUS
  <2>1. CASE UNCHANGED ghostVars
    BY <2>1 DEF ghostVars, SidesInv, Shown
  <2>2. ASSUME NEW h \in Hashes, Navigate(h)
        PROVE  SidesInv'
    <3>1. CASE Mount(parseHash(h), h)
      BY <3>1, MountFacts DEF Mount, SidesInv
    <3>2. CASE Unmounted
      BY <3>2 DEF Unmounted, SidesInv, Shown
    <3> QED  BY <2>1, <2>2, <3>1, <3>2 DEF Navigate
  <2>3. CASE GhostStep
    BY <2>3, SidesKept
  <2> QED
    BY <2>1, <2>2, <2>3 DEF Next, Board, Select, Escape, vars
<1> QED  BY <1>1, <1>2, PTL DEF Spec

\* A hash that was built from two sides with drivers opens on them.
LEMMA BuiltOpens ==
  ASSUME NEW a \in Sides, NEW b \in Sides, a.car # Nil, b.car # Nil,
         NEW h, h = buildHash("ghost", Nil, a, b)
  PROVE  OpensA(parseHash(h)) = a /\ OpensB(parseHash(h)) = b
<1>1. \A v \in Sides : v # Nil /\ v.session \in Range(SESSIONS) /\ v.car \in WellFormed \cup {Nil}
      /\ v = [session |-> v.session, car |-> v.car]
  BY DEF Sides
<1>2. h.a = a /\ h.b = b
  BY <1>1 DEF buildHash
<1>3. \A v \in Sides : v.car # Nil => parseSide(v) = v
  BY <1>1 DEF parseSide, parseCode
<1>4. parseHash(h).a = a /\ parseHash(h).b = b
  BY <1>2, <1>3 DEF parseHash
<1> QED  BY <1>1, <1>4 DEF OpensA, OpensB, Opens

\* A copied link opens the pair it was copied from, whatever was picked and in
\* which order the two lanes came (Ghost.tsx).
THEOREM Shared == Spec => []SharedPair
<1>1. SidesInv => SharedPair
  <2> SUFFICES ASSUME SidesInv, Shown, theLink # Nil, location = theLink
               PROVE  Reopened(location) = thePair
    BY DEF SharedPair
  <2> DEFINE n == numA(sideA, lanes)
             m == numB(sideA, sideB, lanes)
             a == [session |-> sideA.session, car |-> Code[sideA.session][n]]
             b == [session |-> sideB.session, car |-> Code[sideB.session][m]]
             all == [s \in Range(SESSIONS) |-> TRUE]
  <2>1. /\ sideA \in Sides /\ sideB \in Sides /\ sideA # Nil
        /\ sideA.session \in Range(SESSIONS) /\ sideB.session \in Range(SESSIONS)
    BY DEF SidesInv, Sides, Shown
  <2>2. thePair = <<sideA.session, n, sideB.session, m>>
    BY <2>1 DEF thePair, pair
  <2>3. n # Nil /\ m # Nil /\ location = buildHash("ghost", Nil, a, b)
    BY <2>2 DEF theLink, Link
  <2>4. n \in DOMAIN Trace[sideA.session] /\ m \in DOMAIN Trace[sideB.session]
    BY <2>1, <2>3, NumAIn, NumBIn
  <2>5. /\ a \in Sides /\ b \in Sides /\ a # Nil /\ b # Nil
        /\ Code[sideA.session][n] # Nil /\ Code[sideB.session][m] # Nil
    BY <2>1, <2>4 DEF Sides
  <2>6. OpensA(parseHash(location)) = a /\ OpensB(parseHash(location)) = b
    <3>1. a.car # Nil /\ b.car # Nil
      BY <2>5
    <3> HIDE DEF a, b, n, m
    <3> QED  BY <2>3, <2>5, <3>1, BuiltOpens
  <2>7. numA(a, all) = n
    <3>1. a.session = sideA.session /\ a.car = Code[sideA.session][n]
      OBVIOUS
    <3>2. drivers(a, all) = DOMAIN Trace[sideA.session]
      BY <2>1, <2>5, <3>1 DEF drivers
    <3>3. findByCode(Code[sideA.session], DOMAIN Trace[sideA.session], a.car) = n
      BY <2>1, <2>4, <3>1, FoundByItsCode
    <3> HIDE DEF a, b, n, m, all
    <3> QED  BY <2>3, <2>4, <2>5, <3>1, <3>2, <3>3 DEF numA
  <2>8. numB(a, b, all) = m
    <3>1. b.session = sideB.session /\ b.car = Code[sideB.session][m]
      OBVIOUS
    <3>2. drivers(b, all) = DOMAIN Trace[sideB.session]
      BY <2>1, <2>5, <3>1 DEF drivers
    <3>3. findByCode(Code[sideB.session], DOMAIN Trace[sideB.session], b.car) = m
      BY <2>1, <2>4, <3>1, FoundByItsCode
    <3> HIDE DEF a, b, n, m, all
    <3> QED  BY <2>3, <2>4, <2>5, <3>1, <3>2, <3>3 DEF numB
  <2> QED  BY <2>2, <2>5, <2>6, <2>7, <2>8 DEF Reopened, pair
<1> QED  BY <1>1, SidesHold, PTL
-----------------------------------------------------------------------------
(* The markers and the cursor *)

LEMMA GreatestIn ==
  ASSUME NEW n \in Nat, NEW S \in SUBSET (1 .. n), S # {}
  PROVE  Max(S) \in S
<1> DEFINE T == {n - i : i \in S}
<1>1. T \in SUBSET Nat /\ T # {}
  <2>1. \A i \in S : n - i \in Nat
    OBVIOUS
  <2>2. T # {}
    <3>1. PICK i \in S : TRUE
      OBVIOUS
    <3>2. n - i \in T
      OBVIOUS
    <3> QED  BY <3>2
  <2> QED  BY <2>1, <2>2
<1>2. Min(T) \in T /\ \A k \in T : Min(T) <= k
  <2> HIDE DEF T
  <2> QED  BY <1>1, LeastIn
<1>3. PICK m \in S : Min(T) = n - m
  BY <1>2
<1>4. \A i \in S : m >= i
  <2> SUFFICES ASSUME NEW i \in S
               PROVE  m >= i
    OBVIOUS
  <2>1. n - i \in T /\ i \in 1 .. n /\ m \in 1 .. n
    OBVIOUS
  <2>2. n - m <= n - i
    BY <1>2, <1>3, <2>1
  <2> QED  BY <2>1, <2>2
<1> QED  BY <1>4 DEF Max

LEMMA LesserOf ==
  ASSUME NEW m \in Nat, NEW n \in Nat
  PROVE  Min({m, n}) \in {m, n} /\ Min({m, n}) <= m /\ Min({m, n}) <= n
<1>1. {m, n} \in SUBSET Nat /\ {m, n} # {}
  OBVIOUS
<1>2. Min({m, n}) \in {m, n} /\ \A k \in {m, n} : Min({m, n}) <= k
  BY <1>1, LeastIn
<1> QED  BY <1>2

\* A clock, wherever it is, is at an index of the lap.
LEMMA IndexIn ==
  ASSUME NEW trace \in Seq(Int) \ {<<>>}, NEW t
  PROVE  indexAtTime(trace, t) \in 1 .. Len(trace)
<1> DEFINE reached == {i \in DOMAIN trace : \A j \in 1 .. i : trace[j] <= t}
<1>1. /\ Len(trace) \in Nat /\ 1 \in 1 .. Len(trace)
      /\ reached \in SUBSET (1 .. Len(trace))
  OBVIOUS
<1>2. reached # {} => Max(reached) \in reached
  <2> HIDE DEF reached
  <2> QED  BY <1>1, GreatestIn
<1> QED  BY <1>1, <1>2 DEF indexAtTime

LEMMA BarsOf ==
  ASSUME NEW a \in Seq(Int) \ {<<>>}, NEW b \in Seq(Int) \ {<<>>}
  PROVE  /\ Len(deltaSeries(a, b)) \in Nat \ {0}
         /\ DOMAIN deltaSeries(a, b) = 1 .. Len(deltaSeries(a, b))
<1> DEFINE n == Min({Len(a), Len(b)})
<1>1. n \in Nat \ {0}
  <2>1. Len(a) \in Nat \ {0} /\ Len(b) \in Nat \ {0}
    OBVIOUS
  <2> QED  BY <2>1, LesserOf
<1> DEFINE bars == [i \in 1 .. n |-> a[i] - b[i]]
<1>2. deltaSeries(a, b) = bars /\ DOMAIN bars = 1 .. n
  BY DEF deltaSeries
<1> HIDE DEF n, bars
<1>3. Len(bars) = n
  BY <1>1, <1>2
<1> QED  BY <1>1, <1>2, <1>3

\* Both markers are on side A's outline and the cursor is on a bar, whatever the
\* lengths of the two laps and the two outlines (the clamps of Ghost.tsx).
THEOREM Track == Spec => []OnTheTrack
<1>1. SidesInv => OnTheTrack
  <2> SUFFICES ASSUME SidesInv, Shown, ready(thePair)
               PROVE  /\ {Marker(thePair, 1, tMs), Marker(thePair, 3, tMs)}
                           \subseteq 1 .. Outline[thePair[1]]
                      /\ Cursor(thePair, tMs) \in
                           DOMAIN deltaSeries(Lap(thePair[1], thePair[2]), Lap(thePair[3], thePair[4]))
    BY DEF OnTheTrack
  <2> DEFINE p == thePair
             a == Lap(p[1], p[2])
             b == Lap(p[3], p[4])
  <2>1. /\ sideA \in Sides /\ sideB \in Sides /\ sideA # Nil
        /\ sideA.session \in Range(SESSIONS) /\ sideB.session \in Range(SESSIONS)
    BY DEF SidesInv, Sides, Shown
  <2>2. p = <<sideA.session, numA(sideA, lanes), sideB.session, numB(sideA, sideB, lanes)>>
    BY <2>1 DEF thePair, pair
  <2>3. p[2] # Nil /\ p[4] # Nil /\ Outline[p[1]] \in Nat \ {0}
    <3>1. loopMs(p) > 0 /\ Outline[p[1]] > 0 /\ Outline[p[1]] \in Nat
      BY <2>1, <2>2, TraceAssumption DEF ready
    <3> QED  BY <3>1 DEF loopMs
  <2>4. p[2] \in DOMAIN Trace[p[1]] /\ p[4] \in DOMAIN Trace[p[3]]
    BY <2>1, <2>2, <2>3, NumAIn, NumBIn
  <2>5. a \in Seq(Int) \ {<<>>} /\ b \in Seq(Int) \ {<<>>}
    BY <2>1, <2>2, <2>4, TraceAssumption DEF Lap
  <2>6. /\ indexAtTime(a, tMs) \in Nat \ {0} /\ indexAtTime(b, tMs) \in Nat \ {0}
        /\ Len(deltaSeries(a, b)) \in Nat \ {0}
        /\ DOMAIN deltaSeries(a, b) = 1 .. Len(deltaSeries(a, b))
    <3> HIDE DEF a, b
    <3>1. /\ indexAtTime(a, tMs) \in 1 .. Len(a) /\ indexAtTime(b, tMs) \in 1 .. Len(b)
          /\ Len(a) \in Nat /\ Len(b) \in Nat
      BY <2>5, IndexIn
    <3> QED  BY <2>5, <3>1, BarsOf
  <2>7. \A m, n \in Nat \ {0} : Min({m, n}) \in 1 .. n
    <3> SUFFICES ASSUME NEW m \in Nat \ {0}, NEW n \in Nat \ {0}
                 PROVE  Min({m, n}) \in 1 .. n
      OBVIOUS
    <3>1. Min({m, n}) \in {m, n} /\ Min({m, n}) <= n
      BY LesserOf
    <3> QED  BY <3>1
  <2>8. /\ Marker(p, 1, tMs) = Min({indexAtTime(a, tMs), Outline[p[1]]})
        /\ Marker(p, 3, tMs) = Min({indexAtTime(b, tMs), Outline[p[1]]})
        /\ Cursor(p, tMs) = Min({indexAtTime(a, tMs), Len(deltaSeries(a, b))})
    BY DEF Marker, Cursor
  <2> HIDE DEF a, b, p
  <2>9. /\ {Marker(p, 1, tMs), Marker(p, 3, tMs)} \subseteq 1 .. Outline[p[1]]
        /\ Cursor(p, tMs) \in DOMAIN deltaSeries(a, b)
    <3>1. /\ Min({indexAtTime(a, tMs), Outline[p[1]]}) \in 1 .. Outline[p[1]]
          /\ Min({indexAtTime(b, tMs), Outline[p[1]]}) \in 1 .. Outline[p[1]]
          /\ Min({indexAtTime(a, tMs), Len(deltaSeries(a, b))}) \in 1 .. Len(deltaSeries(a, b))
      BY <2>3, <2>6, <2>7, Zenon
    <3> QED  BY <3>1, <2>6, <2>8
  <2> QED  BY <2>9 DEF a, b, p
<1> QED  BY <1>1, SidesHold, PTL
-----------------------------------------------------------------------------
(* The rail: Rail *)

\* useStale looks at the Rev alone, so a switch of lanes counts as a change only if
\* the new lane is at another Rev: what the theorem asks of the two lanes' writers.
SwitchMovesRev ==
  [][state.session \notin {None, state'.session} => state'.rev # state.rev]_state

WireMessages == [kind : {"snapshot", "frame"}, session : Lanes, rev : Nat]
Shows == [session : Lanes \cup {None}, rev : Nat]

RailTypeOK ==
  /\ served \in Lanes
  /\ rev \in [Lanes -> Nat]
  /\ wire \in Seq(WireMessages) \cup {None}
  /\ latest \in Shows /\ state \in Shows
  /\ frozen \in BOOLEAN
  /\ staleSec \in Nat /\ changed \in Nat /\ advanced \in Nat /\ halfway \in BOOLEAN
  /\ post \in [source : Lanes, at : {"sent", "ok", "failed"}] \cup {None}

\* Nothing has been shown at first, and what is shown lags only while frozen.
ShownInv ==
  /\ state.session = None => state.rev = 0
  /\ latest.session = None => latest.rev = 0
  /\ ~frozen => state = latest

\* Of one lane, what was read, what is on the wire and the writer are in order.
WireOrder ==
  /\ latest.session # None => latest.rev <= rev[latest.session]
  /\ wire # None =>
       \A i \in DOMAIN wire :
         /\ wire[i].rev <= rev[wire[i].session]
         /\ wire[i].session = latest.session => latest.rev <= wire[i].rev
         /\ \A j \in DOMAIN wire :
              i < j /\ wire[i].session = wire[j].session => wire[i].rev <= wire[j].rev

\* The lane of a frozen board has moved on, so a Resume will see another Rev.
Overtaken ==
  LET l == state.session
  IN  /\ l \in Lanes
      /\ state.rev < rev[l]
      /\ latest.session = l => state.rev < latest.rev
      /\ wire # None => \A i \in DOMAIN wire : wire[i].session = l => state.rev < wire[i].rev

\* The hook's seconds are never ahead of the time since it saw a change, and that
\* time is never ahead of the feed's, but on a frozen board that is overtaken.
StallInv ==
  /\ 2 * staleSec <= changed
  /\ state.rev > 0 => changed <= advanced \/ (frozen /\ Overtaken)

RailInv == RailTypeOK /\ ShownInv /\ WireOrder /\ StallInv

LEMMA OlderFacts ==
  ASSUME NEW a \in Nat, NEW b \in Nat
  PROVE  /\ Older(a) \in Nat /\ a <= Older(a)
         /\ a <= b => Older(a) <= Older(b)
         /\ a \div 2 \in Nat /\ 2 * (a \div 2) <= a
<1>1. Older(a) \in Nat /\ a <= Older(a) /\ (a <= b => Older(a) <= Older(b))
  BY RailAssumption DEF Older
<1>2. a \div 2 \in Nat /\ 2 * (a \div 2) <= a
  OBVIOUS
<1> QED
  BY <1>1, <1>2

LEMMA RailInitially == RailInit => RailInv
<1> SUFFICES ASSUME RailInit
             PROVE  RailInv
  OBVIOUS
<1>1. /\ latest = EmptyState /\ state = EmptyState
      /\ EmptyState \in Shows /\ EmptyState.session = None /\ EmptyState.rev = 0
  BY DEF RailInit, EmptyState, Shows
<1>2. RailTypeOK
  BY <1>1, RailAssumption DEF RailInit, RailTypeOK
<1>3. ShownInv /\ WireOrder /\ StallInv
  BY <1>1 DEF RailInit, ShownInv, WireOrder, StallInv
<1> QED
  BY <1>2, <1>3 DEF RailInv

LEMMA HalfSecondKeeps ==
  ASSUME RailInv, HalfSecond
  PROVE  RailInv'
<1>0. changed \in Nat /\ advanced \in Nat /\ staleSec \in Nat /\ 2 * staleSec <= changed
  BY DEF RailInv, RailTypeOK, StallInv
<1>1. RailTypeOK' /\ 2 * staleSec' <= changed'
  <2>1. /\ changed' \in Nat /\ advanced' \in Nat /\ changed <= changed'
        /\ changed' \div 2 \in Nat /\ 2 * (changed' \div 2) <= changed'
    BY <1>0, OlderFacts DEF HalfSecond
  <2>2. staleSec' \in Nat /\ 2 * staleSec' <= changed'
    BY <1>0, <2>1 DEF HalfSecond, Tick
  <2> QED
    BY <2>1, <2>2 DEF HalfSecond, RailInv, RailTypeOK, gatewayVars, toggleVars
<1>2. ShownInv' /\ WireOrder'
  BY DEF HalfSecond, RailInv, ShownInv, WireOrder, gatewayVars
<1>3. state.rev' > 0 => changed' <= advanced' \/ (frozen' /\ Overtaken')
  BY OlderFacts DEF HalfSecond, RailInv, RailTypeOK, StallInv, Overtaken, gatewayVars
<1> QED
  BY <1>1, <1>2, <1>3 DEF RailInv, StallInv

\* What a message does to the state it is applied to.
LEMMA AppliedFacts ==
  ASSUME NEW s \in Shows, NEW m \in WireMessages
  PROVE  /\ ApplyMessage(s, m) \in Shows
         /\ \/ ApplyMessage(s, m) = s
            \/ ApplyMessage(s, m) = [session |-> m.session, rev |-> m.rev]
BY DEF ApplyMessage, Shows, WireMessages

\* The counter is never ahead of the feed's clock on a board that shows a new state.
LEMMA ShowsNews ==
  ASSUME RailTypeOK, ShownInv, StallInv, NEW s \in Shows, Show(s),
         advanced' = advanced \/ (advanced' = 0 /\ s # state),
         changed <= advanced \/ s.session # state.session \/ s.rev # state.rev \/ state.rev = 0,
         s.session = None => s.rev = 0,
         s # state /\ state.session \notin {None, s.session} => s.rev # state.rev
  PROVE  /\ state' = s /\ staleSec' \in Nat /\ changed' \in Nat
         /\ 2 * staleSec' <= changed'
         /\ state'.rev > 0 => changed' <= advanced'
<1>1. /\ state \in Shows /\ state.rev \in Nat /\ s.rev \in Nat /\ advanced \in Nat
      /\ staleSec \in Nat /\ changed \in Nat /\ 2 * staleSec <= changed
      /\ state.session = None => state.rev = 0
  BY DEF RailTypeOK, ShownInv, StallInv, Shows
<1>2. CASE s.rev # state.rev
  BY <1>1, <1>2 DEF Show
<1>3. CASE s.rev = state.rev
  <2>1. state' = s /\ changed' = changed /\ staleSec' = staleSec
    BY <1>3 DEF Show
  <2>2. ASSUME s.rev > 0
        PROVE  s = state /\ changed <= advanced
    <3>1. s.session = state.session
      BY <1>1, <1>3, <2>2
    <3>2. s = state
      <4>1. /\ s = [session |-> s.session, rev |-> s.rev]
            /\ state = [session |-> state.session, rev |-> state.rev]
        BY <1>1 DEF Shows
      <4> QED
        BY <1>3, <3>1, <4>1
    <3> QED
      BY <1>1, <1>3, <2>2, <3>1, <3>2
  <2> QED
    BY <1>1, <2>1, <2>2
<1> QED
  BY <1>2, <1>3

LEMMA ArriveKeeps ==
  ASSUME RailInv, Arrive,
         state' # state => (state.session \notin {None, state'.session} => state'.rev # state.rev)
  PROVE  RailInv'
<1> DEFINE m == Head(wire)
<1>1. /\ wire \in Seq(WireMessages) /\ wire # <<>> /\ wire # None
      /\ m = wire[1] /\ m \in WireMessages /\ 1 \in DOMAIN wire
      /\ wire' = Tail(wire) /\ wire' \in Seq(WireMessages)
      /\ \A i \in DOMAIN wire' : i + 1 \in DOMAIN wire /\ wire'[i] = wire[i + 1] /\ 1 < i + 1
  BY DEF Arrive, RailInv, RailTypeOK
<1>2. /\ latest' \in Shows
      /\ latest' = latest \/ latest' = [session |-> m.session, rev |-> m.rev]
  BY <1>1, AppliedFacts DEF Arrive, RailInv, RailTypeOK
<1>3. /\ m.session \in Lanes /\ m.rev \in Nat
      /\ rev' = rev /\ frozen' = frozen /\ served' = served /\ post' = post /\ halfway' = halfway
      /\ latest'.session = None => latest'.rev = 0
      /\ \A i \in DOMAIN wire : wire[i] \in WireMessages
  <2>1. m.session \in Lanes /\ m.rev \in Nat /\ (latest.session = None => latest.rev = 0)
    BY <1>1 DEF RailInv, ShownInv, WireMessages
  <2>2. latest'.session = None => latest'.rev = 0
    BY <1>2, <2>1, RailAssumption
  <2>3. \A i \in DOMAIN wire : wire[i] \in WireMessages
    BY <1>1
  <2> QED
    BY <2>1, <2>2, <2>3 DEF Arrive, gatewayVars, toggleVars
<1>4. WireOrder'
  <2>1. latest'.session # None => latest'.rev <= rev[latest'.session]
    BY <1>1, <1>2 DEF RailInv, WireOrder
  <2>2. ASSUME NEW i \in DOMAIN wire'
        PROVE  /\ wire'[i].rev <= rev[wire'[i].session]
               /\ wire'[i].session = latest'.session => latest'.rev <= wire'[i].rev
    BY <1>1, <1>2, <2>2 DEF RailInv, WireOrder
  <2>3. ASSUME NEW i \in DOMAIN wire', NEW j \in DOMAIN wire', i < j,
               wire'[i].session = wire'[j].session
        PROVE  wire'[i].rev <= wire'[j].rev
    <3>1. i + 1 < j + 1
      BY <1>1, <2>3
    <3> QED
      BY <1>1, <2>3, <3>1 DEF RailInv, WireOrder
  <2> QED
    BY <2>1, <2>2, <2>3, <1>3 DEF WireOrder
<1>5. CASE frozen
  <2>1. state' = state /\ staleSec' = staleSec /\ changed' = changed
    BY <1>5 DEF Arrive
  <2>2. advanced' \in Nat
    BY DEF Arrive, RailInv, RailTypeOK
  <2>3. ASSUME state.rev > 0
        PROVE  changed' <= advanced' \/ (frozen' /\ Overtaken')
    <3>1. CASE News(latest')
      <4>1. /\ state.session = latest'.session /\ state.rev < latest'.rev
            /\ state.session \in Lanes
        BY <1>2, <1>5, <2>3, <3>1 DEF News, RailInv, RailTypeOK, ShownInv, Shows
      <4>2. state.rev < rev[state.session]
        BY <4>1, <1>2, <1>3, <1>4 DEF WireOrder, RailInv, RailTypeOK, Shows
      <4>3. ASSUME NEW i \in DOMAIN wire', wire'[i].session = state.session, wire' # None
            PROVE  state.rev < wire'[i].rev
        <5>1. latest'.rev <= wire'[i].rev
          BY <4>1, <4>3, <1>1, <1>3, <1>4 DEF WireOrder
        <5>2. wire'[i].rev \in Nat /\ latest'.rev \in Nat /\ state.rev \in Nat
          BY <1>1, <1>2, <1>3, <4>3 DEF RailInv, RailTypeOK, Shows, WireMessages
        <5> QED
          BY <5>1, <5>2, <4>1
      <4> QED
        BY <4>1, <4>2, <4>3, <1>3, <1>5, <2>1 DEF Overtaken
    <3>2. CASE ~News(latest')
      <4>1. advanced' = advanced
        BY <3>2 DEF Arrive
      <4>2. Overtaken => Overtaken'
        BY <1>1, <1>2, <1>3, <2>1 DEF Overtaken
      <4> QED
        BY <4>1, <4>2, <1>3, <1>5, <2>1, <2>3 DEF RailInv, StallInv
    <3> QED
      BY <3>1, <3>2
  <2> QED
    BY <2>1, <2>2, <2>3, <1>1, <1>2, <1>3, <1>4, <1>5
    DEF RailInv, RailTypeOK, ShownInv, StallInv
<1>6. CASE ~frozen
  <2>1. Show(latest') /\ state' = latest' /\ state = latest
    BY <1>6 DEF Arrive, Show, RailInv, ShownInv
  <2>2. advanced' = advanced \/ (advanced' = 0 /\ latest' # state)
    BY <1>6 DEF Arrive, News
  <2>5. changed <= advanced \/ state.rev = 0
    BY <1>6 DEF RailInv, RailTypeOK, StallInv, Shows
  <2>3. /\ staleSec' \in Nat /\ changed' \in Nat /\ 2 * staleSec' <= changed'
        /\ state'.rev > 0 => changed' <= advanced'
    <3>1. RailTypeOK /\ ShownInv /\ StallInv
      BY DEF RailInv
    <3> QED
      BY <2>1, <2>2, <2>5, <3>1, <1>2, <1>3, ShowsNews
  <2>4. advanced' \in Nat
    BY <2>2 DEF RailInv, RailTypeOK
  <2> QED
    BY <2>1, <2>3, <2>4, <1>1, <1>2, <1>3, <1>4, <1>6
    DEF RailInv, RailTypeOK, ShownInv, StallInv
<1> QED
  BY <1>5, <1>6

LEMMA ToggleFrozenKeeps ==
  ASSUME RailInv, ToggleFrozen,
         state' # state => (state.session \notin {None, state'.session} => state'.rev # state.rev)
  PROVE  RailInv'
<1>1. /\ latest' = latest /\ rev' = rev /\ wire' = wire /\ advanced' = advanced
      /\ served' = served /\ post' = post /\ halfway' = halfway /\ frozen' = ~frozen
  BY DEF ToggleFrozen, gatewayVars, toggleVars
<1>2. WireOrder'
  BY <1>1 DEF RailInv, WireOrder
<1>3. CASE frozen
  <2>1. Show(latest) /\ state' = latest
    BY <1>3 DEF ToggleFrozen, Show
  <2>2. \/ changed <= advanced \/ latest.session # state.session
        \/ latest.rev # state.rev \/ state.rev = 0
    BY DEF RailInv, RailTypeOK, Shows, StallInv, Overtaken
  <2>3. /\ staleSec' \in Nat /\ changed' \in Nat /\ 2 * staleSec' <= changed'
        /\ state'.rev > 0 => changed' <= advanced'
    BY <2>1, <2>2, <1>1, ShowsNews DEF RailInv, RailTypeOK, ShownInv
  <2> QED
    BY <2>1, <2>3, <1>1, <1>2, <1>3 DEF RailInv, RailTypeOK, ShownInv, StallInv
<1>4. CASE ~frozen
  <2>1. state' = state /\ staleSec' = staleSec /\ changed' = changed
    BY <1>4 DEF ToggleFrozen
  <2> QED
    BY <2>1, <1>1, <1>2, <1>4 DEF RailInv, RailTypeOK, ShownInv, StallInv
<1> QED
  BY <1>3, <1>4

\* The steps of the gateway, the socket and the switch leave the board alone: what
\* they put on the wire is at the lane's Rev, and a writer's Rev only grows.
LEMMA WireStepKeeps ==
  ASSUME RailInv, UNCHANGED <<shownVars, halfway, frozen>>,
         served' \in Lanes, rev' \in [Lanes -> Nat],
         post' \in [source : Lanes, at : {"sent", "ok", "failed"}] \cup {None},
         \A l \in Lanes : rev[l] <= rev'[l],
         \/ wire' = wire \/ wire' = None
         \/ \E n \in WireMessages :
              /\ n.rev = rev'[n.session]
              /\ \/ wire # None /\ wire' = Append(wire, n)
                 \/ wire' = <<n>>
  PROVE  RailInv'
<1>1. /\ state' = state /\ latest' = latest /\ frozen' = frozen /\ staleSec' = staleSec
      /\ changed' = changed /\ advanced' = advanced /\ halfway' = halfway
  BY DEF shownVars
<1>2. /\ wire # None => wire \in Seq(WireMessages)
      /\ wire # None =>
           \A i \in DOMAIN wire : wire[i].session \in Lanes /\ wire[i].rev \in Nat
      /\ latest.session # None => latest.session \in Lanes
      /\ latest.rev \in Nat /\ state.rev \in Nat
      /\ \A l \in Lanes : rev[l] \in Nat
  <2>1. wire # None => wire \in Seq(WireMessages)
    BY DEF RailInv, RailTypeOK
  <2>2. ASSUME wire # None, NEW i \in DOMAIN wire
        PROVE  wire[i].session \in Lanes /\ wire[i].rev \in Nat
    <3>1. wire[i] \in WireMessages
      BY <2>1, <2>2
    <3> QED
      BY <3>1 DEF WireMessages
  <2>3. /\ latest.session # None => latest.session \in Lanes
        /\ latest.rev \in Nat /\ state.rev \in Nat
        /\ \A l \in Lanes : rev[l] \in Nat
    BY DEF RailInv, RailTypeOK, Shows
  <2> QED
    BY <2>1, <2>2, <2>3
<1>3. latest'.session # None => latest'.rev <= rev'[latest'.session]
  BY <1>1, <1>2 DEF RailInv, WireOrder
<1>4. Overtaken => state'.session \in Lanes /\ state'.rev < rev'[state'.session]
  BY <1>1, <1>2 DEF Overtaken
<1>5. CASE wire' = wire \/ wire' = None
  <2>1. WireOrder'
    <3>1. ASSUME NEW i \in DOMAIN wire', wire' # None
          PROVE  wire'[i].rev <= rev'[wire'[i].session]
      BY <1>2, <1>5, <3>1 DEF RailInv, WireOrder
    <3> QED
      BY <1>1, <1>3, <1>5, <3>1 DEF RailInv, WireOrder
  <2>2. Overtaken => Overtaken'
    BY <1>1, <1>4, <1>5 DEF Overtaken
  <2> QED
    BY <2>1, <2>2, <1>1, <1>5 DEF RailInv, RailTypeOK, ShownInv, StallInv
<1>6. ASSUME NEW n \in WireMessages, n.rev = rev'[n.session],
             (wire # None /\ wire' = Append(wire, n)) \/ wire' = <<n>>
      PROVE  RailInv'
  <2>1. wire' \in Seq(WireMessages) /\ n.session \in Lanes /\ n.rev \in Nat
    <3>1. wire # None => wire \in Seq(WireMessages)
      BY <1>2
    <3>2. n \in WireMessages /\ <<n>> \in Seq(WireMessages)
      BY <1>6
    <3>3. wire # None => Append(wire, n) \in Seq(WireMessages)
      BY <3>1, <3>2
    <3> QED
      BY <3>2, <3>3, <1>6 DEF WireMessages
  <2>2. ASSUME NEW i \in DOMAIN wire'
        PROVE  \/ wire # None /\ i \in DOMAIN wire /\ wire'[i] = wire[i]
                   /\ wire[i].session \in Lanes /\ wire[i].rev \in Nat
               \/ wire'[i] = n /\ i = Len(wire')
    <3>1. CASE wire' = <<n>>
      BY <3>1, <2>2
    <3>2. CASE wire # None /\ wire' = Append(wire, n)
      <4>1. wire \in Seq(WireMessages)
        BY <3>2, <1>2
      <4>2. CASE i = Len(wire) + 1
        BY <3>2, <4>1, <4>2
      <4>3. CASE i # Len(wire) + 1
        <5>1. i \in DOMAIN wire /\ wire'[i] = wire[i]
          BY <3>2, <4>1, <4>3, <2>2
        <5> QED
          BY <5>1, <3>2, <1>2
      <4> QED
        BY <4>2, <4>3
    <3> QED
      BY <3>1, <3>2, <1>6
  <2>3. \A l \in Lanes : rev'[l] \in Nat
    OBVIOUS
  <2>4. ASSUME NEW i \in DOMAIN wire'
        PROVE  wire'[i].rev <= rev'[wire'[i].session] /\ wire'[i].rev \in Nat
    <3>1. CASE wire'[i] = n
      BY <3>1, <2>1, <2>3, <1>6
    <3>2. CASE wire # None /\ i \in DOMAIN wire /\ wire'[i] = wire[i]
      <4>1. wire[i].session \in Lanes /\ wire[i].rev \in Nat /\ wire[i].rev <= rev[wire[i].session]
        BY <3>2, <1>2 DEF RailInv, WireOrder
      <4>2. rev[wire[i].session] <= rev'[wire[i].session] /\ rev[wire[i].session] \in Nat
            /\ rev'[wire[i].session] \in Nat
        BY <4>1, <2>3, <1>2
      <4> QED
        BY <3>2, <4>1, <4>2
    <3> QED
      BY <3>1, <3>2, <2>2, <2>4
  <2>5. ASSUME NEW i \in DOMAIN wire', wire'[i].session = latest'.session
        PROVE  latest'.rev <= wire'[i].rev
    <3>1. CASE wire # None /\ i \in DOMAIN wire /\ wire'[i] = wire[i]
      BY <3>1, <2>5, <1>1 DEF RailInv, WireOrder
    <3>2. CASE wire'[i] = n
      <4>1. latest'.session # None
        BY <3>2, <2>1, <2>5, RailAssumption
      <4> QED
        BY <4>1, <3>2, <2>5, <1>3, <1>6
    <3> QED
      BY <3>1, <3>2, <2>2, <2>5
  <2>6. ASSUME NEW i \in DOMAIN wire', NEW j \in DOMAIN wire', i < j,
               wire'[i].session = wire'[j].session
        PROVE  wire'[i].rev <= wire'[j].rev
    <3>1. CASE wire'[j] = n
      BY <3>1, <2>4, <2>6, <1>6
    <3>2. CASE wire # None /\ j \in DOMAIN wire /\ wire'[j] = wire[j] /\ wire'[j] # n
      <4>1. i \in DOMAIN wire /\ wire'[i] = wire[i]
        <5>1. i # Len(wire')
          BY <2>1, <2>6
        <5> QED
          BY <5>1, <2>2, <2>6
      <4> QED
        BY <4>1, <3>2, <2>6 DEF RailInv, WireOrder
    <3> QED
      BY <3>1, <3>2, <2>2, <2>6
  <2>7. WireOrder'
    BY <2>4, <2>5, <2>6, <1>3 DEF WireOrder
  <2>8. Overtaken => Overtaken'
    <3> SUFFICES ASSUME Overtaken
                 PROVE  Overtaken'
      OBVIOUS
    <3>1. ASSUME NEW i \in DOMAIN wire', wire'[i].session = state'.session
          PROVE  state'.rev < wire'[i].rev
      BY <3>1, <2>2, <1>1, <1>4, <1>6 DEF Overtaken
    <3> QED
      BY <3>1, <1>1, <1>4 DEF Overtaken
  <2> QED
    BY <2>1, <2>7, <2>8, <1>1 DEF RailInv, RailTypeOK, ShownInv, StallInv
<1> QED
  BY <1>5, <1>6

LEMMA SwitchFacts ==
  ASSUME RailInv, NEW l \in Lanes, SwitchTo(l)
  PROVE  /\ served' \in Lanes /\ rev' = rev
         /\ \/ wire' = wire
            \/ \E n \in WireMessages :
                 n.rev = rev'[n.session] /\ wire # None /\ wire' = Append(wire, n)
<1>1. Snapshot(l) \in WireMessages /\ Snapshot(l).rev = rev[Snapshot(l).session]
  BY DEF Snapshot, WireMessages, RailInv, RailTypeOK
<1> QED
  BY <1>1 DEF SwitchTo

LEMMA PublishKeeps ==
  ASSUME RailInv, NEW l \in Lanes, Publish(l)
  PROVE  RailInv'
<1> DEFINE n == [kind |-> "frame", session |-> l, rev |-> rev'[l]]
<1>1. /\ rev' \in [Lanes -> Nat] /\ \A k \in Lanes : rev[k] <= rev'[k]
      /\ served' = served /\ post' = post
  BY DEF Publish, RailInv, RailTypeOK, toggleVars
<1>2. n \in WireMessages /\ n.rev = rev'[n.session]
  BY <1>1 DEF WireMessages
<1>3. wire' = wire \/ (wire # None /\ wire' = Append(wire, n))
  BY DEF Publish
<1>4. UNCHANGED <<shownVars, halfway, frozen>>
  BY DEF Publish, shownVars
<1> HIDE DEF n
<1> QED
  BY <1>1, <1>2, <1>3, <1>4, WireStepKeeps DEF RailInv, RailTypeOK

\* The remaining steps.
LEMMA OthersKeep ==
  ASSUME RailInv,
         \/ Lost \/ Opened \/ Reconnect \/ Handled \/ Answered
         \/ \E l \in Lanes : OtherTabSwitches(l) \/ Pick(l)
  PROVE  RailInv'
<1> USE DEF shownVars, gatewayVars, toggleVars
<1>6. served \in Lanes /\ rev \in [Lanes -> Nat] /\ \A l \in Lanes : rev[l] <= rev[l]
  BY DEF RailInv, RailTypeOK
<1>1. CASE Opened
  <2>1. Snapshot(served) \in WireMessages /\ Snapshot(served).rev = rev[Snapshot(served).session]
    BY DEF Snapshot, WireMessages, RailInv, RailTypeOK
  <2> QED
    BY <1>1, <2>1, WireStepKeeps DEF Opened, RailInv, RailTypeOK
<1>2. CASE Lost \/ Reconnect \/ Answered
  BY <1>2, WireStepKeeps DEF Lost, Reconnect, Answered, RailInv, RailTypeOK
<1>3. ASSUME NEW l \in Lanes, OtherTabSwitches(l)
      PROVE  RailInv'
  BY <1>3, SwitchFacts, WireStepKeeps DEF OtherTabSwitches, RailInv, RailTypeOK
<1>4. ASSUME NEW l \in Lanes, Pick(l)
      PROVE  RailInv'
  <2>1. post' \in [source : Lanes, at : {"sent", "ok", "failed"}] /\ served' = served /\ rev' = rev /\ wire' = wire
        /\ UNCHANGED <<shownVars, halfway, frozen>>
    BY <1>4 DEF Pick
  <2> QED
    BY <2>1, <1>6, WireStepKeeps
<1>5. CASE Handled
  <2>1. post \in [source : Lanes, at : {"sent", "ok", "failed"}]
    BY <1>5 DEF Handled, RailInv, RailTypeOK
  <2>2. CASE SwitchTo(post.source) /\ post' = [post EXCEPT !.at = "ok"]
    <3>1. post.source \in Lanes /\ post' \in [source : Lanes, at : {"sent", "ok", "failed"}]
      BY <2>1, <2>2
    <3>2. UNCHANGED <<shownVars, halfway, frozen>>
      BY <1>5 DEF Handled
    <3> QED
      BY <3>1, <3>2, <1>6, <2>2, SwitchFacts, WireStepKeeps
  <2>3. CASE post' = [post EXCEPT !.at = "failed"] /\ UNCHANGED <<gatewayVars, wire>>
    <3>1. post' \in [source : Lanes, at : {"sent", "ok", "failed"}]
      BY <2>1, <2>3
    <3>2. UNCHANGED <<shownVars, halfway, frozen>>
      BY <1>5 DEF Handled
    <3> QED
      BY <3>1, <3>2, <1>6, <2>3, WireStepKeeps
  <2> QED
    BY <1>5, <2>2, <2>3 DEF Handled
<1> QED
  BY <1>1, <1>2, <1>3, <1>4, <1>5

\* The chip of the board's rail says "stall" only when no frame has moved the lane on
\* for the threshold, for any threshold, any lanes and any order of frames, ticks,
\* switches, losses, Freeze and Resume.
THEOREM Stall == RailSpec /\ SwitchMovesRev => []StallIsReal
<1> DEFINE Moves == state.session \notin {None, state'.session} => state'.rev # state.rev
<1>1. RailInv /\ [RailNext]_railVars /\ [Moves]_state => RailInv'
  <2> SUFFICES ASSUME RailInv, [RailNext]_railVars, [Moves]_state
               PROVE  RailInv'
    OBVIOUS
  <2>1. CASE HalfSecond
    BY <2>1, HalfSecondKeeps
  <2>2. CASE Arrive
    BY <2>2, ArriveKeeps
  <2>3. CASE ToggleFrozen
    BY <2>3, ToggleFrozenKeeps
  <2>4. ASSUME NEW l \in Lanes, Publish(l)
        PROVE  RailInv'
    BY <2>4, PublishKeeps
  <2>5. CASE \/ Lost \/ Opened \/ Reconnect \/ Handled \/ Answered
             \/ \E l \in Lanes : OtherTabSwitches(l) \/ Pick(l)
    BY <2>5, OthersKeep
  <2>6. CASE UNCHANGED railVars
    BY <2>6 DEF railVars, gatewayVars, shownVars, toggleVars, RailInv, RailTypeOK, ShownInv,
                WireOrder, StallInv, Overtaken
  <2> QED
    BY <2>1, <2>2, <2>3, <2>4, <2>5, <2>6 DEF RailNext
<1>2. RailInv => StallIsReal
  BY RailAssumption
     DEF RailInv, RailTypeOK, ShownInv, StallInv, Shows, StallIsReal, BoardChip, Chip, ShownSec,
         WarmingUp
<1> QED
  BY <1>1, <1>2, RailInitially, PTL DEF RailSpec, SwitchMovesRev
=============================================================================
