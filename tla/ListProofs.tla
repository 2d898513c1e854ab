------------------------------ MODULE ListProofs ------------------------------
(***************************************************************************)
(* Facts about sequences and finite sets that several proofs need:         *)
(* induction over a set, what a sequence folds into, lists without a       *)
(* repetition, and sorting.                                                *)
(***************************************************************************)
EXTENDS Sorting, Sequences, Functions, SequencesExt, SequenceTheorems, FiniteSetTheorems,
        WellFoundedInduction, TLAPS

-----------------------------------------------------------------------------
(* Induction, over sets: what a recursive definition gives can be told from it *)

\* A set of naturals has a least one.
LEMMA LeastNatural ==
  ASSUME NEW T \in SUBSET Nat, T # {}
  PROVE  \E n \in T : \A m \in T : n <= m
<1> DEFINE R == {p \in Nat \X Nat : p[1] < p[2]}
<1>1. IsWellFoundedOn(R, Nat)
  BY NatLessThanWellFounded DEF OpToRel
<1>2. \A m, n \in Nat : m < n => <<m, n>> \in R
  OBVIOUS
<1> HIDE DEF R
<1>3. PICK x \in T : \A y \in T : ~ (<<y, x>> \in R)
  <2>1. \E x \in T : \A y \in T : ~ (<<y, x>> \in R)
    BY <1>1, WFMin
  <2> QED BY <2>1
<1>4. \A y \in T : y \in Nat /\ ~(y < x)
  BY <1>2, <1>3
<1> QED
  BY <1>4

\* Induction up to n, over a set.
LEMMA UpTo ==
  ASSUME NEW n \in Nat, NEW T, 0 \in T, \A i \in 0..(n - 1) : i \in T => i + 1 \in T
  PROVE  0..n \subseteq T
<1> DEFINE Bad == {i \in 0..n : i \notin T}
<1> SUFFICES ASSUME Bad # {} PROVE FALSE
  OBVIOUS
<1>1. PICK m \in Bad : \A i \in Bad : m <= i
  <2>1. Bad \in SUBSET Nat
    OBVIOUS
  <2> HIDE DEF Bad
  <2> QED BY <2>1, LeastNatural
<1>2. m \in 1..n /\ m \notin T
  OBVIOUS
<1>3. m - 1 \notin Bad /\ m - 1 \in 0..(n - 1)
  BY <1>1, <1>2
<1>4. m - 1 \in T
  BY <1>3
<1>5. (m - 1) + 1 \in T
  BY <1>3, <1>4
<1> QED
  BY <1>2, <1>5

\* Induction over sequences, from the front.
LEMMA AppendInduction ==
  ASSUME NEW M, NEW T, <<>> \in T,
         \A q \in Seq(M), m \in M : q \in T => Append(q, m) \in T
  PROVE  Seq(M) \subseteq T
<1> SUFFICES ASSUME NEW q \in Seq(M) PROVE q \in T
  OBVIOUS
<1> DEFINE K == {i \in 0..Len(q) : SubSeq(q, 1, i) \in T}
<1>1. 0 \in K
  <2>1. SubSeq(q, 1, 0) = <<>> /\ 0 \in 0..Len(q)
    OBVIOUS
  <2>2. SubSeq(q, 1, 0) \in T
    BY <2>1
  <2> QED BY <2>1, <2>2
<1>2. ASSUME NEW i \in 0..(Len(q) - 1), i \in K PROVE i + 1 \in K
  <2>1. SubSeq(q, 1, i) \in Seq(M) /\ q[i + 1] \in M
    OBVIOUS
  <2>2. SubSeq(q, 1, i + 1) = Append(SubSeq(q, 1, i), q[i + 1]) /\ i + 1 \in 0..Len(q)
    OBVIOUS
  <2>3. SubSeq(q, 1, i + 1) \in T
    BY <1>2, <2>1, <2>2
  <2> QED BY <2>2, <2>3
<1>3. 0..Len(q) \subseteq K
  <2>1. Len(q) \in Nat
    OBVIOUS
  <2> HIDE DEF K
  <2> QED BY <1>1, <1>2, <2>1, UpTo
<1>4. SubSeq(q, 1, Len(q)) = q /\ Len(q) \in 0..Len(q)
  OBVIOUS
<1>5. SubSeq(q, 1, Len(q)) \in T
  BY <1>3, <1>4
<1> QED
  BY <1>4, <1>5

-----------------------------------------------------------------------------
(* Taking in a sequence, entry by entry *)

\* step says what the next value of S is after an entry of M.
IsStep(S, M, step) == step \in [S \X M -> S]

\* c is what s goes through as step takes in the entries of q.
Steps(c, S, step, s, q) ==
  /\ c \in [0..Len(q) -> S]
  /\ c[0] = s
  /\ \A i \in 1..Len(q) : c[i] = step[<<c[i - 1], q[i]>>]

\* ...and what it ends as.
RunOf(S, step, s, q) ==
  CHOOSE x \in S : \E c : Steps(c, S, step, s, q) /\ x = c[Len(q)]

LEMMA StepsUnique ==
  ASSUME NEW M, NEW q \in Seq(M), NEW S, NEW step, NEW s, NEW c, NEW d,
         Steps(c, S, step, s, q), Steps(d, S, step, s, q)
  PROVE  \A i \in 0..Len(q) : c[i] = d[i]
<1> DEFINE K == {i \in 0..Len(q) : c[i] = d[i]}
<1>1. 0 \in K
  BY DEF Steps
<1>2. ASSUME NEW i \in 0..(Len(q) - 1), i \in K PROVE i + 1 \in K
  <2>1. i + 1 \in 1..Len(q) /\ (i + 1) - 1 = i /\ i + 1 \in 0..Len(q)
    OBVIOUS
  <2>2. /\ c[i + 1] = step[<<c[(i + 1) - 1], q[i + 1]>>]
        /\ d[i + 1] = step[<<d[(i + 1) - 1], q[i + 1]>>]
    BY <2>1 DEF Steps
  <2>3. c[i] = d[i]
    BY <1>2
  <2> QED BY <2>1, <2>2, <2>3
<1>3. 0..Len(q) \subseteq K
  <2>1. Len(q) \in Nat
    OBVIOUS
  <2> HIDE DEF K
  <2> QED BY <1>1, <1>2, <2>1, UpTo
<1> QED
  BY <1>3

LEMMA RunIs ==
  ASSUME NEW M, NEW q \in Seq(M), NEW S, NEW step, NEW s, NEW c, Steps(c, S, step, s, q)
  PROVE  RunOf(S, step, s, q) = c[Len(q)] /\ c[Len(q)] \in S
<1>1. Len(q) \in 0..Len(q) /\ c[Len(q)] \in S
  BY DEF Steps
<1>2. ASSUME NEW d, Steps(d, S, step, s, q) PROVE d[Len(q)] = c[Len(q)]
  BY <1>1, <1>2, StepsUnique
<1>3. \A x \in S : (\E d : Steps(d, S, step, s, q) /\ x = d[Len(q)]) => x = c[Len(q)]
  BY <1>2
<1>4. \E x \in S : \E d : Steps(d, S, step, s, q) /\ x = d[Len(q)]
  BY <1>1
<1> QED
  BY <1>1, <1>3, <1>4 DEF RunOf

LEMMA StepsAppend ==
  ASSUME NEW M, NEW q \in Seq(M), NEW m \in M, NEW S, NEW step, IsStep(S, M, step),
         NEW s \in S, NEW c, Steps(c, S, step, s, q)
  PROVE  \E d : /\ Steps(d, S, step, s, Append(q, m))
                /\ d[Len(Append(q, m))] = step[<<c[Len(q)], m>>]
<1> DEFINE n == Len(q)
           r == Append(q, m)
           last == step[<<c[n], m>>]
           d == [i \in 0..(n + 1) |-> IF i <= n THEN c[i] ELSE last]
<1>1. /\ n \in Nat /\ Len(r) = n + 1
      /\ \A i \in 1..n : r[i] = q[i]
      /\ r[n + 1] = m
  OBVIOUS
<1>2. /\ c \in [0..n -> S] /\ c[0] = s
      /\ \A i \in 1..n : c[i] = step[<<c[i - 1], q[i]>>]
  BY DEF Steps
<1>3. last \in S
  BY <1>1, <1>2 DEF IsStep
<1> HIDE DEF n, r
<1>4. /\ \A i \in 0..n : d[i] = c[i]
      /\ d[n + 1] = last
      /\ d \in [0..(n + 1) -> S]
  <2> HIDE DEF last
  <2> QED BY <1>1, <1>2, <1>3
<1> HIDE DEF d
<1>5. ASSUME NEW i \in 1..(n + 1) PROVE d[i] = step[<<d[i - 1], r[i]>>]
  <2>1. CASE i \in 1..n
    <3>1. i \in 0..n /\ i - 1 \in 0..n
      BY <1>1, <2>1
    <3> QED BY <1>1, <1>2, <1>4, <2>1, <3>1
  <2>2. CASE i = n + 1
    <3>1. i - 1 = n /\ n \in 0..n
      BY <1>1, <2>2
    <3> QED BY <1>1, <1>4, <2>2, <3>1
  <2> QED BY <1>1, <2>1, <2>2
<1>6. Steps(d, S, step, s, r)
  BY <1>1, <1>2, <1>4, <1>5 DEF Steps
<1>7. d[Len(r)] = last
  BY <1>1, <1>4
<1> QED
  BY <1>6, <1>7 DEF r, n

LEMMA StepsExist ==
  ASSUME NEW M, NEW q \in Seq(M), NEW S, NEW step, IsStep(S, M, step), NEW s \in S
  PROVE  \E c : Steps(c, S, step, s, q)
<1> DEFINE T == {r \in Seq(M) : \E c : Steps(c, S, step, s, r)}
<1>1. <<>> \in T
  <2>1. Steps([i \in 0..0 |-> s], S, step, s, <<>>)
    BY DEF Steps
  <2>2. <<>> \in Seq(M)
    OBVIOUS
  <2> QED BY <2>1, <2>2
<1>2. ASSUME NEW r \in Seq(M), NEW m \in M, r \in T PROVE Append(r, m) \in T
  <2>1. PICK c : Steps(c, S, step, s, r)
    BY <1>2
  <2>2. \E d : Steps(d, S, step, s, Append(r, m))
    BY <2>1, StepsAppend
  <2>3. Append(r, m) \in Seq(M)
    OBVIOUS
  <2> QED BY <2>2, <2>3
<1>3. Seq(M) \subseteq T
  <2> HIDE DEF T
  <2> QED BY <1>1, <1>2, AppendInduction
<1> QED
  BY <1>3

LEMMA RunType ==
  ASSUME NEW M, NEW q \in Seq(M), NEW S, NEW step, IsStep(S, M, step), NEW s \in S
  PROVE  RunOf(S, step, s, q) \in S
<1>1. PICK c : Steps(c, S, step, s, q)
  BY StepsExist
<1> QED
  BY <1>1, RunIs

LEMMA RunEmpty ==
  ASSUME NEW S, NEW step, NEW s \in S
  PROVE  RunOf(S, step, s, <<>>) = s
<1> DEFINE d == [i \in 0..0 |-> s]
<1>1. Steps(d, S, step, s, <<>>) /\ d[Len(<<>>)] = s /\ <<>> \in Seq({})
  BY DEF Steps
<1> HIDE DEF d
<1>2. RunOf(S, step, s, <<>>) = d[Len(<<>>)]
  BY <1>1, RunIs
<1> QED
  BY <1>1, <1>2

LEMMA RunAppend ==
  ASSUME NEW M, NEW q \in Seq(M), NEW m \in M, NEW S, NEW step, IsStep(S, M, step), NEW s \in S
  PROVE  RunOf(S, step, s, Append(q, m)) = step[<<RunOf(S, step, s, q), m>>]
<1>1. PICK c : Steps(c, S, step, s, q)
  BY StepsExist
<1>2. RunOf(S, step, s, q) = c[Len(q)]
  BY <1>1, RunIs
<1>3. PICK d : /\ Steps(d, S, step, s, Append(q, m))
               /\ d[Len(Append(q, m))] = step[<<c[Len(q)], m>>]
  BY <1>1, StepsAppend
<1>4. Append(q, m) \in Seq(M)
  OBVIOUS
<1>5. RunOf(S, step, s, Append(q, m)) = d[Len(Append(q, m))]
  BY <1>3, <1>4, RunIs
<1> QED
  BY <1>2, <1>3, <1>5

\* A run over two sequences is one after the other.
LEMMA RunConcat ==
  ASSUME NEW M, NEW p \in Seq(M), NEW q \in Seq(M), NEW S, NEW step, IsStep(S, M, step),
         NEW s \in S
  PROVE  RunOf(S, step, s, p \o q) = RunOf(S, step, RunOf(S, step, s, p), q)
<1> DEFINE t == RunOf(S, step, s, p)
           T == {r \in Seq(M) : RunOf(S, step, s, p \o r) = RunOf(S, step, t, r)}
<1>1. t \in S
  BY RunType
<1> HIDE DEF t
<1>2. \A x \in S, r \in Seq(M), m \in M :
        RunOf(S, step, x, Append(r, m)) = step[<<RunOf(S, step, x, r), m>>]
  BY RunAppend
<1>3. <<>> \in T
  <2>1. p \o <<>> = p /\ <<>> \in Seq(M)
    OBVIOUS
  <2> QED BY <1>1, <2>1, RunEmpty DEF t
<1>4. ASSUME NEW r \in Seq(M), NEW m \in M, r \in T PROVE Append(r, m) \in T
  <2>1. /\ p \o Append(r, m) = Append(p \o r, m)
        /\ p \o r \in Seq(M) /\ Append(r, m) \in Seq(M)
    OBVIOUS
  <2>2. RunOf(S, step, s, Append(p \o r, m)) = step[<<RunOf(S, step, s, p \o r), m>>]
    BY <1>2, <2>1, Zenon
  <2>3. RunOf(S, step, t, Append(r, m)) = step[<<RunOf(S, step, t, r), m>>]
    BY <1>1, <1>2, Zenon
  <2>4. RunOf(S, step, s, p \o Append(r, m)) = RunOf(S, step, t, Append(r, m))
    BY <1>4, <2>1, <2>2, <2>3
  <2> QED BY <2>1, <2>4
<1>5. Seq(M) \subseteq T
  <2> HIDE DEF T
  <2> QED BY <1>3, <1>4, AppendInduction
<1> QED
  BY <1>5 DEF t

-----------------------------------------------------------------------------
(* Sequences without a repetition *)

\* SetToSeq lists a finite set, each element once.
LEMMA Listed ==
  ASSUME NEW S, IsFiniteSet(S)
  PROVE  SetToSeq(S) \in Seq(S) /\ IsInjective(SetToSeq(S)) /\ Range(SetToSeq(S)) = S
<1>1. Cardinality(S) \in Nat /\ ExistsBijection(1 .. Cardinality(S), S)
  BY FS_CardinalityType
<1>2. PICK f \in Bijection(1 .. Cardinality(S), S) : TRUE
  BY <1>1 DEF ExistsBijection
<1>3. f \in [1 .. Cardinality(S) -> S] /\ IsInjective(f)
  BY <1>2 DEF Bijection, Injection
<1>4. SetToSeq(S) \in [1 .. Cardinality(S) -> S] /\ IsInjective(SetToSeq(S))
  BY <1>3 DEF SetToSeq
<1>5. SetToSeq(S) \in Seq(S)
  BY <1>1, <1>4
<1>6. Range(SetToSeq(S)) = S
  <2> DEFINE g == SetToSeq(S)
  <2>1. g \in Injection(1 .. Cardinality(S), S)
    BY <1>4 DEF Injection
  <2>2. IsFiniteSet(1 .. Cardinality(S)) /\ Cardinality(1 .. Cardinality(S)) = Cardinality(S)
    BY <1>1, FS_Interval
  <2>3. g \in Surjection(1 .. Cardinality(S), S)
    BY <2>1, <2>2, FS_Injection
  <2> QED  BY <2>3 DEF Surjection, Range
<1> QED  BY <1>4, <1>5, <1>6

\* Of two lists without a repetition and nothing in common, either order has none.
LEMMA Joined ==
  ASSUME NEW T, NEW s \in Seq(T), NEW t \in Seq(T)
  PROVE  /\ s \o t \in Seq(T)
         /\ Range(s \o t) = Range(s) \cup Range(t)
         /\ IsInjective(s \o t) <=>
              IsInjective(s) /\ IsInjective(t) /\ Range(s) \cap Range(t) = {}
<1>1. /\ s \o t \in Seq(T) /\ DOMAIN (s \o t) = 1 .. Len(s) + Len(t)
      /\ DOMAIN s = 1 .. Len(s) /\ DOMAIN t = 1 .. Len(t) /\ Len(s) \in Nat /\ Len(t) \in Nat
      /\ \A i \in 1 .. Len(s) : (s \o t)[i] = s[i]
      /\ \A i \in 1 .. Len(t) : (s \o t)[Len(s) + i] = t[i]
  OBVIOUS
<1>2. Range(s \o t) = Range(s) \cup Range(t)
  BY RangeConcatenation
<1>3. ASSUME IsInjective(s), IsInjective(t), Range(s) \cap Range(t) = {}
      PROVE  IsInjective(s \o t)
  <2> SUFFICES ASSUME NEW a \in 1 .. Len(s) + Len(t), NEW b \in 1 .. Len(s) + Len(t),
                      (s \o t)[a] = (s \o t)[b]
               PROVE  a = b
    BY <1>1 DEF IsInjective
  <2>1. \A i \in 1 .. Len(s) + Len(t) : i \in 1 .. Len(s) \/ \E j \in 1 .. Len(t) : i = Len(s) + j
    <3>1. ASSUME NEW i \in 1 .. Len(s) + Len(t), i \notin 1 .. Len(s)
          PROVE  \E j \in 1 .. Len(t) : i = Len(s) + j
      <4>1. i - Len(s) \in 1 .. Len(t) /\ i = Len(s) + (i - Len(s))
        BY <1>1, <3>1
      <4> QED  BY <4>1
    <3> QED  BY <3>1
  <2>2. \A i \in 1 .. Len(s) : s[i] \in Range(s)
    BY <1>1 DEF Range
  <2>3. \A i \in 1 .. Len(t) : t[i] \in Range(t)
    BY <1>1 DEF Range
  <2>4. CASE a \in 1 .. Len(s) /\ b \in 1 .. Len(s)
    BY <1>1, <1>3, <2>4 DEF IsInjective
  <2>5. CASE a \in 1 .. Len(s) /\ b \notin 1 .. Len(s)
    BY <1>1, <1>3, <2>1, <2>2, <2>3, <2>5
  <2>6. CASE a \notin 1 .. Len(s) /\ b \in 1 .. Len(s)
    BY <1>1, <1>3, <2>1, <2>2, <2>3, <2>6
  <2>7. CASE a \notin 1 .. Len(s) /\ b \notin 1 .. Len(s)
    <3>1. PICK i \in 1 .. Len(t) : a = Len(s) + i
      BY <2>1, <2>7
    <3>2. PICK j \in 1 .. Len(t) : b = Len(s) + j
      BY <2>1, <2>7
    <3> QED  BY <1>1, <1>3, <3>1, <3>2, ZenonT(60) DEF IsInjective
  <2> QED  BY <2>4, <2>5, <2>6, <2>7
<1>4. ASSUME IsInjective(s \o t)
      PROVE  IsInjective(s) /\ IsInjective(t) /\ Range(s) \cap Range(t) = {}
  <2>1. IsInjective(s)
    <3> SUFFICES ASSUME NEW a \in 1 .. Len(s), NEW b \in 1 .. Len(s), s[a] = s[b]
                 PROVE  a = b
      BY <1>1 DEF IsInjective
    <3>1. a \in 1 .. Len(s) + Len(t) /\ b \in 1 .. Len(s) + Len(t)
      BY <1>1
    <3> QED  BY <1>1, <1>4, <3>1 DEF IsInjective
  <2>2. IsInjective(t)
    <3> SUFFICES ASSUME NEW a \in 1 .. Len(t), NEW b \in 1 .. Len(t), t[a] = t[b]
                 PROVE  a = b
      BY <1>1 DEF IsInjective
    <3>1. Len(s) + a \in 1 .. Len(s) + Len(t) /\ Len(s) + b \in 1 .. Len(s) + Len(t)
      BY <1>1
    <3>2. Len(s) + a = Len(s) + b
      BY <1>1, <1>4, <3>1 DEF IsInjective
    <3> QED  BY <1>1, <3>2
  <2>3. Range(s) \cap Range(t) = {}
    <3> SUFFICES ASSUME NEW a \in 1 .. Len(s), NEW b \in 1 .. Len(t), s[a] = t[b]
                 PROVE  FALSE
      BY <1>1 DEF Range
    <3>1. a \in 1 .. Len(s) + Len(t) /\ Len(s) + b \in 1 .. Len(s) + Len(t) /\ a # Len(s) + b
      BY <1>1
    <3> QED  BY <1>1, <1>4, <3>1 DEF IsInjective
  <2> QED  BY <2>1, <2>2, <2>3
<1> QED  BY <1>1, <1>2, <1>3, <1>4

-----------------------------------------------------------------------------
(* Sorting *)

\* before orders S strictly and totally.
Orders(before, S) ==
  /\ \A x \in S : <<x, x>> \notin before
  /\ \A x, y \in S : x # y => <<x, y>> \in before \/ <<y, x>> \in before
  /\ \A x, y, z \in S : <<x, y>> \in before /\ <<y, z>> \in before => <<x, z>> \in before

Before(S, before, x) == {y \in S : <<y, x>> \in before}

\* Ranks are in order, so no two are the same, and every number below S's size is one.
LEMMA Ranks ==
  ASSUME NEW S, IsFiniteSet(S), NEW before, Orders(before, S)
  PROVE  /\ Cardinality(S) \in Nat
         /\ \A x \in S : Cardinality(Before(S, before, x)) \in Nat
         /\ \A x, y \in S : <<x, y>> \in before =>
              Cardinality(Before(S, before, x)) < Cardinality(Before(S, before, y))
         /\ \A k \in 1 .. Cardinality(S) : \E x \in S : Cardinality(Before(S, before, x)) = k - 1
<1> DEFINE n == Cardinality(S)
           rank == [x \in S |-> Cardinality(Before(S, before, x))]
<1>1. n \in Nat
  BY FS_CardinalityType
<1>2. \A x \in S : /\ Before(S, before, x) \in SUBSET S
                   /\ IsFiniteSet(Before(S, before, x)) /\ rank[x] \in Nat
  <2>1. \A x \in S : Before(S, before, x) \in SUBSET S
    BY DEF Before
  <2> QED BY <2>1, FS_Subset, FS_CardinalityType
<1>3. \A x \in S : rank[x] = Cardinality(Before(S, before, x))
  OBVIOUS
<1>4. rank = [x \in S |-> rank[x]]
  OBVIOUS
<1> HIDE DEF rank
<1>5. ASSUME NEW x \in S, NEW y \in S, <<x, y>> \in before
      PROVE  rank[x] < rank[y]
  <2>1. /\ Before(S, before, x) \subseteq Before(S, before, y)
        /\ x \in Before(S, before, y) /\ x \notin Before(S, before, x)
    BY <1>5 DEF Orders, Before
  <2>2. rank[x] <= rank[y] /\ rank[x] # rank[y]
    BY <1>2, <1>3, <2>1, FS_Subset
  <2> QED BY <1>2, <2>2
<1>6. \A x \in S : rank[x] \in 0 .. n - 1
  <2> SUFFICES ASSUME NEW x \in S PROVE rank[x] \in 0 .. n - 1
    OBVIOUS
  <2>1. Before(S, before, x) # S
    BY DEF Orders, Before
  <2>2. rank[x] <= n /\ rank[x] # n
    BY <1>2, <1>3, <2>1, FS_Subset
  <2> QED BY <1>1, <1>2, <2>2
<1>7. \A x, y \in S : rank[x] = rank[y] => x = y
  <2>1. \A x \in S : rank[x] \in Int
    BY <1>6
  <2>2. \A x, y \in S : x # y => rank[x] < rank[y] \/ rank[y] < rank[x]
    BY <1>5 DEF Orders
  <2> QED BY <2>1, <2>2
<1>8. rank \in Injection(S, 0 .. n - 1)
  BY <1>4, <1>6, <1>7 DEF Injection, IsInjective
<1>9. rank \in Surjection(S, 0 .. n - 1)
  <2>1. IsFiniteSet(0 .. n - 1) /\ Cardinality(0 .. n - 1) = n
    BY <1>1, FS_Interval
  <2> QED BY <1>8, <2>1, FS_Injection
<1>10. \A k \in 1 .. n : \E x \in S : rank[x] = k - 1
  <2>1. \A k \in 1 .. n : k - 1 \in 0 .. n - 1
    BY <1>1
  <2> QED BY <1>9, <2>1 DEF Surjection
<1> QED BY <1>1, <1>2, <1>3, <1>5, <1>10

\* A list by rank has each member of S once, in order.
LEMMA RankedList ==
  ASSUME NEW S, IsFiniteSet(S), NEW before, Orders(before, S),
         NEW q \in [1 .. Cardinality(S) -> S],
         \A k \in 1 .. Cardinality(S) : Cardinality(Before(S, before, q[k])) = k - 1
  PROVE  /\ q \in Bijection(1 .. Cardinality(S), S)
         /\ \A k, l \in 1 .. Cardinality(S) : k < l => <<q[k], q[l]>> \in before
<1> DEFINE n == Cardinality(S)
           rank(x) == Cardinality(Before(S, before, x))
<1>1. n \in Nat /\ \A x, y \in S : <<x, y>> \in before => rank(x) < rank(y)
  BY Ranks
<1> HIDE DEF n, rank
<1>2. \A k \in 1 .. n : q[k] \in S /\ rank(q[k]) = k - 1
  BY DEF n, rank
<1>3. q \in Injection(1 .. n, S)
  <2>1. \A k, l \in 1 .. n : q[k] = q[l] => k = l
    BY <1>1, <1>2
  <2> QED BY <2>1 DEF Injection, IsInjective, n
<1>4. q \in Bijection(1 .. n, S)
  <2>1. Cardinality(1 .. n) = Cardinality(S)
    BY <1>1, FS_Interval DEF n
  <2> QED BY <1>3, <2>1, FS_Injection DEF Bijection
<1>5. ASSUME NEW k \in 1 .. n, NEW l \in 1 .. n, k < l
      PROVE  <<q[k], q[l]>> \in before
  <2>1. q[k] \in S /\ q[l] \in S /\ rank(q[k]) = k - 1 /\ rank(q[l]) = l - 1
    BY <1>2
  <2>2. q[k] # q[l] /\ ~(rank(q[l]) < rank(q[k]))
    BY <1>1, <1>5, <2>1
  <2> QED BY <1>1, <2>1, <2>2 DEF Orders
<1> QED BY <1>4, <1>5 DEF n

LEMMA SortedFacts ==
  ASSUME NEW S, IsFiniteSet(S), NEW before, Orders(before, S)
  PROVE  /\ Sorted(S, before) \in Bijection(1 .. Cardinality(S), S)
         /\ \A k, l \in 1 .. Cardinality(S) :
              k < l => <<Sorted(S, before)[k], Sorted(S, before)[l]>> \in before
<1> DEFINE q == Sorted(S, before)
<1>1. q = [k \in 1 .. Cardinality(S) |-> CHOOSE x \in S : Cardinality(Before(S, before, x)) = k - 1]
  BY DEF Sorted, Before
<1> HIDE DEF q
<1>2. \A k \in 1 .. Cardinality(S) : q[k] \in S /\ Cardinality(Before(S, before, q[k])) = k - 1
  BY <1>1, Ranks
<1>3. q \in [1 .. Cardinality(S) -> S]
  BY <1>1, <1>2
<1> QED BY <1>2, <1>3, RankedList DEF q

\* A stable sort has the entries at the indices, each once, by key.
LEMMA StableSortFacts ==
  ASSUME NEW I \in SUBSET Int, IsFiniteSet(I), NEW key \in [I -> Int], NEW s
  PROVE  \E at \in Bijection(1 .. Cardinality(I), I) :
           /\ StableSort(s, key) = [k \in 1 .. Cardinality(I) |-> s[at[k]]]
           /\ \A k, l \in 1 .. Cardinality(I) : k < l => key[at[k]] <= key[at[l]]
<1> DEFINE before == {p \in I \X I : \/ key[p[1]] < key[p[2]]
                                     \/ key[p[1]] = key[p[2]] /\ p[1] < p[2]}
           rank(i) == Cardinality({j \in I : key[j] < key[i] \/ (key[j] = key[i] /\ j < i)})
           at == [k \in 1 .. Cardinality(I) |-> CHOOSE i \in I : rank(i) = k - 1]
<1>1. \A i, j \in I : <<i, j>> \in before <=> key[i] < key[j] \/ (key[i] = key[j] /\ i < j)
  OBVIOUS
<1>2. \A i \in I : key[i] \in Int /\ i \in Int
  OBVIOUS
<1>3. StableSort(s, key) = [k \in 1 .. Cardinality(I) |-> s[at[k]]]
  BY DEF StableSort
<1> HIDE DEF before
<1>4. Orders(before, I)
  BY <1>1, <1>2 DEF Orders
<1>5. \A i \in I : rank(i) = Cardinality(Before(I, before, i))
  <2> SUFFICES ASSUME NEW i \in I
               PROVE  {j \in I : key[j] < key[i] \/ (key[j] = key[i] /\ j < i)} = Before(I, before, i)
    OBVIOUS
  <2> QED BY <1>1 DEF Before
<1> HIDE DEF rank
<1>6. \A k \in 1 .. Cardinality(I) : at[k] \in I /\ rank(at[k]) = k - 1
  BY <1>4, <1>5, Ranks
<1>7. at \in [1 .. Cardinality(I) -> I]
  BY <1>6
<1> HIDE DEF at
<1>8. \A k \in 1 .. Cardinality(I) : Cardinality(Before(I, before, at[k])) = k - 1
  BY <1>5, <1>6
<1>9. /\ at \in Bijection(1 .. Cardinality(I), I)
      /\ \A k, l \in 1 .. Cardinality(I) : k < l => <<at[k], at[l]>> \in before
  BY <1>4, <1>7, <1>8, RankedList
<1>10. \A k, l \in 1 .. Cardinality(I) : k < l => key[at[k]] <= key[at[l]]
  <2> SUFFICES ASSUME NEW k \in 1 .. Cardinality(I), NEW l \in 1 .. Cardinality(I), k < l
               PROVE  key[at[k]] <= key[at[l]]
    OBVIOUS
  <2>1. at[k] \in I /\ at[l] \in I /\ <<at[k], at[l]>> \in before
    BY <1>6, <1>9
  <2>2. key[at[k]] < key[at[l]] \/ key[at[k]] = key[at[l]]
    BY <1>1, <2>1
  <2>3. key[at[k]] \in Int /\ key[at[l]] \in Int
    BY <1>2, <2>1
  <2> QED BY <2>2, <2>3
<1> QED BY <1>3, <1>9, <1>10

\* Sorting puts nothing into a list that it did not have.
LEMMA StableSortType ==
  ASSUME NEW T, NEW s, NEW I \in SUBSET Int, IsFiniteSet(I), NEW key \in [I -> Int],
         \A i \in I : s[i] \in T
  PROVE  StableSort(s, key) \in Seq(T)
<1> DEFINE n == Cardinality(I)
<1>1. PICK at \in Bijection(1 .. n, I) : StableSort(s, key) = [k \in 1 .. n |-> s[at[k]]]
  BY StableSortFacts
<1>2. n \in Nat
  BY FS_CardinalityType
<1> HIDE DEF n
<1>3. \A k \in 1 .. n : s[at[k]] \in T
  BY DEF Bijection, Injection
<1>4. [k \in 1 .. n |-> s[at[k]]] \in Seq(T)
  BY <1>2, <1>3
<1> QED  BY <1>1, <1>4
=============================================================================
