---------------------------- MODULE Subsequences ----------------------------
(***************************************************************************)
(* A part of a sequence in its order: what iter().filter(..).collect() and *)
(* retain leave.  The lemmas say what such a part has, for every sequence. *)
(* A recursive function is reasoned about by its least counterexample.     *)
(***************************************************************************)
EXTENDS Integers, Sequences, WellFoundedInduction, TLAPS

\* The elements of s at the places in I.
Subsequence(s, I) ==
  LET upTo[n \in 0 .. Len(s)] ==
        IF n = 0 THEN <<>>
        ELSE IF n \in I THEN Append(upTo[n - 1], s[n]) ELSE upTo[n - 1]
  IN  upTo[Len(s)]

-----------------------------------------------------------------------------
\* Every set of naturals that is not empty has a least element: an induction over n is
\* a proof that the set of its counterexamples has none.
LEMMA LeastNatural ==
  ASSUME NEW T \in SUBSET Nat, T # {}
  PROVE  \E n \in T : \A m \in T : n <= m
<1>1. PICK n \in T : \A m \in T : ~(<<m, n>> \in OpToRel(<, Nat))
  BY WFMin, NatLessThanWellFounded
<1>2. \A m \in T : ~(m < n)
  BY <1>1 DEF OpToRel
<1> QED BY <1>2

\* What the recursion says at one place.
SubseqStep(s, I, f, n) ==
  f[n] = IF n = 0 THEN <<>>
         ELSE IF n \in I THEN Append(f[n - 1], s[n]) ELSE f[n - 1]

\* A solution of the recursion up to place m.
Solves(S, s, I, m, f) ==
  f \in [0 .. m -> Seq(S)] /\ \A n \in 0 .. m : SubseqStep(s, I, f, n)
Solved(S, s, I, m) == \E f : Solves(S, s, I, m, f)

LEMMA SolvedAtZero ==
  ASSUME NEW S, NEW s \in Seq(S), NEW I
  PROVE  Solved(S, s, I, 0)
<1> DEFINE g == [n \in 0 .. 0 |-> <<>>]
<1>1. g \in [0 .. 0 -> Seq(S)]
  OBVIOUS
<1>2. \A n \in 0 .. 0 : SubseqStep(s, I, g, n)
  BY DEF SubseqStep
<1>3. Solves(S, s, I, 0, g)
  BY <1>1, <1>2 DEF Solves
<1> QED BY <1>3 DEF Solved

LEMMA SolvedFurther ==
  ASSUME NEW S, NEW s \in Seq(S), NEW I, NEW m \in 1 .. Len(s), Solved(S, s, I, m - 1)
  PROVE  Solved(S, s, I, m)
<1>1. PICK f : Solves(S, s, I, m - 1, f)
  BY DEF Solved
<1>f. f \in [0 .. m - 1 -> Seq(S)] /\ \A n \in 0 .. m - 1 : SubseqStep(s, I, f, n)
  BY <1>1 DEF Solves
<1> DEFINE next == IF m \in I THEN Append(f[m - 1], s[m]) ELSE f[m - 1]
           g == [n \in 0 .. m |-> IF n = m THEN next ELSE f[n]]
<1>2. next \in Seq(S)
  <2>1. f[m - 1] \in Seq(S) /\ s[m] \in S
    BY <1>f
  <2> QED BY <2>1
<1> HIDE DEF next
<1>3. g \in [0 .. m -> Seq(S)]
  BY <1>2, <1>f
<1>4. ASSUME NEW n \in 0 .. m PROVE SubseqStep(s, I, g, n)
  <2>1. CASE n = m
    <3>1. g[m] = next /\ g[m - 1] = f[m - 1] /\ m # 0
      OBVIOUS
    <3> QED BY <3>1, <2>1 DEF SubseqStep, next
  <2>2. CASE n # m
    <3>1. n \in 0 .. m - 1 /\ g[n] = f[n] /\ (n # 0 => g[n - 1] = f[n - 1])
      BY <2>2
    <3> QED BY <3>1, <1>f DEF SubseqStep
  <2> QED BY <2>1, <2>2
<1>5. Solves(S, s, I, m, g)
  BY <1>3, <1>4 DEF Solves
<1> QED BY <1>5 DEF Solved

LEMMA SubseqSolution ==
  ASSUME NEW S, NEW s \in Seq(S), NEW I, NEW k \in 0 .. Len(s)
  PROVE  Solved(S, s, I, k)
<1> DEFINE Bad == {m \in 0 .. Len(s) : ~Solved(S, s, I, m)}
<1>1. SUFFICES ASSUME Bad # {} PROVE FALSE
  OBVIOUS
<1>s. Bad \in SUBSET Nat
  OBVIOUS
<1>2. PICK m \in Bad : \A j \in Bad : m <= j
  <2> HIDE DEF Bad
  <2> QED BY <1>1, <1>s, LeastNatural
<1>3. m \in 0 .. Len(s) /\ ~Solved(S, s, I, m)
  OBVIOUS
<1>4. m # 0
  BY <1>3, SolvedAtZero
<1>5. m \in 1 .. Len(s) /\ m - 1 \in 0 .. Len(s) /\ m - 1 < m
  BY <1>3, <1>4
<1>6. Solved(S, s, I, m - 1)
  BY <1>5, <1>2
<1> QED BY <1>3, <1>5, <1>6, SolvedFurther

LEMMA SubseqUnfold ==
  ASSUME NEW S, NEW s \in Seq(S), NEW I
  PROVE  \E f : Solves(S, s, I, Len(s), f) /\ Subsequence(s, I) = f[Len(s)]
<1> DEFINE Eq(h) == h = [n \in 0 .. Len(s) |->
                IF n = 0 THEN <<>> ELSE IF n \in I THEN Append(h[n - 1], s[n]) ELSE h[n - 1]]
           h == CHOOSE x : Eq(x)
<1>0. Len(s) \in Nat /\ Len(s) \in 0 .. Len(s)
  OBVIOUS
<1>1. PICK f : Solves(S, s, I, Len(s), f)
  BY <1>0, SubseqSolution DEF Solved
<1>f. f \in [0 .. Len(s) -> Seq(S)] /\ \A n \in 0 .. Len(s) : SubseqStep(s, I, f, n)
  BY <1>1 DEF Solves
<1>2. Eq(f)
  BY <1>f DEF SubseqStep
<1>3. Eq(h)
  BY <1>2
<1>4. Subsequence(s, I) = h[Len(s)]
  BY DEF Subsequence
<1>5. \A n \in 0 .. Len(s) : SubseqStep(s, I, h, n)
  BY <1>3 DEF SubseqStep
<1>6. h = f
  <2>1. DOMAIN h = 0 .. Len(s) /\ h = [n \in 0 .. Len(s) |-> h[n]]
    BY <1>3
  <2> HIDE DEF h
  <2> DEFINE Bad == {n \in 0 .. Len(s) : h[n] # f[n]}
  <2>2. SUFFICES ASSUME Bad # {} PROVE FALSE
    BY <2>1, <1>f
  <2>s. Bad \in SUBSET Nat
    OBVIOUS
  <2>3. PICK n \in Bad : \A j \in Bad : n <= j
    <3> HIDE DEF Bad
    <3> QED BY <2>2, <2>s, LeastNatural
  <2>4. n \in 0 .. Len(s) /\ h[n] # f[n]
    OBVIOUS
  <2>5. n # 0 => h[n - 1] = f[n - 1]
    BY <2>3, <2>4
  <2> QED BY <2>4, <2>5, <1>5, <1>f DEF SubseqStep
<1> HIDE DEF h
<1> QED BY <1>1, <1>4, <1>6

\* What the first n places of s contribute.
PartsFrom(s, I, n, r) == \A k \in 1 .. Len(r) : \E i \in 1 .. n : i \in I /\ r[k] = s[i]
PartsOrder(s, I, n, r) ==
  \A k, l \in 1 .. Len(r) : k < l =>
    \E i, j \in 1 .. n : i < j /\ i \in I /\ j \in I /\ r[k] = s[i] /\ r[l] = s[j]
PartsAll(s, I, n, r) == \A i \in 1 .. n : i \in I => \E k \in 1 .. Len(r) : r[k] = s[i]
PartsWhole(s, I, n, r) == (1 .. n) \subseteq I => Len(r) = n /\ \A i \in 1 .. n : r[i] = s[i]
SubseqParts(S, s, I, n, r) ==
  /\ r \in Seq(S) /\ Len(r) <= n
  /\ PartsFrom(s, I, n, r) /\ PartsOrder(s, I, n, r) /\ PartsAll(s, I, n, r) /\ PartsWhole(s, I, n, r)

\* A place that is taken adds its element at the end.
LEMMA PartsTaken ==
  ASSUME NEW S, NEW s \in Seq(S), NEW I, NEW n \in 1 .. Len(s), n \in I,
         NEW p, SubseqParts(S, s, I, n - 1, p)
  PROVE  SubseqParts(S, s, I, n, Append(p, s[n]))
<1> DEFINE r == Append(p, s[n])
<1>0. p \in Seq(S) /\ Len(p) <= n - 1 /\ s[n] \in S /\ Len(p) \in Nat /\ n - 1 \in Nat
  BY DEF SubseqParts
<1>1. /\ r \in Seq(S) /\ Len(r) = Len(p) + 1 /\ r[Len(r)] = s[n]
      /\ \A k \in 1 .. Len(p) : r[k] = p[k]
  BY <1>0
<1> HIDE DEF r
<1>2. Len(r) <= n /\ Len(r) \in 1 .. Len(r)
  BY <1>0, <1>1
<1>m. \A i \in 1 .. n - 1 : i \in 1 .. n /\ i < n
  OBVIOUS
<1>3. \A k \in 1 .. Len(r) : k # Len(r) => k \in 1 .. Len(p) /\ r[k] = p[k]
  BY <1>0, <1>1
<1>4. PartsFrom(s, I, n, r)
  <2>1. SUFFICES ASSUME NEW k \in 1 .. Len(r) PROVE \E i \in 1 .. n : i \in I /\ r[k] = s[i]
    BY DEF PartsFrom
  <2>2. CASE k = Len(r)
    BY <2>2, <1>1
  <2>3. CASE k # Len(r)
    <3>1. PICK i \in 1 .. n - 1 : i \in I /\ p[k] = s[i]
      BY <2>3, <1>3 DEF SubseqParts, PartsFrom
    <3> QED BY <3>1, <1>3, <2>3, <1>m
  <2> QED BY <2>2, <2>3
<1>5. PartsOrder(s, I, n, r)
  <2>1. SUFFICES ASSUME NEW k \in 1 .. Len(r), NEW l \in 1 .. Len(r), k < l
                 PROVE  \E i, j \in 1 .. n : i < j /\ i \in I /\ j \in I /\ r[k] = s[i] /\ r[l] = s[j]
    BY DEF PartsOrder
  <2>2. k \in 1 .. Len(p) /\ r[k] = p[k]
    <3>1. k # Len(r)
      BY <2>1, <1>1, <1>0
    <3> QED BY <3>1, <1>3
  <2>3. CASE l = Len(r)
    <3>1. PICK i \in 1 .. n - 1 : i \in I /\ p[k] = s[i]
      BY <2>2 DEF SubseqParts, PartsFrom
    <3>2. i \in 1 .. n /\ i < n /\ n \in 1 .. n
      BY <1>m
    <3> QED BY <3>1, <3>2, <2>2, <2>3, <1>1
  <2>4. CASE l # Len(r)
    <3>1. l \in 1 .. Len(p) /\ r[l] = p[l]
      BY <2>4, <1>3
    <3>2. PICK i, j \in 1 .. n - 1 : i < j /\ i \in I /\ j \in I /\ p[k] = s[i] /\ p[l] = s[j]
      BY <3>1, <2>2, <2>1 DEF SubseqParts, PartsOrder
    <3>3. i \in 1 .. n /\ j \in 1 .. n
      BY <1>m
    <3> QED BY <3>1, <3>2, <3>3, <2>2
  <2> QED BY <2>3, <2>4
<1>6. PartsAll(s, I, n, r)
  <2>1. SUFFICES ASSUME NEW i \in 1 .. n, i \in I PROVE \E k \in 1 .. Len(r) : r[k] = s[i]
    BY DEF PartsAll
  <2>2. CASE i = n
    BY <2>2, <1>1, <1>2
  <2>3. CASE i # n
    <3>1. i \in 1 .. n - 1
      BY <2>3
    <3>2. PICK k \in 1 .. Len(p) : p[k] = s[i]
      BY <3>1, <2>1 DEF SubseqParts, PartsAll
    <3>3. k \in 1 .. Len(r) /\ r[k] = p[k]
      BY <1>1, <1>0
    <3> QED BY <3>2, <3>3
  <2> QED BY <2>2, <2>3
<1>7. PartsWhole(s, I, n, r)
  <2>1. SUFFICES ASSUME (1 .. n) \subseteq I PROVE Len(r) = n /\ \A i \in 1 .. n : r[i] = s[i]
    BY DEF PartsWhole
  <2>2. (1 .. n - 1) \subseteq I
    BY <2>1
  <2>3. Len(p) = n - 1 /\ \A i \in 1 .. n - 1 : p[i] = s[i]
    BY <2>2 DEF SubseqParts, PartsWhole
  <2> QED BY <2>3, <1>1
<1> QED BY <1>1, <1>2, <1>4, <1>5, <1>6, <1>7 DEF SubseqParts, r

\* A place that is not taken adds nothing.
LEMMA PartsLeft ==
  ASSUME NEW S, NEW s \in Seq(S), NEW I, NEW n \in 1 .. Len(s), n \notin I,
         NEW p, SubseqParts(S, s, I, n - 1, p)
  PROVE  SubseqParts(S, s, I, n, p)
<1>1. p \in Seq(S) /\ Len(p) <= n
  BY DEF SubseqParts
<1>m. (1 .. n - 1) \subseteq 1 .. n /\ \A i \in 1 .. n : i # n => i \in 1 .. n - 1
  OBVIOUS
<1>2. PartsFrom(s, I, n, p)
  BY <1>m DEF SubseqParts, PartsFrom
<1>3. PartsOrder(s, I, n, p)
  BY <1>m DEF SubseqParts, PartsOrder
<1>4. PartsAll(s, I, n, p)
  BY <1>m DEF SubseqParts, PartsAll
<1>5. PartsWhole(s, I, n, p)
  BY DEF PartsWhole
<1> QED BY <1>1, <1>2, <1>3, <1>4, <1>5 DEF SubseqParts

LEMMA SubseqPartsStep ==
  ASSUME NEW S, NEW s \in Seq(S), NEW I, NEW f, Solves(S, s, I, Len(s), f),
         NEW n \in 1 .. Len(s), SubseqParts(S, s, I, n - 1, f[n - 1])
  PROVE  SubseqParts(S, s, I, n, f[n])
<1>0. n \in 0 .. Len(s) /\ n # 0 /\ SubseqStep(s, I, f, n)
  BY DEF Solves
<1>1. f[n] = IF n \in I THEN Append(f[n - 1], s[n]) ELSE f[n - 1]
  BY <1>0 DEF SubseqStep
<1>2. CASE n \in I
  BY <1>1, <1>2, PartsTaken
<1>3. CASE n \notin I
  BY <1>1, <1>3, PartsLeft
<1> QED BY <1>2, <1>3

\* What a subsequence has: only elements of s at the places in I, all of them, in their
\* order; and s itself when I has every place.
LEMMA SubsequenceFacts ==
  ASSUME NEW S, NEW s \in Seq(S), NEW I
  PROVE  /\ Subsequence(s, I) \in Seq(S)
         /\ \A k \in DOMAIN Subsequence(s, I) : \E i \in DOMAIN s : i \in I /\ Subsequence(s, I)[k] = s[i]
         /\ \A k, l \in DOMAIN Subsequence(s, I) : k < l =>
              \E i, j \in DOMAIN s : i < j /\ i \in I /\ j \in I
                                     /\ Subsequence(s, I)[k] = s[i] /\ Subsequence(s, I)[l] = s[j]
         /\ \A i \in DOMAIN s : i \in I => \E k \in DOMAIN Subsequence(s, I) : Subsequence(s, I)[k] = s[i]
         /\ DOMAIN s \subseteq I => Subsequence(s, I) = s
<1>1. PICK f : Solves(S, s, I, Len(s), f) /\ Subsequence(s, I) = f[Len(s)]
  BY SubseqUnfold
<1>2. SubseqParts(S, s, I, 0, f[0])
  <2>1. f[0] = <<>>
    BY <1>1 DEF Solves, SubseqStep
  <2>2. PartsFrom(s, I, 0, <<>>) /\ PartsOrder(s, I, 0, <<>>) /\ PartsAll(s, I, 0, <<>>)
    BY DEF PartsFrom, PartsOrder, PartsAll
  <2>3. PartsWhole(s, I, 0, <<>>)
    BY DEF PartsWhole
  <2> QED BY <2>1, <2>2, <2>3 DEF SubseqParts
<1> DEFINE Bad == {n \in 0 .. Len(s) : ~SubseqParts(S, s, I, n, f[n])}
<1>3. Bad = {}
  <2>1. SUFFICES ASSUME Bad # {} PROVE FALSE
    OBVIOUS
  <2>2. Bad \in SUBSET Nat
    OBVIOUS
  <2>3. PICK n \in Bad : \A j \in Bad : n <= j
    <3> HIDE DEF Bad
    <3> QED BY <2>1, <2>2, LeastNatural
  <2>4. n \in 0 .. Len(s) /\ ~SubseqParts(S, s, I, n, f[n])
    OBVIOUS
  <2>5. n # 0
    BY <2>4, <1>2
  <2>6. n \in 1 .. Len(s) /\ n - 1 \in 0 .. Len(s) /\ n - 1 < n
    BY <2>4, <2>5
  <2>7. SubseqParts(S, s, I, n - 1, f[n - 1])
    BY <2>6, <2>3
  <2> QED BY <2>4, <2>6, <2>7, <1>1, SubseqPartsStep
<1> DEFINE r == Subsequence(s, I)
<1>4. SubseqParts(S, s, I, Len(s), r)
  <2>1. Len(s) \in 0 .. Len(s)
    OBVIOUS
  <2> QED BY <2>1, <1>1, <1>3
<1> HIDE DEF r
<1>5. r \in Seq(S) /\ DOMAIN s = 1 .. Len(s) /\ DOMAIN r = 1 .. Len(r)
  BY <1>4 DEF SubseqParts
<1>6. ASSUME DOMAIN s \subseteq I PROVE r = s
  <2>1. Len(r) = Len(s) /\ \A i \in 1 .. Len(s) : r[i] = s[i]
    BY <1>4, <1>5, <1>6 DEF SubseqParts, PartsWhole
  <2> QED BY <2>1, <1>5
<1>7. \A k \in DOMAIN r : \E i \in DOMAIN s : i \in I /\ r[k] = s[i]
  BY <1>4, <1>5 DEF SubseqParts, PartsFrom
<1>8. \A k, l \in DOMAIN r : k < l => \E i, j \in DOMAIN s : i < j /\ i \in I /\ j \in I /\ r[k] = s[i] /\ r[l] = s[j]
  BY <1>4, <1>5 DEF SubseqParts, PartsOrder
<1>9. \A i \in DOMAIN s : i \in I => \E k \in DOMAIN r : r[k] = s[i]
  BY <1>4, <1>5 DEF SubseqParts, PartsAll
<1> QED BY <1>5, <1>6, <1>7, <1>8, <1>9 DEF r

-----------------------------------------------------------------------------
(* A part of a concatenation is the concatenation of the parts.            *)

\* Two recursions that agree on the first n places agree on their results there.
LEMMA SameParts ==
  ASSUME NEW S, NEW s \in Seq(S), NEW t \in Seq(S), NEW I, NEW J, NEW f, NEW g,
         Solves(S, s, I, Len(s), f), Solves(S, t, J, Len(t), g),
         NEW n \in Nat, n <= Len(s), n <= Len(t),
         \A k \in 1 .. n : s[k] = t[k] /\ (k \in I <=> k \in J)
  PROVE  \A k \in 0 .. n : f[k] = g[k]
<1> DEFINE Bad == {k \in 0 .. n : f[k] # g[k]}
<1>1. SUFFICES ASSUME Bad # {} PROVE FALSE
  OBVIOUS
<1>2. Bad \in SUBSET Nat
  OBVIOUS
<1>3. PICK k \in Bad : \A j \in Bad : k <= j
  <2> HIDE DEF Bad
  <2> QED BY <1>1, <1>2, LeastNatural
<1>4. k \in 0 .. n /\ f[k] # g[k]
  OBVIOUS
<1>5. k # 0 => k - 1 \in 0 .. n /\ f[k - 1] = g[k - 1]
  BY <1>3, <1>4
<1>6. k \in 0 .. Len(s) /\ k \in 0 .. Len(t)
  BY <1>4
<1>7. SubseqStep(s, I, f, k) /\ SubseqStep(t, J, g, k)
  BY <1>6 DEF Solves
<1>8. k # 0 => k \in 1 .. n
  BY <1>4
<1> QED BY <1>4, <1>5, <1>7, <1>8 DEF SubseqStep

\* Only which places of the sequence are taken counts.
LEMMA SubseqSame ==
  ASSUME NEW S, NEW s \in Seq(S), NEW t \in Seq(S), Len(s) = Len(t), NEW I, NEW J,
         \A k \in 1 .. Len(s) : s[k] = t[k] /\ (k \in I <=> k \in J)
  PROVE  Subsequence(s, I) = Subsequence(t, J)
<1>1. PICK f : Solves(S, s, I, Len(s), f) /\ Subsequence(s, I) = f[Len(s)]
  BY SubseqUnfold
<1>2. PICK g : Solves(S, t, J, Len(t), g) /\ Subsequence(t, J) = g[Len(t)]
  BY SubseqUnfold
<1>3. Len(s) \in Nat /\ Len(s) \in 0 .. Len(s) /\ Len(s) <= Len(s) /\ Len(s) <= Len(t)
  OBVIOUS
<1>4. \A k \in 0 .. Len(s) : f[k] = g[k]
  BY <1>1, <1>2, <1>3, SameParts
<1> QED BY <1>1, <1>2, <1>3, <1>4

LEMMA SubseqNone ==
  ASSUME NEW S, NEW s \in Seq(S), NEW I, \A k \in 1 .. Len(s) : k \notin I
  PROVE  Subsequence(s, I) = <<>>
<1>1. /\ Subsequence(s, I) \in Seq(S)
      /\ \A k \in DOMAIN Subsequence(s, I) : \E i \in DOMAIN s : i \in I
  BY SubsequenceFacts
<1>2. DOMAIN s = 1 .. Len(s)
  OBVIOUS
<1>3. DOMAIN Subsequence(s, I) = {}
  BY <1>1, <1>2
<1> DEFINE r == Subsequence(s, I)
<1> HIDE DEF r
<1>4. r \in Seq(S) /\ DOMAIN r = {} => r = <<>>
  <2>1. r \in Seq(S) => DOMAIN r = 1 .. Len(r) /\ Len(r) \in Nat
    OBVIOUS
  <2>2. r \in Seq(S) /\ DOMAIN r = {} => Len(r) = 0
    BY <2>1
  <2> QED BY <2>2
<1> QED BY <1>1, <1>3, <1>4 DEF r

LEMMA SubseqAppend ==
  ASSUME NEW S, NEW s \in Seq(S), NEW x \in S, NEW I
  PROVE  Subsequence(Append(s, x), I)
           = IF Len(s) + 1 \in I THEN Append(Subsequence(s, I), x) ELSE Subsequence(s, I)
<1> DEFINE t == Append(s, x)
<1>0. t \in Seq(S) /\ Len(t) = Len(s) + 1 /\ Len(s) \in Nat /\ t[Len(s) + 1] = x
      /\ \A k \in 1 .. Len(s) : t[k] = s[k]
  OBVIOUS
<1> HIDE DEF t
<1>1. PICK f : Solves(S, s, I, Len(s), f) /\ Subsequence(s, I) = f[Len(s)]
  BY SubseqUnfold
<1>2. PICK g : Solves(S, t, I, Len(t), g) /\ Subsequence(t, I) = g[Len(t)]
  BY <1>0, SubseqUnfold
<1>3. \A k \in 0 .. Len(s) : f[k] = g[k]
  <2>1. Len(s) <= Len(s) /\ Len(s) <= Len(t) /\ \A k \in 1 .. Len(s) : s[k] = t[k] /\ (k \in I <=> k \in I)
    BY <1>0
  <2> QED BY <1>0, <1>1, <1>2, <2>1, SameParts
<1>4. SubseqStep(t, I, g, Len(s) + 1)
  BY <1>0, <1>2 DEF Solves
<1>5. Len(s) + 1 # 0 /\ Len(s) + 1 - 1 = Len(s) /\ Len(s) \in 0 .. Len(s)
  BY <1>0
<1>6. g[Len(s) + 1] = IF Len(s) + 1 \in I THEN Append(g[Len(s)], x) ELSE g[Len(s)]
  BY <1>0, <1>4, <1>5 DEF SubseqStep
<1> QED BY <1>0, <1>1, <1>2, <1>3, <1>5, <1>6 DEF t

\* Where the elements of a concatenation are.
LEMMA ConcatAt ==
  ASSUME NEW S, NEW s \in Seq(S), NEW t \in Seq(S)
  PROVE  /\ s \o t \in Seq(S) /\ Len(s \o t) = Len(s) + Len(t) /\ Len(s) \in Nat /\ Len(t) \in Nat
         /\ \A i \in 1 .. Len(s) : (s \o t)[i] = s[i]
         /\ \A i \in 1 .. Len(t) : (s \o t)[Len(s) + i] = t[i]
  OBVIOUS

LEMMA SameSequence ==
  ASSUME NEW S, NEW s \in Seq(S), NEW t \in Seq(S), Len(s) = Len(t), \A i \in 1 .. Len(s) : s[i] = t[i]
  PROVE  s = t
  OBVIOUS

LEMMA SameLength ==
  ASSUME NEW S, NEW s \in Seq(S), NEW t \in Seq(S), DOMAIN s = DOMAIN t
  PROVE  Len(s) = Len(t)
<1>1. DOMAIN s = 1 .. Len(s) /\ Len(s) \in Nat /\ DOMAIN t = 1 .. Len(t) /\ Len(t) \in Nat
  OBVIOUS
<1> DEFINE m == Len(s)
           n == Len(t)
<1>2. m \in Nat /\ n \in Nat /\ 1 .. m = 1 .. n
  BY <1>1
<1> HIDE DEF m, n
<1>3. (m # 0 => m \in 1 .. m) /\ (n # 0 => n \in 1 .. n)
  BY <1>2
<1>4. (m # 0 => m \in 1 .. n) /\ (n # 0 => n \in 1 .. m)
  BY <1>2, <1>3
<1>5. m = n
  BY <1>2, <1>4
<1> QED BY <1>5 DEF m, n

LEMMA ConcatAppend ==
  ASSUME NEW S, NEW s \in Seq(S), NEW u \in Seq(S), NEW x \in S
  PROVE  s \o Append(u, x) = Append(s \o u, x)
  OBVIOUS

LEMMA SubseqConcat ==
  ASSUME NEW S, NEW s \in Seq(S), NEW t \in Seq(S), NEW I, NEW K,
         \A i \in 1 .. Len(t) : i \in K <=> Len(s) + i \in I
  PROVE  Subsequence(s \o t, I) = Subsequence(s, I) \o Subsequence(t, K)
<1> DEFINE J == {i \in Nat : Len(s) + i \in I}
           upTo(n) == SubSeq(t, 1, n)
           Holds(n) == Subsequence(s \o upTo(n), I) = Subsequence(s, I) \o Subsequence(upTo(n), J)
           Bad == {n \in 0 .. Len(t) : ~Holds(n)}
<1>0. Subsequence(s, I) \in Seq(S)
  BY SubsequenceFacts
<1>1. Holds(0)
  <2>1. upTo(0) = <<>>
    OBVIOUS
  <2>2. <<>> \in Seq(S) /\ Len(<<>>) = 0
    OBVIOUS
  <2>3. Subsequence(<<>>, J) = <<>>
    <3>1. \A k \in 1 .. Len(<<>>) : k \notin J
      OBVIOUS
    <3> HIDE DEF J
    <3> QED BY <2>2, <3>1, SubseqNone
  <2>4. s \o <<>> = s
    OBVIOUS
  <2> DEFINE r == Subsequence(s, I)
  <2> HIDE DEF r
  <2>5. r \in Seq(S) => r \o <<>> = r
    OBVIOUS
  <2> QED BY <2>1, <2>3, <2>4, <2>5, <1>0 DEF r
<1>2. ASSUME NEW n \in 1 .. Len(t), Holds(n - 1) PROVE Holds(n)
  <2>1. upTo(n - 1) \in Seq(S) /\ Len(upTo(n - 1)) = n - 1 /\ t[n] \in S /\ upTo(n) = Append(upTo(n - 1), t[n])
    OBVIOUS
  <2> DEFINE u == upTo(n - 1)
             x == t[n]
             p == Subsequence(s, I)
             q == Subsequence(u, J)
  <2>2. u \in Seq(S) /\ Len(u) = n - 1 /\ x \in S
    BY <2>1
  <2>3. Subsequence(s \o u, I) = p \o q
    BY <1>2
  <2> HIDE DEF u, x, J
  <2>4. q \in Seq(S)
    BY <2>2, SubsequenceFacts
  <2>5. s \o u \in Seq(S) /\ Len(s \o u) = Len(s) + (n - 1) /\ s \o Append(u, x) = Append(s \o u, x)
    <3>1. s \o u \in Seq(S) /\ Len(s \o u) = Len(s) + Len(u)
      BY <2>2, ConcatAt
    <3>2. s \o Append(u, x) = Append(s \o u, x)
      BY <2>2, ConcatAppend
    <3> QED BY <2>2, <3>1, <3>2
  <2> DEFINE su == s \o u
  <2>6. su \in Seq(S) /\ Len(su) + 1 = Len(s) + n
    BY <2>5
  <2> HIDE DEF su
  <2>7. Subsequence(Append(su, x), I) = IF Len(su) + 1 \in I THEN Append(Subsequence(su, I), x) ELSE Subsequence(su, I)
    BY <2>2, <2>6, SubseqAppend
  <2>8. Subsequence(Append(u, x), J) = IF n \in J THEN Append(q, x) ELSE q
    <3>1. n \in Nat /\ Len(u) = n - 1
      BY <2>2
    <3>2. Len(u) + 1 = n
      BY <3>1
    <3> QED BY <3>2, <2>2, SubseqAppend
  <2>9. n \in J <=> Len(s) + n \in I
    BY DEF J
  <2> HIDE DEF p, q
  <2>10. p \in Seq(S)
    BY <1>0 DEF p
  <2>11. p \o Append(q, x) = Append(p \o q, x)
    BY <2>2, <2>4, <2>10, ConcatAppend, SMTT(30)
  <2>12. Subsequence(s \o Append(u, x), I) = p \o Subsequence(Append(u, x), J)
    BY <2>3, <2>5, <2>6, <2>7, <2>8, <2>9, <2>11 DEF su
  <2> QED BY <2>1, <2>12 DEF p, u, x, J
<1>3. Bad = {}
  <2>1. SUFFICES ASSUME Bad # {} PROVE FALSE
    OBVIOUS
  <2>2. Bad \in SUBSET Nat
    OBVIOUS
  <2>3. PICK n \in Bad : \A j \in Bad : n <= j
    <3> HIDE DEF Bad
    <3> QED BY <2>1, <2>2, LeastNatural
  <2> HIDE DEF Holds
  <2>4. n \in 0 .. Len(t) /\ ~Holds(n)
    OBVIOUS
  <2>5. n # 0
    BY <2>4, <1>1
  <2>6. n \in 1 .. Len(t) /\ n - 1 \in 0 .. Len(t) /\ n - 1 < n
    BY <2>4, <2>5
  <2>7. Holds(n - 1)
    BY <2>6, <2>3
  <2> QED BY <2>4, <2>6, <2>7, <1>2
<1>4. Holds(Len(t))
  <2> HIDE DEF Holds
  <2> QED BY <1>3
<1>5. upTo(Len(t)) = t
  OBVIOUS
<1>6. Subsequence(t, J) = Subsequence(t, K)
  <2>1. \A i \in 1 .. Len(t) : i \in J <=> i \in K
    OBVIOUS
  <2> HIDE DEF J
  <2> QED BY <2>1, SubseqSame
<1> QED BY <1>4, <1>5, <1>6
=============================================================================
