-------------------------- MODULE StreamFlowProofs --------------------------
(***************************************************************************)
(* Proofs about StreamFlow, for every window, every set of item sizes, any *)
(* number of receiving goroutines and any number of sends: IInv is         *)
(* inductive, the safety properties follow from it, and the specification  *)
(* implements StreamPipe.                                                  *)
(***************************************************************************)
EXTENDS StreamFlow, Integers, FiniteSetTheorems, SequenceTheorems, TLAPS
-----------------------------------------------------------------------------
(***************************************************************************)
(* The algebra of Total: what appending, removing the head and updating    *)
(* one element do to the sum of a sequence.  Induction is done with        *)
(* least counterexamples: a nonempty set of naturals has a least element.  *)
(***************************************************************************)

\* Every nonempty set of naturals has a least element.
LEMMA LeastNatural ==
  ASSUME NEW T \in SUBSET Nat, T # {}
  PROVE  \E m \in T : \A n \in T : m <= n
<1>1. PICK t \in T : TRUE
  BY ZenonT(30)
<1> DEFINE U == 0..t
           F == {0..n : n \in {k \in T : k <= t}}
<1>2. F \subseteq FiniteSubsetsOf(U) /\ F # {}
  <2>1. ASSUME NEW n \in T, n <= t
        PROVE  0..n \in FiniteSubsetsOf(U)
    <3>1. n \in Int /\ t \in Int /\ 0 \in Int
      BY <1>1
    <3>2. IsFiniteSet(0..n)
      BY <3>1, FS_Interval
    <3>3. 0..n \subseteq 0..t
      BY <2>1, <3>1
    <3>4. QED
      BY <3>2, <3>3 DEF FiniteSubsetsOf
  <2>2. 0..t \in F
    BY <1>1
  <2>3. QED
    BY <2>1, <2>2
<1>3. IsWellFoundedOn(StrictSubsetOrdering(U), FiniteSubsetsOf(U))
  BY FS_StrictSubsetOrderingWellFounded
<1> HIDE DEF F, U
<1>4. PICK x \in F : \A y \in F : <<y, x>> \notin StrictSubsetOrdering(U)
  BY <1>2, <1>3, WFMin
<1> USE DEF F, U
<1>5. PICK m \in T : m <= t /\ x = 0..m
  BY <1>4
<1>6. ASSUME NEW n \in T, n < m
      PROVE  FALSE
  <2>1. n \in Nat /\ m \in Nat /\ t \in Nat
    BY <1>1, <1>5, <1>6
  <2>2. n <= t
    BY <1>5, <1>6, <2>1
  <2>3. 0..n \in F
    BY <2>2
  <2>4. 0..n \subseteq 0..m /\ 0..n # 0..m /\ 0..m \subseteq 0..t
    <3>1. m \in 0..m /\ m \notin 0..n
      BY <1>6, <2>1
    <3>2. QED
      BY <1>5, <1>6, <2>1, <3>1
  <2>5. <<0..n, 0..m>> \in StrictSubsetOrdering(U)
    BY <2>4 DEF StrictSubsetOrdering
  <2>6. QED
    BY ZenonT(30), <1>4, <1>5, <2>3, <2>5
<1>7. QED
  BY <1>5, <1>6

\* Induction over the naturals for a property given as a set.
LEMMA SetInduction ==
  ASSUME NEW S, 0 \in S, \A n \in Nat : n \in S => n + 1 \in S
  PROVE  Nat \subseteq S
<1> DEFINE T == {n \in Nat : n \notin S}
<1>1. SUFFICES ASSUME T # {} PROVE FALSE
  OBVIOUS
<1>2. PICK m \in T : \A n \in T : m <= n
  <2> HIDE DEF T
  <2>1. T \in SUBSET Nat
    BY DEF T
  <2>2. QED
    BY <1>1, <2>1, LeastNatural
<1>3. m # 0 /\ m \in Nat
  BY <1>2
<1>4. m - 1 \in Nat /\ m - 1 < m
  BY <1>3
<1>5. m - 1 \in S
  BY <1>2, <1>3, <1>4
<1>6. (m - 1) + 1 \in S
  BY <1>4, <1>5
<1>7. QED
  BY <1>2, <1>3, <1>6
-----------------------------------------------------------------------------
\* c holds the partial sums of the first n elements of s.
IsPartial(c, s, n) ==
  /\ c \in [0..n -> Nat]
  /\ c[0] = 0
  /\ \A i \in 1..n : c[i] = c[i - 1] + s[i]

\* Partial sums exist for every prefix length.
LEMMA PartialExists ==
  ASSUME NEW s \in Seq(Nat)
  PROVE  \E c : IsPartial(c, s, Len(s))
<1> DEFINE S == {n \in Nat : n <= Len(s) => \E c : IsPartial(c, s, n)}
<1>1. 0 \in S
  <2>1. IsPartial([i \in 0..0 |-> 0], s, 0)
    BY DEF IsPartial
  <2>2. QED
    BY <2>1
<1>2. ASSUME NEW n \in Nat, n \in S
      PROVE  n + 1 \in S
  <2>1. SUFFICES ASSUME n + 1 <= Len(s)
                 PROVE  \E c : IsPartial(c, s, n + 1)
    OBVIOUS
  <2>2. Len(s) \in Nat /\ s \in [1..Len(s) -> Nat]
    BY LenProperties
  <2>3. PICK c : IsPartial(c, s, n)
    BY <1>2, <2>1, <2>2
  <2> DEFINE d == [i \in 0..(n + 1) |-> IF i = n + 1 THEN c[n] + s[n + 1] ELSE c[i]]
  <2>4. c[n] \in Nat /\ s[n + 1] \in Nat
    BY <2>1, <2>2, <2>3 DEF IsPartial
  <2>5. d \in [0..(n + 1) -> Nat]
    BY <2>3, <2>4 DEF IsPartial
  <2>6. d[0] = 0
    BY <2>3 DEF IsPartial
  <2>7. ASSUME NEW i \in 1..(n + 1)
        PROVE  d[i] = d[i - 1] + s[i]
    <3>1. CASE i = n + 1
      BY <3>1
    <3>2. CASE i # n + 1
      <4>1. i \in 1..n /\ i - 1 \in 0..n /\ i - 1 # n + 1
        BY <3>2
      <4>2. d[i] = c[i] /\ d[i - 1] = c[i - 1]
        BY <4>1
      <4>3. QED
        BY <2>3, <4>1, <4>2 DEF IsPartial
    <3>3. QED
      BY <3>1, <3>2
  <2>8. IsPartial(d, s, n + 1)
    <3> HIDE DEF d
    <3>1. QED
      BY <2>5, <2>6, <2>7 DEF IsPartial
  <2>9. QED
    BY <2>8
<1>3. Nat \subseteq S
  <2> HIDE DEF S
  <2>1. QED
    BY SMTT(30), <1>1, <1>2, SetInduction
<1>4. QED
  BY <1>3, LenProperties

\* Partial(s), the recursive function, is the function of partial sums.
LEMMA PartialDef ==
  ASSUME NEW s \in Seq(Nat)
  PROVE  IsPartial(Partial(s), s, Len(s))
<1> DEFINE P(g) == g = [i \in 0..Len(s) |-> IF i = 0 THEN 0 ELSE g[i - 1] + s[i]]
<1>0. Len(s) \in Nat
  BY LenProperties
<1>1. PICK c : IsPartial(c, s, Len(s))
  BY PartialExists
<1>2. P(c)
  <2>1. ASSUME NEW i \in 0..Len(s)
        PROVE  c[i] = IF i = 0 THEN 0 ELSE c[i - 1] + s[i]
    BY <1>0, <1>1 DEF IsPartial
  <2>2. QED
    BY <1>1, <2>1 DEF IsPartial
<1>3. Partial(s) = CHOOSE g : P(g)
  BY DEF Partial
<1>4. P(Partial(s))
  <2> HIDE DEF P
  <2>1. QED
    BY <1>2, <1>3
<1> DEFINE p == Partial(s)
<1>5. p = [i \in 0..Len(s) |-> IF i = 0 THEN 0 ELSE p[i - 1] + s[i]]
  BY ZenonT(30), <1>4
<1> HIDE DEF p, P
<1>6. p = c
  <2> DEFINE S == {n \in Nat : n <= Len(s) => p[n] = c[n]}
  <2>1. 0 \in S
    BY <1>0, <1>1, <1>5 DEF IsPartial
  <2>2. ASSUME NEW n \in Nat, n \in S
        PROVE  n + 1 \in S
    <3>1. SUFFICES ASSUME n + 1 <= Len(s) PROVE p[n + 1] = c[n + 1]
      OBVIOUS
    <3>2. n + 1 \in 0..Len(s) /\ n + 1 # 0 /\ n <= Len(s) /\ (n + 1) - 1 = n
      BY <1>0, <3>1
    <3>3. p[n + 1] = p[n] + s[n + 1]
      BY <1>5, <3>2
    <3>4. c[n + 1] = c[n] + s[n + 1]
      BY <1>0, <1>1, <3>2 DEF IsPartial
    <3>5. QED
      BY <2>2, <3>2, <3>3, <3>4
  <2>3. Nat \subseteq S
    <3> HIDE DEF S
    <3>1. QED
      BY SMTT(30), <2>1, <2>2, SetInduction
  <2>4. ASSUME NEW i \in 0..Len(s) PROVE p[i] = c[i]
    BY <1>0, <2>3
  <2>5. c \in [0..Len(s) -> Nat] /\ DOMAIN p = 0..Len(s) /\ p = [i \in 0..Len(s) |-> p[i]]
    BY <1>1, <1>5 DEF IsPartial
  <2>6. QED
    BY <2>4, <2>5
<1>7. QED
  BY <1>1, <1>6 DEF p

\* Whatever satisfies the equations of the partial sums ends in the total.
LEMMA TotalOfPartial ==
  ASSUME NEW s \in Seq(Nat), NEW c, IsPartial(c, s, Len(s))
  PROVE  Total(s) = c[Len(s)]
<1> DEFINE p == Partial(s)
           S == {n \in Nat : n <= Len(s) => p[n] = c[n]}
<1>0. Len(s) \in Nat /\ IsPartial(p, s, Len(s))
  BY LenProperties, PartialDef
<1> HIDE DEF p
<1>1. 0 \in S
  BY <1>0 DEF IsPartial
<1>2. ASSUME NEW n \in Nat, n \in S
      PROVE  n + 1 \in S
  <2>1. SUFFICES ASSUME n + 1 <= Len(s) PROVE p[n + 1] = c[n + 1]
    OBVIOUS
  <2>2. n + 1 \in 1..Len(s) /\ n <= Len(s) /\ (n + 1) - 1 = n
    BY <1>0, <2>1
  <2>3. p[n + 1] = p[n] + s[n + 1] /\ c[n + 1] = c[n] + s[n + 1]
    BY <1>0, <2>2 DEF IsPartial
  <2>4. QED
    BY <1>2, <2>2, <2>3
<1>3. Nat \subseteq S
  <2> HIDE DEF S
  <2>1. QED
    BY <1>1, <1>2, SetInduction
<1>4. p[Len(s)] = c[Len(s)]
  BY <1>0, <1>3
<1>5. QED
  BY <1>4 DEF Total, p

\* The sum of naturals is a natural.
LEMMA TotalType ==
  ASSUME NEW s \in Seq(Nat)
  PROVE  Total(s) \in Nat
BY PartialDef, LenProperties DEF Total, IsPartial

\* A sequence of zeros, the empty one included, sums to zero.
LEMMA TotalZero ==
  ASSUME NEW s \in Seq(Nat), \A i \in 1..Len(s) : s[i] = 0
  PROVE  Total(s) = 0
<1>1. Len(s) \in Nat
  BY LenProperties
<1>2. IsPartial([i \in 0..Len(s) |-> 0], s, Len(s))
  BY <1>1 DEF IsPartial
<1>3. QED
  BY <1>1, <1>2, TotalOfPartial

\* Appending an element adds it to the sum.
LEMMA TotalAppend ==
  ASSUME NEW s \in Seq(Nat), NEW x \in Nat
  PROVE  Total(Append(s, x)) = Total(s) + x
<1> DEFINE t == Append(s, x)
           n == Len(s)
           p == Partial(s)
           c == [i \in 0..(n + 1) |-> IF i = n + 1 THEN p[n] + x ELSE p[i]]
<1>1. /\ n \in Nat /\ t \in Seq(Nat) /\ Len(t) = n + 1 /\ t[n + 1] = x
      /\ \A i \in 1..n : t[i] = s[i]
  OBVIOUS
<1>2. IsPartial(p, s, n)
  BY PartialDef
<1> HIDE DEF t, n, p
<1>3. p[n] \in Nat
  BY <1>1, <1>2 DEF IsPartial
<1>4. c \in [0..(n + 1) -> Nat] /\ c[0] = 0
  BY <1>1, <1>2, <1>3 DEF IsPartial
<1>5. ASSUME NEW i \in 1..(n + 1)
      PROVE  c[i] = c[i - 1] + t[i]
  <2>1. CASE i = n + 1
    BY <1>1, <2>1
  <2>2. CASE i # n + 1
    <3>1. i \in 1..n /\ i - 1 \in 0..n /\ i - 1 # n + 1
      BY <1>1, <2>2
    <3>2. c[i] = p[i] /\ c[i - 1] = p[i - 1] /\ t[i] = s[i]
      BY <1>1, <3>1
    <3>3. QED
      BY <1>2, <3>1, <3>2 DEF IsPartial
  <2>3. QED
    BY <2>1, <2>2
<1>6. c[n + 1] = p[n] + x
  BY <1>1
<1> HIDE DEF c
<1>7. IsPartial(c, t, Len(t))
  BY <1>1, <1>4, <1>5 DEF IsPartial
<1>8. Total(t) = p[n] + x
  BY <1>1, <1>6, <1>7, TotalOfPartial
<1>9. QED
  BY <1>8 DEF t, n, p, Total

\* The head and the sum of the tail make up the sum.
LEMMA TotalTail ==
  ASSUME NEW s \in Seq(Nat), s # <<>>
  PROVE  Total(s) = Head(s) + Total(Tail(s))
<1> DEFINE t == Tail(s)
           n == Len(t)
           p == Partial(t)
           c == [i \in 0..(n + 1) |-> IF i = 0 THEN 0 ELSE s[1] + p[i - 1]]
<1>1. /\ n \in Nat /\ t \in Seq(Nat) /\ Len(s) = n + 1
      /\ Head(s) = s[1] /\ s[1] \in Nat
      /\ \A i \in 1..n : t[i] = s[i + 1]
  OBVIOUS
<1>2. IsPartial(p, t, n)
  BY ZenonT(30), <1>1, PartialDef
<1> HIDE DEF t, n, p
<1>3. \A i \in 0..n : p[i] \in Nat
  BY <1>2 DEF IsPartial
<1>4. c \in [0..(n + 1) -> Nat] /\ c[0] = 0
  BY <1>1, <1>3
<1>5. ASSUME NEW i \in 1..(n + 1)
      PROVE  c[i] = c[i - 1] + s[i]
  <2>1. CASE i = 1
    <3>1. c[1] = s[1] + p[0] /\ c[0] = 0
      BY <1>1, <2>1
    <3>2. QED
      BY <1>1, <1>2, <2>1, <3>1 DEF IsPartial
  <2>2. CASE i # 1
    <3>1. i - 1 \in 1..n /\ (i - 1) - 1 \in 0..n /\ i - 1 # 0 /\ (i - 1) + 1 = i
      BY <1>1, <2>2
    <3>2. c[i] = s[1] + p[i - 1] /\ c[i - 1] = s[1] + p[(i - 1) - 1]
      BY <1>1, <3>1
    <3>3. p[i - 1] = p[(i - 1) - 1] + t[i - 1] /\ t[i - 1] = s[i]
      BY ZenonT(30), <1>1, <1>2, <3>1 DEF IsPartial
    <3>4. s[i] \in Nat
      BY <1>1
    <3>5. p[(i - 1) - 1] \in Nat
      BY <1>3, <3>1
    <3> HIDE DEF c
    <3>6. QED
      BY <1>1, <3>2, <3>3, <3>4, <3>5
  <2>3. QED
    BY <2>1, <2>2
<1>6. c[n + 1] = s[1] + p[n]
  BY <1>1
<1> HIDE DEF c
<1>7. IsPartial(c, s, Len(s))
  BY <1>1, <1>4, <1>5 DEF IsPartial
<1>8. Total(s) = s[1] + p[n]
  BY <1>1, <1>6, <1>7, TotalOfPartial
<1>9. QED
  BY <1>1, <1>8 DEF t, n, p, Total

\* s and t are equally long and differ at most at k.
DifferAt(s, t, k) ==
  /\ Len(s) = Len(t) /\ k \in 1..Len(s)
  /\ \A j \in 1..Len(s) : j # k => s[j] = t[j]

\* Changing one element changes the sum by the difference.
LEMMA TotalUpdate ==
  ASSUME NEW s \in Seq(Nat), NEW t \in Seq(Nat), NEW k, DifferAt(s, t, k)
  PROVE  Total(t) + s[k] = Total(s) + t[k]
<1> DEFINE n == Len(s)
           p == Partial(s)
           q == Partial(t)
           S == {i \in Nat : i <= n => IF i < k THEN q[i] = p[i]
                                       ELSE q[i] + s[k] = p[i] + t[k]}
<1>1. /\ n \in Nat /\ IsPartial(p, s, n) /\ IsPartial(q, t, n)
      /\ n = Len(t) /\ k \in 1..n
  BY PartialDef, LenProperties DEF DifferAt
<1>2. \A i \in 1..n : s[i] \in Nat /\ t[i] \in Nat
  BY <1>1, LenProperties
<1> HIDE DEF p, q, n
<1>3. \A i \in 0..n : p[i] \in Nat /\ q[i] \in Nat
  BY ZenonT(30), <1>1 DEF IsPartial
<1>4. 0 \in S
  BY <1>1 DEF IsPartial
<1>5. ASSUME NEW i \in Nat, i \in S
      PROVE  i + 1 \in S
  <2>1. SUFFICES ASSUME i + 1 <= n
                 PROVE  IF i + 1 < k THEN q[i + 1] = p[i + 1]
                        ELSE q[i + 1] + s[k] = p[i + 1] + t[k]
    OBVIOUS
  <2>2. i + 1 \in 1..n /\ i \in 0..n /\ (i + 1) - 1 = i
    BY <1>1, <2>1
  <2>3. p[i + 1] = p[i] + s[i + 1] /\ q[i + 1] = q[i] + t[i + 1]
    BY <1>1, <2>2 DEF IsPartial
  <2>4. /\ p[i] \in Nat /\ q[i] \in Nat /\ s[i + 1] \in Nat /\ t[i + 1] \in Nat
        /\ s[k] \in Nat /\ t[k] \in Nat /\ k \in Nat
    BY <1>1, <1>2, <1>3, <2>2
  <2>5. IF i < k THEN q[i] = p[i] ELSE q[i] + s[k] = p[i] + t[k]
    BY <1>1, <1>5, <2>2
  <2>6. IF i + 1 = k THEN s[i + 1] = s[k] /\ t[i + 1] = t[k] ELSE s[i + 1] = t[i + 1]
    BY SMTT(30), <2>2 DEF DifferAt, n
  <2>7. SUFFICES IF i + 1 < k THEN q[i] + t[i + 1] = p[i] + s[i + 1]
                 ELSE (q[i] + t[i + 1]) + s[k] = (p[i] + s[i + 1]) + t[k]
    BY <2>3
  <2> DEFINE a == p[i]
             b == q[i]
             x == s[i + 1]
             y == t[i + 1]
             d == s[k]
             e == t[k]
  <2>8. IF i < k THEN b = a ELSE b + d = a + e
    BY <2>5
  <2>9. IF i + 1 = k THEN x = d /\ y = e ELSE x = y
    BY <2>6
  <2>10. a \in Nat /\ b \in Nat /\ x \in Nat /\ y \in Nat /\ d \in Nat /\ e \in Nat /\ k \in Nat
    BY <2>4
  <2>11. SUFFICES IF i + 1 < k THEN b + y = a + x ELSE (b + y) + d = (a + x) + e
    OBVIOUS
  <2> HIDE DEF a, b, x, y, d, e, S
  <2>12. QED
    BY <2>8, <2>9, <2>10
<1>6. Nat \subseteq S
  <2> HIDE DEF S
  <2>1. QED
    BY ZenonT(30), <1>4, <1>5, SetInduction
<1>7. q[n] + s[k] = p[n] + t[k]
  BY <1>1, <1>6
<1>8. QED
  BY <1>1, <1>7 DEF p, q, n, Total

\* Summation is monotone.
LEMMA TotalLeq ==
  ASSUME NEW s \in Seq(Nat), NEW t \in Seq(Nat), Len(s) = Len(t),
         \A j \in 1..Len(s) : s[j] <= t[j]
  PROVE  Total(s) <= Total(t)
<1> DEFINE n == Len(s)
           p == Partial(s)
           q == Partial(t)
           S == {i \in Nat : i <= n => p[i] <= q[i]}
<1>1. n \in Nat /\ IsPartial(p, s, n) /\ IsPartial(q, t, n)
  BY PartialDef, LenProperties
<1>2. \A i \in 1..n : s[i] \in Nat /\ t[i] \in Nat
  BY LenProperties
<1> HIDE DEF p, q
<1>3. \A i \in 0..n : p[i] \in Nat /\ q[i] \in Nat
  BY ZenonT(30), <1>1 DEF IsPartial
<1>4. 0 \in S
  BY <1>1 DEF IsPartial
<1>5. ASSUME NEW i \in Nat, i \in S
      PROVE  i + 1 \in S
  <2>1. SUFFICES ASSUME i + 1 <= n PROVE p[i + 1] <= q[i + 1]
    OBVIOUS
  <2>2. i + 1 \in 1..n /\ i \in 0..n /\ (i + 1) - 1 = i
    BY <1>1, <2>1
  <2>3. p[i + 1] = p[i] + s[i + 1] /\ q[i + 1] = q[i] + t[i + 1]
    BY <1>1, <2>2 DEF IsPartial
  <2>4. p[i] \in Nat /\ q[i] \in Nat /\ s[i + 1] \in Nat /\ t[i + 1] \in Nat
    BY <1>2, <1>3, <2>2
  <2>5. p[i] <= q[i] /\ s[i + 1] <= t[i + 1]
    BY <1>5, <2>2
  <2>6. QED
    BY SMTT(30), <2>3, <2>4, <2>5
<1>6. Nat \subseteq S
  <2> HIDE DEF S
  <2>1. QED
    BY <1>4, <1>5, SetInduction
<1>7. p[n] <= q[n]
  BY <1>1, <1>6
<1>8. QED
  BY <1>7 DEF p, q, Total

\* No element exceeds the sum.
LEMMA TotalElement ==
  ASSUME NEW s \in Seq(Nat), NEW k \in 1..Len(s)
  PROVE  s[k] <= Total(s)
<1> DEFINE t == [s EXCEPT ![k] = 0]
<1>1. /\ t \in Seq(Nat) /\ Len(t) = Len(s) /\ t[k] = 0
      /\ \A j \in 1..Len(s) : j # k => s[j] = t[j]
  BY ExceptSeq
<1> HIDE DEF t
<1>2. Total(t) + s[k] = Total(s) + 0
  BY SMTT(30), <1>1, TotalUpdate DEF DifferAt
<1>3. Total(t) \in Nat /\ Total(s) \in Nat /\ s[k] \in Nat
  BY <1>1, TotalType, ElementOfSeq
<1>4. QED
  BY <1>2, <1>3

\* A function on 1..n is a sequence of length n.
LEMMA SeqOfFunction ==
  ASSUME NEW n \in Nat, NEW f \in [1..n -> Nat]
  PROVE  f \in Seq(Nat) /\ Len(f) = n
OBVIOUS

\* The same as TotalUpdate, for one value of a function on 1..n.
LEMMA TotalExcept ==
  ASSUME NEW n \in Nat, NEW f \in [1..n -> Nat], NEW k \in 1..n, NEW v \in Nat
  PROVE  Total([f EXCEPT ![k] = v]) + f[k] = Total(f) + v
<1> DEFINE g == [f EXCEPT ![k] = v]
<1>1. g \in [1..n -> Nat] /\ g[k] = v /\ \A j \in 1..n : j # k => f[j] = g[j]
  OBVIOUS
<1> HIDE DEF g
<1>2. f \in Seq(Nat) /\ Len(f) = n /\ g \in Seq(Nat) /\ Len(g) = n
  BY SMTT(30), <1>1, SeqOfFunction
<1>3. DifferAt(f, g, k)
  BY <1>1, <1>2 DEF DifferAt
<1>4. Total(g) + f[k] = Total(f) + g[k]
  BY SMTT(30), <1>2, <1>3, TotalUpdate
<1>5. QED
  BY <1>1, <1>4 DEF g
-----------------------------------------------------------------------------
\* A frame that carries credit.
CreditFrame(f) == f.items \in Nat /\ f.bytes \in Nat

\* Appending a frame adds the credit it carries.
LEMMA CreditAppend ==
  ASSUME NEW F, \A f \in F : CreditFrame(f), NEW q \in Seq(F), NEW f \in F
  PROVE  /\ ItemsOf(Append(q, f)) = ItemsOf(q) + f.items
         /\ BytesOf(Append(q, f)) = BytesOf(q) + f.bytes
<1> DEFINE n == Len(q)
           r == Append(q, f)
           I == [i \in 1..n |-> q[i].items]
           B == [i \in 1..n |-> q[i].bytes]
<1>1. /\ n \in Nat /\ r \in Seq(F) /\ Len(r) = n + 1 /\ r[n + 1] = f
      /\ \A i \in 1..n : r[i] = q[i] /\ q[i] \in F
  OBVIOUS
<1>2. /\ I \in Seq(Nat) /\ Len(I) = n /\ B \in Seq(Nat) /\ Len(B) = n
      /\ f.items \in Nat /\ f.bytes \in Nat
  BY <1>1 DEF CreditFrame
<1>3. [i \in 1..Len(r) |-> r[i].items] = Append(I, f.items)
  BY <1>1, <1>2
<1>4. [i \in 1..Len(r) |-> r[i].bytes] = Append(B, f.bytes)
  BY <1>1, <1>2
<1> HIDE DEF r, I, B, n
<1>5. /\ Total([i \in 1..Len(r) |-> r[i].items]) = Total(I) + f.items
      /\ Total([i \in 1..Len(r) |-> r[i].bytes]) = Total(B) + f.bytes
  BY ZenonT(30), <1>2, <1>3, <1>4, TotalAppend
<1>6. QED
  BY ZenonT(30), <1>5 DEF ItemsOf, BytesOf, r, I, B, n

\* Removing the head removes the credit it carries.
LEMMA CreditTail ==
  ASSUME NEW F, \A f \in F : CreditFrame(f), NEW q \in Seq(F), q # <<>>
  PROVE  /\ ItemsOf(q) = Head(q).items + ItemsOf(Tail(q))
         /\ BytesOf(q) = Head(q).bytes + BytesOf(Tail(q))
<1> DEFINE n == Len(q)
           r == Tail(q)
           I == [i \in 1..n |-> q[i].items]
           B == [i \in 1..n |-> q[i].bytes]
<1>1. /\ n \in Nat /\ n > 0 /\ r \in Seq(F) /\ Len(r) = n - 1 /\ Head(q) = q[1]
      /\ \A i \in 1..n : q[i] \in F
      /\ \A i \in 1..(n - 1) : r[i] = q[i + 1]
  OBVIOUS
<1>2. /\ I \in Seq(Nat) /\ Len(I) = n /\ B \in Seq(Nat) /\ Len(B) = n
      /\ I # <<>> /\ B # <<>>
  BY <1>1 DEF CreditFrame
<1>3. [i \in 1..Len(r) |-> r[i].items] = Tail(I) /\ Head(I) = Head(q).items
  BY <1>1, <1>2
<1>4. [i \in 1..Len(r) |-> r[i].bytes] = Tail(B) /\ Head(B) = Head(q).bytes
  BY <1>1, <1>2
<1> HIDE DEF r, I, B, n
<1>5. /\ Total(I) = Head(q).items + Total([i \in 1..Len(r) |-> r[i].items])
      /\ Total(B) = Head(q).bytes + Total([i \in 1..Len(r) |-> r[i].bytes])
  BY ZenonT(30), <1>2, <1>3, <1>4, TotalTail
<1>6. QED
  BY ZenonT(30), <1>5 DEF ItemsOf, BytesOf, r, I, B, n

\* The credit in a queue is a natural number; an empty queue holds none.
LEMMA CreditType ==
  ASSUME NEW F, \A f \in F : CreditFrame(f), NEW q \in Seq(F)
  PROVE  /\ ItemsOf(q) \in Nat /\ BytesOf(q) \in Nat
         /\ q = <<>> => ItemsOf(q) = 0 /\ BytesOf(q) = 0
<1> DEFINE I == [i \in 1..Len(q) |-> q[i].items]
           B == [i \in 1..Len(q) |-> q[i].bytes]
<1>1. I \in Seq(Nat) /\ B \in Seq(Nat) /\ Len(I) = Len(q) /\ Len(B) = Len(q)
  BY DEF CreditFrame
<1> HIDE DEF I, B
<1>2. Total(I) \in Nat /\ Total(B) \in Nat
  BY <1>1, TotalType
<1>3. ASSUME q = <<>>
      PROVE  Total(I) = 0 /\ Total(B) = 0
  <2>1. /\ \A i \in 1..Len(I) : I[i] = 0
        /\ \A i \in 1..Len(B) : B[i] = 0
    BY <1>1, <1>3
  <2>2. QED
    BY <1>1, <2>1, TotalZero
<1>4. QED
  BY <1>2, <1>3 DEF ItemsOf, BytesOf, I, B
-----------------------------------------------------------------------------
\* The frames of both queues carry credit, so the lemmas about sums apply.
LEMMA FramesCarryCredit ==
  /\ \A f \in ItemFrames \cup EndFrames : CreditFrame(f)
  /\ \A f \in WindowFrames : CreditFrame(f)
BY DEF ItemFrames, EndFrames, WindowFrames, CreditFrame

\* The credit that Recv calls hold, as sequences of naturals.
LEMMA HeldSeqs ==
  ASSUME TypeOK
  PROVE  /\ heldItems \in Seq(Nat) /\ heldBytes \in Seq(Nat) /\ TakenBytes \in Seq(Nat)
         /\ Len(heldItems) = NumReceivers /\ Len(heldBytes) = NumReceivers
         /\ Len(TakenBytes) = NumReceivers
<1>1. NumReceivers \in Nat /\ Receivers = 1..NumReceivers
  BY StreamAssumption DEF Receivers
<1>2. heldItems \in [Receivers -> Nat] /\ heldBytes \in [Receivers -> Nat]
  BY DEF TypeOK
<1>3. TakenBytes \in [Receivers -> Nat]
  BY <1>2 DEF TakenBytes
<1>4. QED
  BY SMTT(30), <1>1, <1>2, <1>3, SeqOfFunction

\* The sums that the invariant is about are naturals.
SumsOK ==
  /\ ItemsOf(wire) \in Nat /\ BytesOf(wire) \in Nat
  /\ ItemsOf(windows) \in Nat /\ BytesOf(windows) \in Nat
  /\ Total(recvCh) \in Nat /\ Queued \in Nat
  /\ Total(heldItems) \in Nat /\ Total(heldBytes) \in Nat
  /\ Total(TakenBytes) \in Nat
  /\ WritingItems \in Nat /\ WritingBytes \in Nat
  /\ items \in Nat /\ bytes \in Nat /\ returnItems \in Nat /\ returnBytes \in Nat
  /\ OutstandingItems \in Nat /\ OutstandingBytes \in Nat

\* SumsOK follows from the types.
LEMMA SumTypes ==
  TypeOK => SumsOK
<1>0. SUFFICES ASSUME TypeOK PROVE SumsOK
  OBVIOUS
<1>1. /\ wire \in Seq(ItemFrames \cup EndFrames) /\ windows \in Seq(WindowFrames)
      /\ recvCh \in Seq(Nat) /\ sendSize \in Nat
  BY <1>0 DEF TypeOK
<1>2. ItemsOf(wire) \in Nat /\ BytesOf(wire) \in Nat
  BY ZenonT(30), <1>1, FramesCarryCredit, CreditType
<1>3. ItemsOf(windows) \in Nat /\ BytesOf(windows) \in Nat
  BY <1>1, FramesCarryCredit, CreditType
<1>4. Total(recvCh) \in Nat /\ Queued \in Nat
  BY <1>1, TotalType, LenProperties DEF Queued
<1>5. Total(heldItems) \in Nat /\ Total(heldBytes) \in Nat /\ Total(TakenBytes) \in Nat
  BY <1>0, HeldSeqs, TotalType
<1>6. WritingItems \in Nat /\ WritingBytes \in Nat
  BY <1>1 DEF WritingItems, WritingBytes
<1>7. items \in Nat /\ bytes \in Nat /\ returnItems \in Nat /\ returnBytes \in Nat
  BY <1>0 DEF TypeOK
<1>8. OutstandingItems \in Nat /\ OutstandingBytes \in Nat
  <2>1. OutstandingItems \in Nat
    BY <1>2, <1>3, <1>4, <1>5, <1>6, <1>7 DEF OutstandingItems
  <2>2. OutstandingBytes \in Nat
    BY <1>2, <1>3, <1>4, <1>5, <1>6, <1>7 DEF OutstandingBytes
  <2>3. QED
    BY <2>1, <2>2
<1>9. QED
  BY <1>2, <1>3, <1>4, <1>5, <1>6, <1>7, <1>8 DEF SumsOK

\* The same in the next state.
LEMMA SumTypesNext ==
  TypeOK' => SumsOK'
BY SumTypes, PTL

\* What changing one goroutine's held credit does to the sums.
LEMMA HeldUpdate ==
  ASSUME TypeOK, NEW r \in Receivers, NEW v \in Nat
  PROVE  /\ Total([heldItems EXCEPT ![r] = v]) + heldItems[r] = Total(heldItems) + v
         /\ Total([heldBytes EXCEPT ![r] = v]) + heldBytes[r] = Total(heldBytes) + v
         /\ Total([TakenBytes EXCEPT ![r] = v]) + TakenBytes[r] = Total(TakenBytes) + v
<1>1. NumReceivers \in Nat /\ r \in 1..NumReceivers /\ Receivers = 1..NumReceivers
  BY StreamAssumption DEF Receivers
<1>2. heldItems \in [Receivers -> Nat] /\ heldBytes \in [Receivers -> Nat]
  BY DEF TypeOK
<1>3. TakenBytes \in [Receivers -> Nat]
  BY <1>2 DEF TakenBytes
<1>4. Total([heldItems EXCEPT ![r] = v]) + heldItems[r] = Total(heldItems) + v
  BY ZenonT(30), <1>1, <1>2, TotalExcept
<1>5. Total([heldBytes EXCEPT ![r] = v]) + heldBytes[r] = Total(heldBytes) + v
  BY ZenonT(30), <1>1, <1>2, TotalExcept
<1>6. Total([TakenBytes EXCEPT ![r] = v]) + TakenBytes[r] = Total(TakenBytes) + v
  BY ZenonT(30), <1>1, <1>3, TotalExcept
<1>7. QED
  BY <1>4, <1>5, <1>6

\* The bytes of an item that Recv just took are still counted as buffered.
LEMMA TakenIsBuffered ==
  ASSUME TypeOK, BufferInv, NEW r \in Receivers, recvPc[r] = "taken"
  PROVE  heldBytes[r] <= bufferedBytes
<1>1. r \in 1..Len(TakenBytes) /\ TakenBytes[r] = heldBytes[r] /\ heldBytes[r] \in Nat
  BY HeldSeqs DEF TakenBytes, Receivers, TypeOK
<1>2. TakenBytes[r] <= Total(TakenBytes)
  BY <1>1, HeldSeqs, TotalElement
<1>3. Total(TakenBytes) \in Nat /\ Total(recvCh) \in Nat
  BY SumTypes DEF SumsOK
<1>4. QED
  BY <1>1, <1>2, <1>3 DEF BufferInv

\* Every step keeps every variable in its type.
LEMMA TypeStep ==
  ASSUME IInv, [Next]_vars
  PROVE  TypeOK'
<1> USE DEF TypeOK, creditVars, callVars, sendEnds,
        sendVars, readVars, returnVars, recvVars, recvEnds
<1>0. TypeOK
  BY DEF IInv
<1>1. CASE SendBegin
  BY <1>0, <1>1, StreamAssumption DEF SendBegin
<1>2. CASE TakeCreditCheck
  BY <1>0, <1>2 DEF TakeCreditCheck
<1>3. CASE TakeCredit
  BY <1>0, <1>3 DEF TakeCredit, HasCredit, SpendCredit
<1>4. CASE SenderWake
  <2>1. changed' \in BOOLEAN
    BY ZenonT(30), <1>0, <1>4 DEF SenderWake
  <2>2. QED
    BY <1>0, <1>4, <2>1 DEF SenderWake
<1>5. CASE SendWrite
  BY <1>0, <1>5 DEF SendWrite, ItemFrame, ItemFrames
<1>6. CASE SendWriteFails
  BY <1>0, <1>6 DEF SendWriteFails, FinishSender
<1>7. CASE CloseSend
  BY <1>0, <1>7 DEF CloseSend
<1>8. CASE CloseSendEnd
  <2>1. EndFrame \in ItemFrames \cup EndFrames
    BY DEF EndFrame, EndFrames
  <2>2. wire' \in Seq(ItemFrames \cup EndFrames)
    <3>1. wire' = Append(wire, EndFrame) \/ wire' = wire
      BY <1>8 DEF CloseSendEnd
    <3>2. wire \in Seq(ItemFrames \cup EndFrames)
      BY <1>0
    <3>3. QED
      BY <2>1, <3>1, <3>2, AppendProperties
  <2>3. senderDone' \in BOOLEAN /\ senderCtx' \in BOOLEAN
    BY ZenonT(30), <1>0, <1>8 DEF CloseSendEnd, FinishSender
  <2>4. QED
    BY <1>0, <1>8, <2>2, <2>3 DEF CloseSendEnd
<1>9. CASE AcceptCredit
  <2>1. /\ Head(windows) \in WindowFrames /\ windows' \in Seq(WindowFrames)
    BY <1>0, <1>9, HeadTailProperties DEF AcceptCredit, Notify
  <2>2. Head(windows).items \in Nat /\ Head(windows).bytes \in Nat
    BY <2>1 DEF WindowFrames
  <2>3. /\ initialized' \in BOOLEAN /\ changed' \in BOOLEAN
        /\ senderCtx' \in BOOLEAN /\ senderDone' \in BOOLEAN
    BY <1>9 DEF AcceptCredit, Notify
  <2>4. /\ items' \in Nat /\ bytes' \in Nat /\ maxItems' \in Nat /\ maxBytes' \in Nat
        /\ fault' \in {"none", "backpressure", "protocol"}
    <3>1. /\ items' = items + Head(windows).items \/ items' = items
          /\ bytes' = bytes + Head(windows).bytes \/ bytes' = bytes
          /\ maxItems' = Head(windows).items \/ maxItems' = maxItems
          /\ maxBytes' = Head(windows).bytes \/ maxBytes' = maxBytes
          /\ fault' = "protocol" \/ fault' = fault
      BY <1>9 DEF AcceptCredit, Notify
    <3>2. /\ items \in Nat /\ bytes \in Nat /\ maxItems \in Nat /\ maxBytes \in Nat
          /\ fault \in {"none", "backpressure", "protocol"}
      BY <1>0
    <3>3. QED
      BY SMTT(30), <2>2, <3>1, <3>2
  <2>5. QED
    BY <1>0, <1>9, <2>1, <2>3, <2>4 DEF AcceptCredit, Notify
<1>10. CASE SenderContext
  BY <1>0, <1>10 DEF SenderContext
<1>11. CASE SenderFinish
  BY <1>0, <1>11 DEF SenderFinish, FinishSender
<1>12. CASE GrantInitialCredit
  <2>1. WindowFrame(RecvBuffer, RecvBytes) \in WindowFrames
    BY StreamAssumption DEF WindowFrame, WindowFrames
  <2>2. windows' \in Seq(WindowFrames)
    BY SMTT(30), <1>0, <1>12, <2>1, AppendProperties DEF GrantInitialCredit
  <2>3. QED
    BY <1>0, <1>12, <2>2 DEF GrantInitialCredit
<1>13. CASE DeliverItem
  <2>1. /\ Head(wire) \in ItemFrames \cup EndFrames
        /\ wire' \in Seq(ItemFrames \cup EndFrames)
    BY <1>0, <1>13, HeadTailProperties DEF DeliverItem, Fits
  <2>2. Head(wire).bytes \in Nat
    BY <2>1 DEF ItemFrames, EndFrames
  <2>3. recvCh' \in Seq(Nat) /\ bufferedBytes' \in Nat
    <3>1. \/ recvCh' = recvCh /\ bufferedBytes' = bufferedBytes
          \/ /\ recvCh' = Append(recvCh, Head(wire).bytes)
             /\ bufferedBytes' = bufferedBytes + Head(wire).bytes
      BY <1>13 DEF DeliverItem, Fits
    <3>2. recvCh \in Seq(Nat) /\ bufferedBytes \in Nat
      BY <1>0
    <3>3. Append(recvCh, Head(wire).bytes) \in Seq(Nat)
      BY <2>2, <3>2, AppendProperties
    <3>4. bufferedBytes + Head(wire).bytes \in Nat
      BY <2>2, <3>2
    <3>5. QED
      BY ZenonT(30), <3>1, <3>2, <3>3, <3>4
  <2>4. /\ recvErr' \in {"none", "eof", "failed"}
        /\ receiverCtx' \in BOOLEAN /\ receiverDone' \in BOOLEAN
        /\ fault' \in {"none", "backpressure", "protocol"}
    BY ZenonT(30), <1>0, <1>13 DEF DeliverItem, Fits, FinishReceiver
  <2>5. QED
    BY SMTT(30), <1>0, <1>13, <2>1, <2>3, <2>4 DEF DeliverItem, Fits
<1>14. CASE DeliverEnd
  BY <1>0, <1>14 DEF DeliverEnd
<1>15. ASSUME NEW r \in Receivers, RecvTake(r)
      PROVE  TypeOK'
  BY <1>0, <1>15 DEF RecvTake
<1>16. ASSUME NEW r \in Receivers, RecvWait(r)
      PROVE  TypeOK'
  BY <1>0, <1>16 DEF RecvWait
<1>17. ASSUME NEW r \in Receivers, RecvDrain(r)
      PROVE  TypeOK'
  BY <1>0, <1>17 DEF RecvDrain
<1>18. ASSUME NEW r \in Receivers, RecvEmpty(r)
      PROVE  TypeOK'
  BY SMTT(30), <1>0, <1>18 DEF RecvEmpty
<1>19. ASSUME NEW r \in Receivers, RecvReturn(r)
      PROVE  TypeOK'
  BY SMTT(30), <1>0, <1>19 DEF RecvReturn
<1>20. ASSUME NEW r \in Receivers, ReceivePayload(r)
      PROVE  TypeOK'
  <2>1. bufferedBytes - heldBytes[r] \in Nat
    <3>1. heldBytes[r] <= bufferedBytes
      BY SMTT(30), <1>0, <1>20, TakenIsBuffered DEF IInv, ReceivePayload
    <3>2. heldBytes[r] \in Nat /\ bufferedBytes \in Nat
      BY SMTT(30), <1>0
    <3>3. QED
      BY SMTT(30), <3>1, <3>2
  <2>2. QED
    BY SMTT(30), <1>0, <1>20, <2>1 DEF ReceivePayload
<1>21. ASSUME NEW r \in Receivers, ReturnCredit(r)
      PROVE  TypeOK'
  <2>1. heldBytes[r] \in Nat /\ returnItems + 1 \in Nat
    BY <1>0
  <2>2. returnBytes + heldBytes[r] \in Nat
    BY <1>0, <2>1
  <2>3. /\ heldItems' \in [Receivers -> Nat] /\ heldBytes' \in [Receivers -> Nat]
        /\ returnItems' \in Nat /\ returnBytes' \in Nat
    <3>1. \/ /\ heldItems' = [heldItems EXCEPT ![r] = 0]
             /\ heldBytes' = [heldBytes EXCEPT ![r] = 0]
             /\ \/ returnItems' = returnItems /\ returnBytes' = returnBytes
                \/ returnItems' = returnItems + 1 /\ returnBytes' = returnBytes + heldBytes[r]
          \/ /\ heldItems' = [heldItems EXCEPT ![r] = returnItems + 1]
             /\ heldBytes' = [heldBytes EXCEPT ![r] = returnBytes + heldBytes[r]]
             /\ returnItems' = 0 /\ returnBytes' = 0
      BY <1>21 DEF ReturnCredit
    <3>2. /\ heldItems \in [Receivers -> Nat] /\ heldBytes \in [Receivers -> Nat]
          /\ returnItems \in Nat /\ returnBytes \in Nat
      BY <1>0
    <3>3. QED
      BY SMTT(30), <2>1, <2>2, <3>1, <3>2
  <2>4. recvPc' \in [Receivers -> {"idle", "wait", "drain", "report", "taken", "decode", "grant"}]
    BY ZenonT(30), <1>0, <1>21 DEF ReturnCredit
  <2>5. QED
    BY SMTT(30), <1>0, <1>21, <2>3, <2>4 DEF ReturnCredit
<1>22. ASSUME NEW r \in Receivers, WriteWindow(r)
      PROVE  TypeOK'
  <2>1. WindowFrame(heldItems[r], heldBytes[r]) \in WindowFrames
    BY <1>0, <1>22 DEF IInv, HeldInv, WriteWindow, WindowFrame, WindowFrames
  <2>2. windows' \in Seq(WindowFrames)
    <3>1. \/ windows' = Append(windows, WindowFrame(heldItems[r], heldBytes[r]))
          \/ windows' = windows
      BY <1>22 DEF WriteWindow
    <3>2. windows \in Seq(WindowFrames)
      BY <1>0
    <3>3. QED
      BY SMTT(30), <2>1, <3>1, <3>2, AppendProperties
  <2>3. /\ recvErr' \in {"none", "eof", "failed"}
        /\ receiverCtx' \in BOOLEAN /\ receiverDone' \in BOOLEAN
    BY ZenonT(30), <1>0, <1>22 DEF WriteWindow, FinishReceiver
  <2>4. /\ heldItems' \in [Receivers -> Nat] /\ heldBytes' \in [Receivers -> Nat]
        /\ recvPc' \in [Receivers -> {"idle", "wait", "drain", "report", "taken", "decode", "grant"}]
    BY <1>0, <1>22 DEF WriteWindow
  <2>5. QED
    BY <1>0, <1>22, <2>2, <2>3, <2>4 DEF WriteWindow
<1>23. CASE ReceiverContext
  BY <1>0, <1>23 DEF ReceiverContext
<1>24. CASE ReceiverFinish
  <2>1. silent' \in BOOLEAN
    BY ZenonT(30), <1>0, <1>24 DEF ReceiverFinish
  <2>2. QED
    BY <1>0, <1>24, <2>1 DEF ReceiverFinish, FinishReceiver
<1>25. CASE UNCHANGED vars
  BY <1>0, <1>25 DEF vars
<1>26. QED
  BY ZenonT(30), <1>1, <1>2, <1>3, <1>4, <1>5, <1>6, <1>7, <1>8, <1>9,
     <1>10, <1>11, <1>12, <1>13, <1>14, <1>15, <1>16, <1>17, <1>18, <1>19,
     <1>20, <1>21, <1>22, <1>23, <1>24, <1>25
  DEF Next, Sender, Receiver
-----------------------------------------------------------------------------
\* finish keeps done, the context and recvErr together.
LEMMA EndsStep ==
  ASSUME IInv, [Next]_vars
  PROVE  EndsInv'
<1> USE DEF EndsInv, creditVars, callVars, sendEnds, sendVars, readVars,
        returnVars, recvVars, recvEnds, recvClosed, FinishSender, FinishReceiver
<1>0. EndsInv
  BY DEF IInv
<1>1. CASE Sender
  <2>1. CASE AcceptCredit
    <3>1. PICK bad \in BOOLEAN : /\ senderDone' = (senderDone \/ bad)
                                /\ senderCtx' = (senderCtx \/ bad)
      BY ZenonT(30), <2>1 DEF AcceptCredit, Notify
    <3>2. UNCHANGED <<recvErr, receiverCtx, receiverDone>>
      BY <2>1 DEF AcceptCredit, Notify
    <3>3. QED
      BY SMTT(30), <1>0, <3>1, <3>2
  <2>2. CASE Sender /\ ~AcceptCredit
    BY <1>0, <2>2 DEF Sender, SendBegin, TakeCreditCheck, TakeCredit, HasCredit,
       SpendCredit, SenderWake, SendWrite, SendWriteFails, CloseSend, CloseSendEnd,
       SenderContext, SenderFinish
  <2>3. QED
    BY <1>1, <2>1, <2>2
<1>2. CASE GrantInitialCredit \/ DeliverItem \/ DeliverEnd
  BY <1>0, <1>2 DEF GrantInitialCredit, DeliverItem, Fits, DeliverEnd
<1>3. ASSUME NEW r \in Receivers,
             \/ RecvTake(r) \/ RecvWait(r) \/ RecvDrain(r) \/ RecvEmpty(r)
             \/ RecvReturn(r) \/ ReceivePayload(r) \/ ReturnCredit(r) \/ WriteWindow(r)
      PROVE  EndsInv'
  <2>1. UNCHANGED <<senderDone, senderCtx>>
    BY <1>3 DEF RecvTake, RecvWait, RecvDrain, RecvEmpty, RecvReturn,
       ReceivePayload, ReturnCredit, WriteWindow
  <2>2. CASE UNCHANGED <<receiverDone, receiverCtx, recvErr>>
    BY SMTT(30), <1>0, <2>1, <2>2
  <2>3. CASE ~UNCHANGED <<receiverDone, receiverCtx, recvErr>>
    BY SMTT(30), <1>0, <1>3, <2>1, <2>3 DEF RecvTake, RecvWait, RecvDrain, RecvEmpty,
       RecvReturn, ReceivePayload, ReturnCredit, WriteWindow
  <2>4. QED
    BY SMTT(30), <2>2, <2>3
<1>4. CASE ReceiverContext \/ ReceiverFinish
  BY <1>0, <1>4 DEF ReceiverContext, ReceiverFinish
<1>5. CASE UNCHANGED vars
  BY <1>0, <1>5 DEF vars
<1>6. QED
  BY <1>1, <1>2, <1>3, <1>4, <1>5 DEF Next, Receiver

\* A sender parked in takeCredit is never left behind by acceptCredit.
LEMMA WakeupStep ==
  ASSUME IInv, [Next]_vars
  PROVE  NoLostWakeup'
<1> USE DEF NoLostWakeup, creditVars, callVars, sendVars
<1>0. NoLostWakeup
  BY SMTT(30) DEF IInv
<1>1. CASE Sender
  BY ZenonT(30), <1>0, <1>1 DEF Sender, SendBegin, TakeCreditCheck, TakeCredit, HasCredit,
     SpendCredit, SenderWake, SendWrite, SendWriteFails, CloseSend, CloseSendEnd,
     AcceptCredit, Notify, SenderContext, SenderFinish
<1>2. CASE Receiver \/ UNCHANGED vars
  <2>1. UNCHANGED sendVars
    BY ZenonT(30), <1>2 DEF Receiver, GrantInitialCredit, DeliverItem, Fits, DeliverEnd,
       RecvTake, RecvWait, RecvDrain, RecvEmpty, RecvReturn, ReceivePayload, ReturnCredit,
       WriteWindow, ReceiverContext, ReceiverFinish, vars
  <2>2. QED
    BY ZenonT(30), <1>0, <2>1
<1>3. QED
  BY <1>1, <1>2 DEF Next

\* A Recv call holds the credit of what it took and no more.
LEMMA HeldStep ==
  ASSUME IInv, [Next]_vars
  PROVE  HeldInv'
<1> USE DEF HeldInv, creditVars, callVars, sendEnds, sendVars, readVars,
        returnVars, recvVars, recvEnds
<1>0. HeldInv /\ TypeOK
  BY SMTT(30) DEF IInv
<1>1. CASE Sender
  <2>1. UNCHANGED <<recvPc, heldItems, heldBytes, returnItems, granted>>
    BY ZenonT(30), <1>1 DEF Sender, SendBegin, TakeCreditCheck, TakeCredit, HasCredit,
       SpendCredit, SenderWake, SendWrite, SendWriteFails, CloseSend, CloseSendEnd,
       AcceptCredit, Notify, SenderContext, SenderFinish
  <2>2. windows = <<>> => windows' = windows
    <3>1. CASE AcceptCredit
      BY <3>1 DEF AcceptCredit
    <3>2. CASE ~AcceptCredit
      BY ZenonT(30), <1>1, <3>2 DEF Sender, SendBegin, TakeCreditCheck, TakeCredit,
         SenderWake, SendWrite, SendWriteFails, CloseSend, CloseSendEnd, SenderContext,
         SenderFinish
    <3>3. QED
      BY <3>1, <3>2
  <2>3. QED
    BY SMTT(30), <1>0, <2>1, <2>2
<1>2. CASE GrantInitialCredit \/ DeliverItem \/ DeliverEnd \/ ReceiverContext
           \/ ReceiverFinish \/ UNCHANGED vars
  <2>1. UNCHANGED <<recvPc, heldItems, heldBytes, returnItems>>
    BY ZenonT(30), <1>2 DEF GrantInitialCredit, DeliverItem, DeliverEnd, ReceiverContext,
       ReceiverFinish, vars
  <2>2. granted => granted'
    <3>1. CASE GrantInitialCredit
      BY <3>1 DEF GrantInitialCredit
    <3>2. CASE ~GrantInitialCredit
      <4>1. UNCHANGED granted
        BY SMTT(30), <1>2, <3>2 DEF DeliverItem, DeliverEnd, ReceiverContext,
           ReceiverFinish, vars
      <4>2. QED
        BY SMTT(30), <4>1
    <3>3. QED
      BY <3>1, <3>2
  <2>3. ~FlowControl => windows' = windows
    BY SMTT(30), <1>2 DEF GrantInitialCredit, DeliverItem, DeliverEnd, ReceiverContext,
       ReceiverFinish, vars
  <2>4. QED
    BY SMTT(30), <1>0, <2>1, <2>2, <2>3
<1>3. ASSUME NEW r \in Receivers,
             RecvTake(r) \/ RecvWait(r) \/ RecvDrain(r) \/ RecvEmpty(r) \/ RecvReturn(r)
               \/ ReceivePayload(r)
      PROVE  HeldInv'
  BY ZenonT(30), <1>0, <1>3 DEF TypeOK, RecvTake, RecvWait, RecvDrain, RecvEmpty,
     RecvReturn, ReceivePayload
<1>4. ASSUME NEW r \in Receivers, ReturnCredit(r)
      PROVE  HeldInv'
  <2>1. \/ /\ heldItems' = [heldItems EXCEPT ![r] = 0]
           /\ heldBytes' = [heldBytes EXCEPT ![r] = 0]
           /\ recvPc' = [recvPc EXCEPT ![r] = "idle"]
        \/ /\ heldItems' = [heldItems EXCEPT ![r] = returnItems + 1]
           /\ heldBytes' = [heldBytes EXCEPT ![r] = returnBytes + heldBytes[r]]
           /\ recvPc' = [recvPc EXCEPT ![r] = "grant"]
           /\ FlowControl
    BY <1>4 DEF ReturnCredit
  <2>2. ~FlowControl => returnItems' = returnItems /\ windows' = windows
    BY SMTT(30), <1>4 DEF ReturnCredit
  <2>3. /\ returnItems + 1 \in Nat /\ returnItems + 1 > 0
        /\ recvPc[r] = "decode" /\ granted' = granted
        /\ recvPc \in [Receivers -> {"idle", "wait", "drain", "report", "taken", "decode", "grant"}]
        /\ heldItems \in [Receivers -> Nat] /\ heldBytes \in [Receivers -> Nat]
    BY SMTT(30), <1>0, <1>4 DEF TypeOK, ReturnCredit
  <2>4. QED
    BY ZenonT(30), <1>0, <2>1, <2>2, <2>3
<1>5. ASSUME NEW r \in Receivers, WriteWindow(r)
      PROVE  HeldInv'
  BY <1>0, <1>5 DEF TypeOK, WriteWindow
<1>6. QED
  BY ZenonT(30), <1>1, <1>2, <1>3, <1>4, <1>5 DEF Next, Receiver

\* returnCredit only holds a batch back while a later Recv will return it.
LEMMA StrandedStep ==
  ASSUME IInv, [Next]_vars
  PROVE  NoStrandedCredit'
<1> USE DEF NoStrandedCredit, creditVars, callVars, sendEnds, sendVars, readVars,
        returnVars, recvVars, recvEnds, recvClosed
<1>0. NoStrandedCredit /\ TypeOK /\ HeldInv /\ EndsInv
  BY DEF IInv
<1>1. CASE Sender \/ UNCHANGED vars
  <2>1. UNCHANGED <<recvPc, returnItems, recvErr, recvCh>>
    BY ZenonT(30), <1>1 DEF Sender, SendBegin, TakeCreditCheck, TakeCredit, HasCredit,
       SpendCredit, SenderWake, SendWrite, SendWriteFails, CloseSend, CloseSendEnd,
       AcceptCredit, Notify, SenderContext, SenderFinish, vars
  <2>2. QED
    BY SMTT(30), <1>0, <2>1
<1>2. CASE GrantInitialCredit \/ DeliverEnd \/ ReceiverContext \/ ReceiverFinish
  BY <1>0, <1>2 DEF GrantInitialCredit, DeliverEnd, ReceiverContext, ReceiverFinish,
     FinishReceiver
<1>3. CASE DeliverItem
  <2>1. /\ UNCHANGED <<recvPc, returnItems>>
        /\ recvErr' = recvErr \/ recvErr' = "failed"
        /\ recvCh' = recvCh \/ recvCh' = Append(recvCh, Head(wire).bytes)
    BY <1>3 DEF DeliverItem, Fits, FinishReceiver
  <2>2. recvCh \in Seq(Nat) /\ Head(wire).bytes \in Nat
    BY SMTT(30), <1>0, <1>3, HeadTailProperties DEF TypeOK, DeliverItem, Fits, ItemFrames,
       EndFrames
  <2>3. Len(recvCh) > 0 => Len(recvCh') > 0
    BY SMTT(30), <2>1, <2>2, AppendProperties, LenProperties
  <2>4. QED
    BY SMTT(30), <1>0, <2>1, <2>3
<1>4. ASSUME NEW r \in Receivers, RecvTake(r)
      PROVE  NoStrandedCredit'
  BY SMTT(30), <1>0, <1>4 DEF TypeOK, RecvTake
<1>5. ASSUME NEW r \in Receivers,
             RecvWait(r) \/ RecvDrain(r) \/ RecvEmpty(r) \/ RecvReturn(r) \/ ReceivePayload(r)
      PROVE  NoStrandedCredit'
  BY ZenonT(30), <1>0, <1>5 DEF TypeOK, RecvWait, RecvDrain, RecvEmpty, RecvReturn,
     ReceivePayload
<1>6. ASSUME NEW r \in Receivers, ReturnCredit(r)
      PROVE  NoStrandedCredit'
  <2>1. \/ recvClosed \/ receiverDone \/ ~FlowControl
        \/ Len(recvCh) > 0 \/ returnItems' = 0
    BY <1>6 DEF ReturnCredit, HoldCredit
  <2>2. UNCHANGED <<recvErr, recvCh, receiverDone>> /\ (~FlowControl => returnItems' = returnItems)
    BY <1>6 DEF ReturnCredit
  <2>3. QED
    BY <1>0, <2>1, <2>2 DEF HeldInv, EndsInv, TypeOK
<1>7. ASSUME NEW r \in Receivers, WriteWindow(r)
      PROVE  NoStrandedCredit'
  BY <1>0, <1>7 DEF TypeOK, WriteWindow, FinishReceiver
<1>8. QED
  BY SMTT(30), <1>1, <1>2, <1>3, <1>4, <1>5, <1>6, <1>7 DEF Next, Receiver

\* The receive queue and its byte count stay within their limits.
LEMMA BufferStep ==
  ASSUME IInv, [Next]_vars
  PROVE  BufferInv'
<1> USE DEF creditVars, callVars, sendEnds, sendVars, readVars, returnVars,
        recvVars, recvEnds
<1>0. BufferInv /\ TypeOK /\ HeldInv
  BY DEF IInv
<1> DEFINE PCs == {"idle", "wait", "drain", "report", "taken", "decode", "grant"}
<1>a. /\ recvPc \in [Receivers -> PCs] /\ heldBytes \in [Receivers -> Nat]
      /\ recvCh \in Seq(Nat)
  BY SMTT(30), <1>0 DEF TypeOK
<1>b. /\ bufferedBytes \in Nat /\ Len(recvCh) \in Nat
      /\ Total(recvCh) \in Nat /\ Total(TakenBytes) \in Nat
      /\ RecvBytes \in Nat /\ RecvBuffer \in Nat
  BY <1>0, SumTypes, StreamAssumption DEF TypeOK, SumsOK, Queued
<1>1. CASE UNCHANGED <<recvCh, bufferedBytes, recvPc, heldBytes>>
  BY <1>0, <1>1 DEF BufferInv, TakenBytes
<1>2. CASE DeliverItem /\ recvCh' # recvCh
  <2>1. /\ recvCh' = Append(recvCh, Head(wire).bytes)
        /\ bufferedBytes' = bufferedBytes + Head(wire).bytes
        /\ Head(wire).bytes <= RecvBytes - bufferedBytes /\ Len(recvCh) < RecvBuffer
        /\ UNCHANGED <<recvPc, heldBytes>>
    BY <1>2 DEF DeliverItem, Fits
  <2>2. Head(wire).bytes \in Nat
    BY <1>0, <1>2, HeadTailProperties DEF TypeOK, DeliverItem, Fits, ItemFrames, EndFrames
  <2>3. /\ Total(recvCh') = Total(recvCh) + Head(wire).bytes
        /\ Len(recvCh') = Len(recvCh) + 1
    BY <1>a, <2>1, <2>2, TotalAppend, AppendProperties
  <2>4. TakenBytes' = TakenBytes
    BY <2>1 DEF TakenBytes
  <2>5. /\ bufferedBytes = Total(recvCh) + Total(TakenBytes)
        /\ bufferedBytes' = bufferedBytes + Head(wire).bytes
        /\ Head(wire).bytes <= RecvBytes - bufferedBytes /\ Len(recvCh) < RecvBuffer
    BY <1>0, <2>1 DEF BufferInv
  <2>6. /\ bufferedBytes' = Total(recvCh') + Total(TakenBytes')
        /\ bufferedBytes' <= RecvBytes /\ Len(recvCh') <= RecvBuffer
    BY SMTT(30), <1>b, <2>2, <2>3, <2>4, <2>5
  <2>7. QED
    BY <2>6 DEF BufferInv
<1>3. ASSUME NEW r \in Receivers, RecvTake(r)
      PROVE  BufferInv'
  <2>1. /\ recvCh # <<>> /\ recvCh' = Tail(recvCh) /\ bufferedBytes' = bufferedBytes
        /\ recvPc' = [recvPc EXCEPT ![r] = "taken"]
        /\ heldBytes' = [heldBytes EXCEPT ![r] = Head(recvCh)]
        /\ recvPc[r] # "taken"
    BY <1>3 DEF RecvTake
  <2>2. Head(recvCh) \in Nat /\ Len(recvCh') = Len(recvCh) - 1
    BY <1>a, <2>1, HeadTailProperties
  <2>3. Total(recvCh) = Head(recvCh) + Total(recvCh')
    BY <1>a, <2>1, TotalTail
  <2>4. TakenBytes' = [TakenBytes EXCEPT ![r] = Head(recvCh)] /\ TakenBytes[r] = 0
    BY ZenonT(30), <1>a, <2>1 DEF TakenBytes
  <2>5. Total(TakenBytes') + 0 = Total(TakenBytes) + Head(recvCh)
    BY ZenonT(30), <1>0, <2>2, <2>4, HeldUpdate
  <2>6. Total(recvCh') \in Nat /\ Total(TakenBytes') \in Nat
    <3>1. TakenBytes' \in [Receivers -> Nat]
      BY <1>a, <2>1, <2>2 DEF TakenBytes
    <3>2. Total(TakenBytes') \in Nat
      BY <3>1, StreamAssumption, SeqOfFunction, TotalType DEF Receivers
    <3>3. QED
      BY ZenonT(30), <1>a, <2>1, <3>2, HeadTailProperties, TotalType
  <2>7. /\ bufferedBytes = Total(recvCh) + Total(TakenBytes)
        /\ bufferedBytes <= RecvBytes /\ Len(recvCh) <= RecvBuffer
        /\ bufferedBytes' = bufferedBytes
    BY <1>0, <2>1 DEF BufferInv
  <2>8. /\ bufferedBytes' = Total(recvCh') + Total(TakenBytes')
        /\ bufferedBytes' <= RecvBytes /\ Len(recvCh') <= RecvBuffer
    BY <1>b, <2>2, <2>3, <2>5, <2>6, <2>7
  <2>9. QED
    BY <2>8 DEF BufferInv
<1>4. ASSUME NEW r \in Receivers, ReceivePayload(r)
      PROVE  BufferInv'
  <2>1. /\ recvCh' = recvCh /\ bufferedBytes' = bufferedBytes - heldBytes[r]
        /\ recvPc' = [recvPc EXCEPT ![r] = "decode"] /\ heldBytes' = heldBytes
        /\ recvPc[r] = "taken" /\ heldBytes[r] \in Nat
    BY <1>4, <1>a DEF ReceivePayload
  <2>2. TakenBytes' = [TakenBytes EXCEPT ![r] = 0] /\ TakenBytes[r] = heldBytes[r]
    BY ZenonT(30), <1>a, <2>1 DEF TakenBytes
  <2>3. Total(TakenBytes') + heldBytes[r] = Total(TakenBytes) + 0
    BY ZenonT(30), <1>0, <2>2, HeldUpdate
  <2>4. Total(TakenBytes') \in Nat
    <3>1. TakenBytes' \in [Receivers -> Nat]
      BY <1>a, <2>1 DEF TakenBytes
    <3>2. QED
      BY <3>1, StreamAssumption, SeqOfFunction, TotalType DEF Receivers
  <2>5. /\ bufferedBytes = Total(recvCh) + Total(TakenBytes)
        /\ bufferedBytes <= RecvBytes /\ Len(recvCh) <= RecvBuffer
    BY <1>0 DEF BufferInv
  <2>6. /\ bufferedBytes' = Total(recvCh) + Total(TakenBytes')
        /\ bufferedBytes' <= RecvBytes
    BY SMTT(30), <1>b, <2>1, <2>3, <2>4, <2>5
  <2>7. QED
    BY <2>1, <2>5, <2>6 DEF BufferInv
<1>5. ASSUME NEW r \in Receivers,
             RecvWait(r) \/ RecvDrain(r) \/ RecvEmpty(r) \/ RecvReturn(r)
               \/ ReturnCredit(r) \/ WriteWindow(r)
      PROVE  BufferInv'
  <2>1. /\ UNCHANGED <<recvCh, bufferedBytes>>
        /\ \E pc \in PCs \ {"taken"} : recvPc' = [recvPc EXCEPT ![r] = pc]
        /\ recvPc[r] # "taken"
        /\ \A q \in Receivers : q # r => heldBytes'[q] = heldBytes[q]
    BY <1>5, <1>a DEF RecvWait, RecvDrain, RecvEmpty, RecvReturn, ReturnCredit, WriteWindow
  <2>2. TakenBytes' = TakenBytes
    BY <1>a, <2>1 DEF TakenBytes
  <2>3. QED
    BY <1>0, <2>1, <2>2 DEF BufferInv
<1>6. CASE Sender
  <2>1. UNCHANGED readVars
    BY ZenonT(30), <1>6 DEF Sender, SendBegin, TakeCreditCheck, TakeCredit, HasCredit,
       SpendCredit, SenderWake, SendWrite, SendWriteFails, CloseSend, CloseSendEnd,
       AcceptCredit, Notify, SenderContext, SenderFinish
  <2>2. QED
    BY ZenonT(30), <1>1, <2>1
<1>7. CASE GrantInitialCredit \/ DeliverEnd \/ ReceiverContext \/ ReceiverFinish
           \/ (DeliverItem /\ recvCh' = recvCh) \/ UNCHANGED vars
  <2>1. CASE DeliverItem /\ recvCh' = recvCh
    <3>1. recvCh # Append(recvCh, Head(wire).bytes)
      BY <1>a
    <3>2. UNCHANGED <<recvCh, bufferedBytes, recvPc, heldBytes>>
      BY SMTT(30), <2>1, <3>1 DEF DeliverItem, Fits
    <3>3. QED
      BY <1>1, <3>2
  <2>2. CASE GrantInitialCredit \/ DeliverEnd \/ ReceiverContext \/ ReceiverFinish \/ UNCHANGED vars
    <3>1. UNCHANGED <<recvCh, bufferedBytes, recvPc, heldBytes>>
      BY <2>2 DEF GrantInitialCredit, DeliverEnd, ReceiverContext, ReceiverFinish, vars
    <3>2. QED
      BY <1>1, <3>1
  <2>3. QED
    BY <1>7, <2>1, <2>2
<1>8. QED
  BY <1>2, <1>3, <1>4, <1>5, <1>6, <1>7 DEF Next, Receiver
=============================================================================
