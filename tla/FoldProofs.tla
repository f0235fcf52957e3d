----------------------------- MODULE FoldProofs -----------------------------
(***************************************************************************)
(* Induction over positions, and what FoldLeft and FoldRight compute.  The *)
(* induction principle is stated for a set of numbers, and a fold for a    *)
(* function that stands for its operator: a prover can instantiate those.  *)
(***************************************************************************)
EXTENDS Integers, SequencesExt, WellFoundedInduction, TLAPS

\* A non-empty set of numbers has a least one.
LEMMA LeastNumber ==
  ASSUME NEW T \in SUBSET Nat, T # {}
  PROVE  \E x \in T : \A y \in T : ~ (y < x)
<1> DEFINE R == {ss \in Nat \X Nat : ss[1] < ss[2]}
<1>1. IsWellFoundedOn(R, Nat)
  BY NatLessThanWellFounded DEF OpToRel
<1>2. \E x \in T : \A y \in T : ~ (<<y, x>> \in R)
  <2> HIDE DEF R
  <2> QED BY <1>1, WFMin
<1> QED BY <1>2

\* Induction up to n.
LEMMA UpTo ==
  ASSUME NEW n \in Nat, NEW S, 0 \in S, \A k \in 1..n : k - 1 \in S => k \in S
  PROVE  \A k \in 0..n : k \in S
<1> DEFINE T == (0..n) \ S
<1> SUFFICES ASSUME T # {} PROVE FALSE
  OBVIOUS
<1>1. PICK x \in T : \A y \in T : ~ (y < x)
  <2>1. T \in SUBSET Nat
    OBVIOUS
  <2> HIDE DEF T
  <2> QED BY <2>1, LeastNumber
<1>2. x \in 1..n /\ x - 1 \in 0..n /\ x - 1 < x
  BY <1>1
<1>3. x - 1 \in S
  BY <1>1, <1>2
<1> QED BY <1>1, <1>2, <1>3

\* Induction down from n.
LEMMA DownFrom ==
  ASSUME NEW n \in Nat, NEW S, n \in S, \A k \in 1..n : k \in S => k - 1 \in S
  PROVE  \A k \in 0..n : k \in S
<1> DEFINE U == {k \in 0..n : n - k \in S}
<1>1. 0 \in U
  OBVIOUS
<1>2. ASSUME NEW k \in 1..n, k - 1 \in U PROVE k \in U
  <2>1. n - (k - 1) \in S /\ n - (k - 1) \in 1..n
    BY <1>2
  <2>2. (n - (k - 1)) - 1 \in S
    BY <2>1
  <2>3. (n - (k - 1)) - 1 = n - k
    OBVIOUS
  <2> QED BY <2>2, <2>3
<1>3. \A k \in 0..n : k \in U
  <2> HIDE DEF U
  <2> QED BY <1>1, <1>2, UpTo
<1> SUFFICES ASSUME NEW k \in 0..n PROVE k \in S
  OBVIOUS
<1>4. n - k \in U /\ n - (n - k) = k
  BY <1>3
<1> QED BY <1>4

\* The greatest number of a set.
LEMMA MaxIs ==
  ASSUME NEW s \in SUBSET Int, NEW m \in s, \A y \in s : y <= m
  PROVE  Max(s) = m
<1> DEFINE x == Max(s)
<1>1. x \in s /\ \A y \in s : x >= y
  BY DEF Max
<1> HIDE DEF x
<1>2. x = m
  BY <1>1
<1> QED BY <1>2 DEF x
\* The least one, likewise.
LEMMA MinIs ==
  ASSUME NEW s \in SUBSET Int, NEW m \in s, \A y \in s : m <= y
  PROVE  Min(s) = m
<1> DEFINE x == Min(s)
<1>1. x \in s /\ \A y \in s : x <= y
  BY DEF Min
<1> HIDE DEF x
<1>2. x = m
  BY <1>1
<1> QED BY <1>2 DEF x

\* T is an operator on A at each of n positions; g and h are functions as in
\* the definitions of FoldLeft and FoldRight, and acc is the run of T that
\* their value is the end of.
Steps(n, A, T) == T \in [1..n -> [A -> A]]
LeftFold(n, A, base, T, g) ==
  /\ g[{}] = base
  /\ \A u \in SUBSET (1..n) : u # {} /\ g[u \ {Max(u)}] \in A
                              => g[u] = T[Max(u)][g[u \ {Max(u)}]]
RightFold(n, A, base, T, g) ==
  /\ g[{}] = base
  /\ \A u \in SUBSET (1..n) : u # {} /\ g[u \ {Min(u)}] \in A
                              => g[u] = T[Min(u)][g[u \ {Min(u)}]]
LeftRuns(n, A, base, T, acc) ==
  /\ acc \in [0..n -> A]
  /\ acc[0] = base
  /\ \A k \in 1..n : acc[k] = T[k][acc[k - 1]]
RightRuns(n, A, base, T, acc) ==
  /\ acc \in [0..n -> A]
  /\ acc[n] = base
  /\ \A k \in 1..n : acc[k - 1] = T[k][acc[k]]

\* The function that FoldLeft is the value of exists when its operator, here
\* T[i] at position i, stays within a set A.
LEMMA FoldLeftExists ==
  ASSUME NEW n \in Nat, NEW A, NEW base \in A, NEW T, Steps(n, A, T)
  PROVE  \E g : g \in [SUBSET (1..n) -> A] /\ LeftFold(n, A, base, T, g)
<1> USE DEF Steps
<1> DEFINE Good(g, k) == /\ g \in [SUBSET (1..k) -> A]
                         /\ \A s \in SUBSET (1..k) :
                              g[s] = IF s = {} THEN base ELSE T[Max(s)][g[s \ {Max(s)}]]
           S == {k \in 0..n : \E g : Good(g, k)}
<1>1. 0 \in S
  <2> DEFINE g == [s \in SUBSET (1..0) |-> base]
  <2>1. \A s \in SUBSET (1..0) : s = {}
    OBVIOUS
  <2>2. Good(g, 0)
    BY <2>1
  <2> HIDE DEF g, Good
  <2> QED BY <2>2
<1>2. ASSUME NEW k \in 1..n, k - 1 \in S PROVE k \in S
  <2>1. PICK g : Good(g, k - 1)
    BY <1>2
  <2> DEFINE h == [s \in SUBSET (1..k) |-> IF k \in s THEN T[k][g[s \ {k}]] ELSE g[s]]
  <2>2. \A s \in SUBSET (1..k) : s \ {k} \in SUBSET (1..(k - 1)) /\ g[s \ {k}] \in A
    BY <2>1
  <2>3. h \in [SUBSET (1..k) -> A]
    <3> SUFFICES ASSUME NEW s \in SUBSET (1..k)
                 PROVE  (IF k \in s THEN T[k][g[s \ {k}]] ELSE g[s]) \in A
      OBVIOUS
    <3>1. k \notin s => s \ {k} = s
      OBVIOUS
    <3> QED BY <2>2, <3>1
  <2>4. ASSUME NEW s \in SUBSET (1..k)
        PROVE  h[s] = IF s = {} THEN base ELSE T[Max(s)][h[s \ {Max(s)}]]
    <3>1. CASE k \in s
      <4>1. Max(s) = k
        BY <3>1, MaxIs
      <4>2. h[s] = T[k][g[s \ {k}]] /\ h[s \ {k}] = g[s \ {k}]
        BY <3>1
      <4> QED BY <3>1, <4>1, <4>2
    <3>2. CASE k \notin s
      <4>1. s \in SUBSET (1..(k - 1)) /\ h[s] = g[s]
        BY <3>2
      <4>2. g[s] = IF s = {} THEN base ELSE T[Max(s)][g[s \ {Max(s)}]]
        BY <2>1, <4>1
      <4>3. h[s \ {Max(s)}] = g[s \ {Max(s)}]
        BY <3>2
      <4> QED BY <4>1, <4>2, <4>3
    <3> QED BY <3>1, <3>2
  <2>5. Good(h, k)
    <3> HIDE DEF h
    <3> QED BY <2>3, <2>4
  <2> HIDE DEF h, Good
  <2> QED BY <2>5
<1>3. n \in S
  <2> HIDE DEF S
  <2>1. \A k \in 0..n : k \in S
    BY <1>1, <1>2, UpTo
  <2> QED BY <2>1
<1>4. PICK g : Good(g, n)
  BY <1>3
<1> QED BY <1>4 DEF LeftFold

\* The same for FoldRight.
LEMMA FoldRightExists ==
  ASSUME NEW n \in Nat, NEW A, NEW base \in A, NEW T, Steps(n, A, T)
  PROVE  \E g : g \in [SUBSET (1..n) -> A] /\ RightFold(n, A, base, T, g)
<1> USE DEF Steps
<1> DEFINE Good(g, k) == /\ g \in [SUBSET ((k + 1)..n) -> A]
                         /\ \A s \in SUBSET ((k + 1)..n) :
                              g[s] = IF s = {} THEN base ELSE T[Min(s)][g[s \ {Min(s)}]]
           S == {k \in 0..n : \E g : Good(g, k)}
<1>1. n \in S
  <2> DEFINE g == [s \in SUBSET ((n + 1)..n) |-> base]
  <2>1. \A s \in SUBSET ((n + 1)..n) : s = {}
    OBVIOUS
  <2>2. Good(g, n)
    BY <2>1
  <2> HIDE DEF g, Good
  <2> QED BY <2>2
<1>2. ASSUME NEW k \in 1..n, k \in S PROVE k - 1 \in S
  <2>1. PICK g : Good(g, k)
    BY <1>2
  <2>0. (k - 1) + 1 = k
    OBVIOUS
  <2> DEFINE h == [s \in SUBSET (k..n) |-> IF k \in s THEN T[k][g[s \ {k}]] ELSE g[s]]
  <2>2. \A s \in SUBSET (k..n) : s \ {k} \in SUBSET ((k + 1)..n) /\ g[s \ {k}] \in A
    BY <2>1
  <2>3. h \in [SUBSET (k..n) -> A]
    <3> SUFFICES ASSUME NEW s \in SUBSET (k..n)
                 PROVE  (IF k \in s THEN T[k][g[s \ {k}]] ELSE g[s]) \in A
      OBVIOUS
    <3>1. k \notin s => s \ {k} = s
      OBVIOUS
    <3> QED BY <2>2, <3>1
  <2>4. ASSUME NEW s \in SUBSET (k..n)
        PROVE  h[s] = IF s = {} THEN base ELSE T[Min(s)][h[s \ {Min(s)}]]
    <3>1. CASE k \in s
      <4>1. Min(s) = k
        BY <3>1, MinIs
      <4>2. h[s] = T[k][g[s \ {k}]] /\ h[s \ {k}] = g[s \ {k}]
        BY <3>1
      <4> QED BY <3>1, <4>1, <4>2
    <3>2. CASE k \notin s
      <4>1. s \in SUBSET ((k + 1)..n) /\ h[s] = g[s]
        BY <3>2
      <4>2. g[s] = IF s = {} THEN base ELSE T[Min(s)][g[s \ {Min(s)}]]
        BY <2>1, <4>1
      <4>3. h[s \ {Min(s)}] = g[s \ {Min(s)}]
        BY <3>2
      <4> QED BY <4>1, <4>2, <4>3
    <3> QED BY <3>1, <3>2
  <2>5. Good(h, k - 1)
    <3> HIDE DEF h
    <3> QED BY <2>0, <2>3, <2>4
  <2> HIDE DEF h, Good
  <2> QED BY <2>0, <2>5
<1>3. 0 \in S
  <2> HIDE DEF S
  <2> QED BY <1>1, <1>2, DownFrom
<1>4. PICK g : Good(g, 0)
  BY <1>3
<1>5. 0 + 1 = 1
  OBVIOUS
<1> QED BY <1>4, <1>5 DEF RightFold

\* The numbers that FoldLeft and FoldRight choose are in the set.
LEMMA MaxIn ==
  ASSUME NEW n \in Nat, NEW s \in SUBSET (1..n), s # {}
  PROVE  Max(s) \in s
<1> DEFINE T == {n - y : y \in s}
<1>1. T \in SUBSET Nat /\ T # {}
  <2>1. \A y \in s : n - y \in Nat
    OBVIOUS
  <2>2. PICK y \in s : TRUE
    OBVIOUS
  <2>3. n - y \in T
    BY <2>2
  <2> QED BY <2>1, <2>3
<1>2. PICK x \in T : \A y \in T : ~ (y < x)
  <2> HIDE DEF T
  <2> QED BY <1>1, LeastNumber
<1>3. PICK m \in s : x = n - m
  BY <1>2
<1>4. ASSUME NEW y \in s PROVE y <= m
  <2>1. n - y \in T
    OBVIOUS
  <2> QED BY <1>2, <1>3, <2>1
<1>5. s \in SUBSET Int
  OBVIOUS
<1> QED BY <1>4, <1>5, MaxIs
\* The least one too.
LEMMA MinIn ==
  ASSUME NEW n \in Nat, NEW s \in SUBSET (1..n), s # {}
  PROVE  Min(s) \in s
<1>1. s \in SUBSET Nat /\ s \in SUBSET Int
  OBVIOUS
<1>2. PICK m \in s : \A y \in s : ~ (y < m)
  BY <1>1, LeastNumber
<1>3. \A y \in s : m <= y
  BY <1>1, <1>2
<1> QED BY <1>1, <1>3, MinIs

\* What comes out of FoldLeft, whose definition has the function h: the last
\* value of a run of its operator.
LEMMA LeftRun ==
  ASSUME NEW n \in Nat, NEW A, NEW base \in A, NEW T, Steps(n, A, T),
         NEW h, LeftFold(n, A, base, T, h)
  PROVE  \E acc : LeftRuns(n, A, base, T, acc) /\ acc[n] = h[1..n]
<1> USE DEF Steps, LeftFold
<1> DEFINE S == {k \in 0..n : h[1..k] \in A}
           acc == [k \in 0..n |-> h[1..k]]
<1>1. h[1..0] = base
  <2>1. 1..0 = {}
    OBVIOUS
  <2> QED BY <2>1
<1>2. ASSUME NEW k \in 1..n, h[1..(k - 1)] \in A
      PROVE  h[1..k] = T[k][h[1..(k - 1)]]
  <2> DEFINE s == 1..k
  <2>1. s \in SUBSET Int /\ k \in s /\ \A y \in s : y <= k
    OBVIOUS
  <2>2. s \ {k} = 1..(k - 1) /\ s \in SUBSET (1..n)
    OBVIOUS
  <2> HIDE DEF s
  <2>3. Max(s) = k
    BY <2>1, MaxIs
  <2>4. h[s] = T[k][h[s \ {k}]]
    BY <1>2, <2>1, <2>2, <2>3
  <2> QED BY <2>2, <2>4 DEF s
<1>3. \A k \in 0..n : k \in S
  <2>1. 0 \in S
    BY <1>1
  <2>2. \A k \in 1..n : k - 1 \in S => k \in S
    BY <1>2
  <2> HIDE DEF S
  <2> QED BY <2>1, <2>2, UpTo
<1>4. acc \in [0..n -> A]
  BY <1>3
<1>5. acc[0] = base /\ acc[n] = h[1..n]
  BY <1>1
<1>6. \A k \in 1..n : acc[k] = T[k][acc[k - 1]]
  BY <1>2, <1>3
<1> HIDE DEF acc
<1> QED BY <1>4, <1>5, <1>6 DEF LeftRuns

\* FoldRight runs from the last position to the first.
LEMMA RightRun ==
  ASSUME NEW n \in Nat, NEW A, NEW base \in A, NEW T, Steps(n, A, T),
         NEW h, RightFold(n, A, base, T, h)
  PROVE  \E acc : RightRuns(n, A, base, T, acc) /\ acc[0] = h[1..n]
<1> USE DEF Steps, RightFold
<1> DEFINE S == {k \in 0..n : h[(k + 1)..n] \in A}
           acc == [k \in 0..n |-> h[(k + 1)..n]]
<1>1. h[(n + 1)..n] = base
  <2>1. (n + 1)..n = {}
    OBVIOUS
  <2> QED BY <2>1
<1>2. ASSUME NEW k \in 1..n, h[(k + 1)..n] \in A
      PROVE  h[k..n] = T[k][h[(k + 1)..n]]
  <2> DEFINE s == k..n
  <2>1. s \in SUBSET Int /\ k \in s /\ \A y \in s : k <= y
    OBVIOUS
  <2>2. s \ {k} = (k + 1)..n /\ s \in SUBSET (1..n)
    OBVIOUS
  <2> HIDE DEF s
  <2>3. Min(s) = k
    BY <2>1, MinIs
  <2>4. h[s] = T[k][h[s \ {k}]]
    BY <1>2, <2>1, <2>2, <2>3
  <2> QED BY <2>2, <2>4 DEF s
<1>0. \A k \in 1..n : (k - 1) + 1 = k
  OBVIOUS
<1>3. \A k \in 0..n : k \in S
  <2>1. n \in S
    BY <1>1
  <2>2. \A k \in 1..n : k \in S => k - 1 \in S
    BY <1>0, <1>2
  <2> HIDE DEF S
  <2> QED BY <2>1, <2>2, DownFrom
<1>4. acc \in [0..n -> A]
  BY <1>3
<1>5. acc[n] = base /\ acc[0] = h[1..n]
  <2>1. 0 + 1 = 1
    OBVIOUS
  <2> QED BY <1>1, <2>1
<1>6. \A k \in 1..n : acc[k - 1] = T[k][acc[k]]
  BY <1>0, <1>2, <1>3
<1> HIDE DEF acc
<1> QED BY <1>4, <1>5, <1>6 DEF RightRuns
=============================================================================
