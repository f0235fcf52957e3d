-------------------------- MODULE BlockChainProofs --------------------------
(***************************************************************************)
(* Proofs about BlockChain, for every finite tree of blocks, every set of  *)
(* invalid ones and any number of crashes and power losses.                *)
(*                                                                         *)
(* Lemmas about its operators come first: chains, heights and work, the    *)
(* choice of a block and the log of the block tree database.  A chain is   *)
(* the least set with its tip that is closed under Parent, so what holds   *)
(* along a chain is shown by exhibiting a closed set.                      *)
(*                                                                         *)
(* The inductive invariant, ChainInv, is built in layers that follow the   *)
(* code: the types of everything; the index and its log (IndexOK); the     *)
(* blocks the coins are written for (CoinsOK); coins, tip and main chain   *)
(* (TipOK); the undo data that leaving the tip needs (UndoOK); what the    *)
(* files keep (FilesKept, CommitOK); what is being attached (AttachOK);    *)
(* and the choice of the best block (BestOK).  A layer uses the ones       *)
(* before it.                                                              *)
(***************************************************************************)
EXTENDS BlockChain, FiniteSetTheorems, TLAPS

----------------------------------------------------------------------------
(* Chains.                                                                 *)

\* A chain holds its own block and blocks only.
LEMMA ChainSelf ==
  ASSUME NEW b \in Blocks
  PROVE  b \in Chain[b] /\ Chain[b] \subseteq Blocks
BY DEF Chain

\* A chain is contained in every closed set that holds its block.
LEMMA ChainLeast ==
  ASSUME NEW b \in Blocks, NEW S \in SUBSET Blocks, b \in S, Closed(S)
  PROVE  Chain[b] \subseteq S
BY DEF Chain

\* With a block, its chain holds the block's parent.
LEMMA ChainParent ==
  ASSUME NEW b \in Blocks, NEW c \in Chain[b], c # Genesis
  PROVE  Parent[c] \in Chain[b]
<1>1. c \in Blocks /\ Parent[c] \in Blocks
  BY ChainSelf, TreeAssumption DEF TreeAssumption
<1>2. ASSUME NEW S \in SUBSET Blocks, b \in S, Closed(S)
      PROVE  Parent[c] \in S
  <2>1. c \in S
    BY <1>2, ChainLeast
  <2> QED BY <1>2, <2>1 DEF Closed
<1> QED BY <1>1, <1>2 DEF Chain

\* A chain is closed under Parent.
LEMMA ChainClosed ==
  ASSUME NEW b \in Blocks
  PROVE  Closed(Chain[b])
BY ChainParent DEF Closed

\* The chain of a block of a chain is part of it.
LEMMA ChainSub ==
  ASSUME NEW b \in Blocks, NEW a \in Chain[b]
  PROVE  a \in Blocks /\ Chain[a] \subseteq Chain[b]
BY ChainSelf, ChainLeast, ChainClosed

\* A chain is its block and the chain of the block's parent.
LEMMA ChainOfParent ==
  ASSUME NEW b \in Blocks, b # Genesis
  PROVE  Parent[b] \in Blocks /\ Chain[b] = {b} \union Chain[Parent[b]]
<1> DEFINE S == {b} \union Chain[Parent[b]]
<1>1. Parent[b] \in Blocks
  BY TreeAssumption DEF TreeAssumption
<1>2. S \in SUBSET Blocks
  BY <1>1, ChainSelf
<1>3. Closed(S)
  BY <1>1, ChainSelf, ChainParent DEF Closed
<1>4. Chain[b] \subseteq S
  BY <1>2, <1>3, ChainLeast
<1>5. b \in Chain[b] /\ Chain[Parent[b]] \subseteq Chain[b]
  BY ChainSelf, ChainParent, ChainSub
<1> QED BY <1>1, <1>4, <1>5

\* The chain of the genesis block is that block.
LEMMA ChainOfGenesis ==
  Genesis \in Blocks /\ Chain[Genesis] = {Genesis}
<1>1. Genesis \in Blocks
  BY TreeAssumption DEF TreeAssumption
<1>2. Closed({Genesis})
  BY DEF Closed
<1> QED BY <1>1, <1>2, ChainLeast, ChainSelf

\* Work is a number, and grows along a chain.
LEMMA WorkType ==
  ASSUME NEW b \in Blocks
  PROVE  ChainWork[b] \in Nat /\ ChainWork[b] \in Int
BY WorkAssumption DEF WorkAssumption

\* Work grows along a chain.
LEMMA WorkOnChain ==
  ASSUME NEW b \in Blocks, NEW a \in Chain[b]
  PROVE  ChainWork[a] <= ChainWork[b] /\ (ChainWork[a] = ChainWork[b] => a = b)
<1> DEFINE S == {c \in Chain[b] : c = b \/ ChainWork[c] < ChainWork[b]}
<1>1. S \in SUBSET Blocks /\ b \in S
  BY ChainSelf
<1>2. ASSUME NEW c \in S \ {Genesis}
      PROVE  Parent[c] \in S
  <2>1. Parent[c] \in Chain[b]
    BY <1>2, ChainParent
  <2>2. c \in Blocks /\ Parent[c] \in Blocks
    BY <1>1, <1>2, <2>1, ChainSelf
  <2>3. ChainWork[Parent[c]] < ChainWork[c]
    BY <1>2, <2>2, WorkAssumption DEF WorkAssumption
  <2>4. ChainWork[Parent[c]] < ChainWork[b]
    BY <1>2, <2>2, <2>3, WorkType
  <2> QED BY <2>1, <2>4
<1>3. Closed(S)
  BY <1>2 DEF Closed
<1>4. Chain[b] \subseteq S
  BY <1>1, <1>3, ChainLeast
<1>5. a \in S /\ a \in Blocks
  BY <1>1, <1>4
<1>6. CASE a = b
  BY <1>6, WorkType
<1>7. CASE ChainWork[a] < ChainWork[b]
  BY <1>5, <1>7, WorkType
<1> QED BY <1>5, <1>6, <1>7

\* A function on a finite set that is not empty has a least value.
LEMMA LeastValue ==
  ASSUME NEW S, IsFiniteSet(S), S # {}, NEW f \in [S -> Int]
  PROVE  \E m \in S : \A k \in S : f[m] <= f[k]
<1> DEFINE below(x) == {y \in S : f[y] <= f[x]}
           T == {below(x) : x \in S}
           R == StrictSubsetOrdering(S)
<1>1. T \subseteq FiniteSubsetsOf(S)
  BY FS_Subset DEF FiniteSubsetsOf
<1>2. T # {}
  <2>1. PICK x \in S : TRUE
    OBVIOUS
  <2>2. below(x) \in T
    OBVIOUS
  <2> QED BY <2>2
<1>3. IsWellFoundedOn(R, FiniteSubsetsOf(S))
  BY FS_StrictSubsetOrderingWellFounded
<1>4. PICK B \in T : \A C \in T : ~ (<<C, B>> \in R)
  <2> HIDE DEF T, R
  <2> QED BY <1>1, <1>2, <1>3, WFMin
<1>5. PICK m \in S : B = below(m)
  OBVIOUS
<1>6. ASSUME NEW k \in S, ~ (f[m] <= f[k]) PROVE FALSE
  <2>1. below(k) \subseteq below(m) /\ m \notin below(k) /\ m \in below(m)
    BY <1>6
  <2>2. <<below(k), below(m)>> \in R
    BY <2>1 DEF StrictSubsetOrdering
  <2> QED BY <1>4, <1>5, <2>2
<1> QED BY <1>6

\* A set of blocks is finite.
LEMMA FiniteBlocks ==
  ASSUME NEW S \in SUBSET Blocks
  PROVE  IsFiniteSet(S) /\ Cardinality(S) \in Nat
BY TreeAssumption, FS_Subset, FS_CardinalityType DEF TreeAssumption

\* Lowest is one of the blocks of the set, and none has less work.
LEMMA LowestIs ==
  ASSUME NEW S \in SUBSET Blocks, S # {}
  PROVE  Lowest(S) \in S /\ \A c \in S : ChainWork[Lowest(S)] <= ChainWork[c]
<1> DEFINE f == [x \in S |-> ChainWork[x]]
<1>1. f \in [S -> Int]
  BY WorkType
<1>2. \E m \in S : \A k \in S : f[m] <= f[k]
  <2> HIDE DEF f
  <2> QED BY <1>1, FiniteBlocks, LeastValue
<1>3. \E m \in S : \A k \in S : ChainWork[m] <= ChainWork[k]
  BY <1>2
<1> QED BY <1>3 DEF Lowest

\* Highest is one of the blocks of the set, and none has more work.
LEMMA HighestIs ==
  ASSUME NEW S \in SUBSET Blocks, S # {}
  PROVE  Highest(S) \in S /\ \A c \in S : ChainWork[c] <= ChainWork[Highest(S)]
<1> DEFINE f == [x \in S |-> 0 - ChainWork[x]]
<1>1. f \in [S -> Int]
  BY WorkType
<1>2. \E m \in S : \A k \in S : f[m] <= f[k]
  <2> HIDE DEF f
  <2> QED BY <1>1, FiniteBlocks, LeastValue
<1>3. \A x \in S : ChainWork[x] \in Int
  BY WorkType
<1>4. \E m \in S : \A k \in S : ChainWork[k] <= ChainWork[m]
  BY <1>2, <1>3
<1> QED BY <1>4 DEF Highest

\* Every chain goes down to the genesis block.
LEMMA GenesisOnChain ==
  ASSUME NEW b \in Blocks
  PROVE  Genesis \in Chain[b]
<1>1. Chain[b] \in SUBSET Blocks /\ Chain[b] # {}
  BY ChainSelf
<1>2. PICK m \in Chain[b] : \A k \in Chain[b] : ChainWork[m] <= ChainWork[k]
  BY <1>1, LowestIs
<1>3. ASSUME m # Genesis PROVE FALSE
  <2>1. Parent[m] \in Chain[b]
    BY <1>3, ChainParent
  <2>2. m \in Blocks /\ Parent[m] \in Blocks
    BY <1>1, <2>1
  <2>3. ChainWork[Parent[m]] < ChainWork[m]
    BY <1>3, <2>2, WorkAssumption DEF WorkAssumption
  <2> QED BY <1>2, <2>1, <2>2, <2>3, WorkType
<1> QED BY <1>3

\* Of two blocks of a chain, one is on the chain of the other.
LEMMA ChainTotal ==
  ASSUME NEW b \in Blocks, NEW a \in Chain[b], NEW c \in Chain[b]
  PROVE  a \in Chain[c] \/ c \in Chain[a]
<1> DEFINE S == {x \in Chain[b] : \A y \in Chain[b] : x \in Chain[y] \/ y \in Chain[x]}
<1>1. S \in SUBSET Blocks /\ b \in S
  BY ChainSelf
<1>2. ASSUME NEW x \in S \ {Genesis}
      PROVE  Parent[x] \in S
  <2>1. x \in Blocks /\ Parent[x] \in Chain[b]
    BY <1>1, <1>2, ChainParent
  <2>2. ASSUME NEW y \in Chain[b]
        PROVE  Parent[x] \in Chain[y] \/ y \in Chain[Parent[x]]
    <3>1. y \in Blocks
      BY ChainSelf
    <3>2. CASE x \in Chain[y]
      BY <1>2, <3>1, <3>2, ChainParent
    <3>3. CASE y \in Chain[x] /\ y # x
      BY <1>2, <2>1, <3>3, ChainOfParent
    <3>4. CASE y = x
      BY <1>2, <2>1, <3>4, ChainOfParent, ChainSelf
    <3> QED BY <1>2, <3>2, <3>3, <3>4
  <2> QED BY <2>1, <2>2
<1>3. Closed(S)
  BY <1>2 DEF Closed
<1> QED BY <1>1, <1>3, ChainLeast

\* On one chain the order by work is the order of the chain.
LEMMA ChainOrder ==
  ASSUME NEW b \in Blocks, NEW a \in Chain[b], NEW c \in Chain[b],
         ChainWork[a] <= ChainWork[c]
  PROVE  a \in Chain[c]
<1>1. a \in Blocks /\ c \in Blocks
  BY ChainSelf
<1>2. CASE c \in Chain[a]
  <2>1. ChainWork[c] <= ChainWork[a] /\ (ChainWork[c] = ChainWork[a] => c = a)
    BY <1>1, <1>2, WorkOnChain
  <2>2. c = a
    BY <1>1, <2>1, WorkType
  <2> QED BY <1>1, <2>2, ChainSelf
<1> QED BY <1>2, ChainTotal

\* Two blocks of one chain with the same work are the same.
LEMMA ChainInjective ==
  ASSUME NEW b \in Blocks, NEW a \in Chain[b], NEW c \in Chain[b],
         ChainWork[a] = ChainWork[c]
  PROVE  a = c
<1>1. a \in Blocks /\ c \in Blocks
  BY ChainSelf
<1>2. a \in Chain[c]
  BY <1>1, WorkType, ChainOrder
<1> QED BY <1>1, <1>2, WorkOnChain

----------------------------------------------------------------------------
(* Heights.                                                                *)

\* A height is a number up to MaxHeight.
LEMMA HeightType ==
  ASSUME NEW b \in Blocks
  PROVE  /\ Height[b] \in 0..MaxHeight
         /\ Height[b] \in Nat /\ MaxHeight \in Nat
         /\ Cardinality(Chain[b]) = Height[b] + 1
<1>1. IsFiniteSet(Blocks) /\ Chain[b] \in SUBSET Blocks /\ Chain[b] # {}
  BY ChainSelf, TreeAssumption DEF TreeAssumption
<1>2. Cardinality(Blocks) \in Nat /\ Cardinality(Chain[b]) \in Nat
  BY <1>1, FiniteBlocks, FS_CardinalityType
<1>3. Cardinality(Chain[b]) <= Cardinality(Blocks)
  BY <1>1, FS_Subset
<1>4. Cardinality(Chain[b]) # 0
  BY <1>1, FiniteBlocks, FS_EmptySet
<1>5. Height[b] = Cardinality(Chain[b]) - 1
  BY DEF Height
<1> QED BY <1>2, <1>3, <1>4, <1>5 DEF MaxHeight

\* Height grows along a chain.
LEMMA HeightOnChain ==
  ASSUME NEW b \in Blocks, NEW a \in Chain[b]
  PROVE  Height[a] <= Height[b] /\ (Height[a] = Height[b] => a = b)
<1>1. a \in Blocks /\ Chain[a] \in SUBSET Chain[b]
  BY ChainSub
<1>2. IsFiniteSet(Chain[b])
  BY ChainSelf, FiniteBlocks
<1>3. /\ Cardinality(Chain[a]) <= Cardinality(Chain[b])
      /\ Cardinality(Chain[b]) = Cardinality(Chain[a]) => Chain[b] = Chain[a]
  BY <1>1, <1>2, FS_Subset
<1>4. /\ Cardinality(Chain[a]) = Height[a] + 1 /\ Cardinality(Chain[b]) = Height[b] + 1
      /\ Height[a] \in Nat /\ Height[b] \in Nat
  BY <1>1, HeightType
<1>5. ASSUME Chain[a] = Chain[b] PROVE a = b
  <2>1. b \in Chain[a]
    BY <1>5, ChainSelf
  <2>2. ChainWork[a] <= ChainWork[b] /\ ChainWork[b] <= ChainWork[a]
    BY <1>1, <2>1, WorkOnChain
  <2>3. ChainWork[a] = ChainWork[b]
    BY <1>1, <2>2, WorkType
  <2> QED BY <2>3, WorkOnChain
<1>6. Height[a] <= Height[b]
  BY <1>3, <1>4
<1>7. ASSUME Height[a] = Height[b] PROVE a = b
  BY <1>3, <1>4, <1>5, <1>7
<1> QED BY <1>6, <1>7

\* On one chain the order by height is the order of the chain.
LEMMA HeightOrder ==
  ASSUME NEW b \in Blocks, NEW a \in Chain[b], NEW c \in Chain[b],
         Height[a] <= Height[c]
  PROVE  a \in Chain[c] /\ (Height[a] = Height[c] => a = c)
<1>1. a \in Blocks /\ c \in Blocks
  BY ChainSelf
<1>2. Height[a] \in Nat /\ Height[c] \in Nat
  BY <1>1, HeightType
<1>3. CASE c \in Chain[a]
  <2>1. Height[c] <= Height[a] /\ (Height[c] = Height[a] => c = a)
    BY <1>1, <1>3, HeightOnChain
  <2>2. c = a
    BY <1>2, <2>1
  <2> QED BY <1>1, <2>2, ChainSelf
<1>4. CASE a \in Chain[c]
  BY <1>1, <1>4, HeightOnChain
<1> QED BY <1>3, <1>4, ChainTotal

\* A chain has a block at every height up to its own.
LEMMA HeightOnto ==
  ASSUME NEW b \in Blocks, NEW h \in 0..MaxHeight, h <= Height[b]
  PROVE  \E a \in Chain[b] : Height[a] = h
<1> DEFINE H == 0..Height[b]
           f == [a \in Chain[b] |-> Height[a]]
<1>1. Height[b] \in Nat /\ Cardinality(Chain[b]) = Height[b] + 1
  BY HeightType
<1>2. 0 \in Int /\ Height[b] \in Int
  BY <1>1
<1>3. IsFiniteSet(H) /\ Cardinality(H) = Height[b] + 1
  <2>1. IsFiniteSet(H) /\ Cardinality(H) = IF 0 > Height[b] THEN 0 ELSE Height[b] - 0 + 1
    BY <1>2, FS_Interval
  <2> QED BY <1>1, <2>1
<1>4. f \in [Chain[b] -> H]
  <2>1. ASSUME NEW a \in Chain[b] PROVE Height[a] \in H
    <3>1. a \in Blocks
      BY ChainSelf
    <3> QED BY <1>1, <3>1, HeightType, HeightOnChain
  <2> QED BY <2>1
<1>5. ASSUME NEW a \in Chain[b], NEW c \in Chain[b], f[a] = f[c]
      PROVE  a = c
  <2>1. a \in Blocks /\ Height[a] = Height[c]
    BY <1>5, ChainSelf
  <2>2. Height[a] <= Height[c]
    BY <2>1, HeightType
  <2> QED BY <2>1, <2>2, HeightOrder
<1>6. f \in Injection(Chain[b], H)
  BY <1>4, <1>5 DEF Injection, IsInjective
<1>7. f \in Surjection(Chain[b], H)
  <2> HIDE DEF f, H
  <2> QED BY <1>1, <1>3, <1>6, FS_Injection
<1>8. h \in H
  BY <1>1
<1> QED BY <1>7, <1>8 DEF Surjection

----------------------------------------------------------------------------
(* The log of the block tree database.                                     *)

\* Ascending lists the blocks of a set of one chain.
LEMMA AscendingLists ==
  ASSUME NEW b \in Blocks, NEW S \in SUBSET Chain[b]
  PROVE  /\ Ascending(S) \in Seq(S)
         /\ \A c \in S : \E i \in 1..Len(Ascending(S)) : Ascending(S)[i] = c
<1> DEFINE upto(x) == {c \in S : ChainWork[c] <= ChainWork[x]}
           n == Cardinality(S)
           rank == [x \in S |-> Cardinality(upto(x))]
<1>1. S \in SUBSET Blocks /\ IsFiniteSet(S) /\ n \in Nat
  BY ChainSelf, FiniteBlocks
<1>2. ASSUME NEW x \in S
      PROVE  /\ IsFiniteSet(upto(x)) /\ upto(x) \in SUBSET S
             /\ Cardinality(upto(x)) \in 1..n
  <2>1. upto(x) \in SUBSET S /\ upto(x) # {}
    BY <1>1, WorkType
  <2>2. IsFiniteSet(upto(x)) /\ Cardinality(upto(x)) \in Nat
    BY <1>1, <2>1, FiniteBlocks
  <2>3. Cardinality(upto(x)) <= n
    BY <1>1, <2>1, FS_Subset
  <2>4. Cardinality(upto(x)) # 0
    BY <2>1, <2>2, FS_EmptySet
  <2> QED BY <1>1, <2>1, <2>2, <2>3, <2>4
<1>3. ASSUME NEW x \in S, NEW y \in S, rank[x] = rank[y], ChainWork[x] <= ChainWork[y]
      PROVE  x = y
  <2>1. ChainWork[x] \in Int /\ ChainWork[y] \in Int /\ \A c \in S : ChainWork[c] \in Int
    BY <1>1, WorkType
  <2>2. upto(x) \in SUBSET upto(y)
    BY <1>3, <2>1
  <2>3. upto(y) = upto(x)
    BY <1>2, <1>3, <2>2, FS_Subset
  <2>4. y \in upto(x)
    BY <2>1, <2>3
  <2>5. ChainWork[x] = ChainWork[y]
    BY <1>3, <2>1, <2>4
  <2> QED BY <2>5, ChainInjective
<1>4. \A x \in S, y \in S : rank[x] = rank[y] => x = y
  <2>1. ASSUME NEW x \in S, NEW y \in S, rank[x] = rank[y] PROVE x = y
    <3>1. ChainWork[x] <= ChainWork[y] \/ ChainWork[y] <= ChainWork[x]
      BY <1>1, WorkType
    <3> HIDE DEF rank
    <3> QED BY <1>3, <2>1, <3>1
  <2> QED BY <2>1
<1>5. rank \in [S -> 1..n]
  BY <1>2
<1>6. rank \in Injection(S, 1..n)
  BY <1>4, <1>5 DEF Injection, IsInjective
<1>7. IsFiniteSet(1..n) /\ Cardinality(1..n) = n
  <2>1. 1 \in Int /\ n \in Int
    BY <1>1
  <2>2. IsFiniteSet(1..n) /\ Cardinality(1..n) = IF 1 > n THEN 0 ELSE n - 1 + 1
    BY <2>1, FS_Interval
  <2> QED BY <1>1, <2>2
<1>8. rank \in Surjection(S, 1..n)
  <2> HIDE DEF rank
  <2> QED BY <1>6, <1>7, FS_Injection
<1>9. \A i \in 1..n : \E x \in S : Cardinality(upto(x)) = i
  BY <1>8 DEF Surjection
<1>10. Ascending(S) = [i \in 1..n |-> CHOOSE x \in S : Cardinality(upto(x)) = i]
  BY DEF Ascending
<1>11. \A i \in 1..n : Ascending(S)[i] \in S /\ Cardinality(upto(Ascending(S)[i])) = i
  BY <1>9, <1>10
<1>12. Ascending(S) \in Seq(S) /\ Len(Ascending(S)) = n
  <2> HIDE DEF upto
  <2> QED BY <1>1, <1>10, <1>11
<1>13. ASSUME NEW c \in S PROVE \E i \in 1..n : Ascending(S)[i] = c
  <2> DEFINE i == Cardinality(upto(c))
  <2>1. i \in 1..n
    BY <1>2
  <2>2. Ascending(S)[i] \in S /\ rank[Ascending(S)[i]] = rank[c]
    BY <1>11, <2>1
  <2>3. Ascending(S)[i] = c
    BY <1>4, <2>2
  <2> QED BY <2>1, <2>3
<1> QED BY <1>12, <1>13

Entries == [block : Blocks, status : SUBSET Flags]

\* TreeAfter as a function of the database and its log.
After(db, log, k) ==
  [b \in Blocks |->
    LET is == {i \in 1..k : log[i].block = b}
    IN  IF is = {} THEN db[b]
        ELSE log[CHOOSE i \in is : \A j \in is : j <= i].status]

\* The last write of a block decides, and without one what was synced does.
LEMMA AfterIs ==
  ASSUME NEW db, NEW log, NEW k \in Nat, NEW b \in Blocks
  PROVE  \/ /\ ~ \E i \in 1..k : log[i].block = b
            /\ After(db, log, k)[b] = db[b]
         \/ \E i \in 1..k : /\ log[i].block = b
                            /\ \A j \in 1..k : log[j].block = b => j <= i
                            /\ After(db, log, k)[b] = log[i].status
<1> DEFINE is == {i \in 1..k : log[i].block = b}
           neg == [i \in is |-> 0 - i]
<1>1. CASE is = {}
  BY <1>1 DEF After
<1>2. CASE is # {}
  <2>1. IsFiniteSet(is)
    <3>1. IsFiniteSet(1..k)
      BY FS_Interval
    <3> QED BY <3>1, FS_Subset
  <2>2. neg \in [is -> Int]
    OBVIOUS
  <2>3. \E m \in is : \A j \in is : neg[m] <= neg[j]
    <3> HIDE DEF is, neg
    <3> QED BY <1>2, <2>1, <2>2, LeastValue
  <2>4. \E m \in is : \A j \in is : j <= m
    <3>1. PICK m \in is : \A j \in is : neg[m] <= neg[j]
      BY <2>3
    <3>2. ASSUME NEW j \in is PROVE j <= m
      <4>1. neg[m] = 0 - m /\ neg[j] = 0 - j /\ m \in Int /\ j \in Int
        OBVIOUS
      <4> HIDE DEF neg, is
      <4> QED BY <3>1, <4>1
    <3> QED BY <3>2
  <2> DEFINE m == CHOOSE i \in is : \A j \in is : j <= i
  <2>5. m \in is /\ \A j \in is : j <= m
    <3> HIDE DEF is
    <3> QED BY <2>4
  <2>6. After(db, log, k)[b] = log[m].status
    BY <1>2 DEF After
  <2> HIDE DEF m
  <2> QED BY <2>5, <2>6
<1> QED BY <1>1, <1>2

\* A write behind the first k does not change what they amount to.
LEMMA AfterPrefix ==
  ASSUME NEW db, NEW log \in Seq(Entries), NEW w \in Seq(Entries), NEW k \in 0..Len(log)
  PROVE  After(db, log \o w, k) = After(db, log, k)
<1>1. \A i \in 1..k : (log \o w)[i] = log[i]
  OBVIOUS
<1>2. ASSUME NEW b \in Blocks
      PROVE  After(db, log \o w, k)[b] = After(db, log, k)[b]
  <2>1. {i \in 1..k : (log \o w)[i].block = b} = {i \in 1..k : log[i].block = b}
    BY <1>1
  <2>2. k \in Nat
    OBVIOUS
  <2>3. \/ /\ ~ \E i \in 1..k : log[i].block = b
           /\ After(db, log, k)[b] = db[b]
        \/ \E i \in 1..k : /\ log[i].block = b
                           /\ \A j \in 1..k : log[j].block = b => j <= i
                           /\ After(db, log, k)[b] = log[i].status
    BY <2>2, AfterIs
  <2>4. \/ /\ ~ \E i \in 1..k : (log \o w)[i].block = b
           /\ After(db, log \o w, k)[b] = db[b]
        \/ \E i \in 1..k : /\ (log \o w)[i].block = b
                           /\ \A j \in 1..k : (log \o w)[j].block = b => j <= i
                           /\ After(db, log \o w, k)[b] = (log \o w)[i].status
    <3> DEFINE all == log \o w
    <3> HIDE DEF all
    <3>1. \/ /\ ~ \E i \in 1..k : all[i].block = b
             /\ After(db, all, k)[b] = db[b]
          \/ \E i \in 1..k : /\ all[i].block = b
                             /\ \A j \in 1..k : all[j].block = b => j <= i
                             /\ After(db, all, k)[b] = all[i].status
      BY <2>2, AfterIs
    <3> QED BY <3>1 DEF all
  <2> QED BY <1>1, <2>3, <2>4
<1> QED BY <1>2 DEF After

\* What some of the writes of w behind a log do to one block.
LEMMA AfterMore ==
  ASSUME NEW db, NEW log \in Seq(Entries), NEW w \in Seq(Entries),
         NEW m \in 0..Len(w), NEW b \in Blocks
  PROVE  \/ /\ ~ \E i \in 1..m : w[i].block = b
            /\ After(db, log \o w, Len(log) + m)[b] = After(db, log, Len(log))[b]
         \/ \E i \in 1..m : /\ w[i].block = b
                            /\ After(db, log \o w, Len(log) + m)[b] = w[i].status
<1> DEFINE n == Len(log)
           all == log \o w
<1>0. n \in Nat /\ m \in Nat /\ n + m \in Nat
  OBVIOUS
<1>1. /\ \A i \in 1..n : all[i] = log[i]
      /\ \A i \in 1..m : all[n + i] = w[i]
  OBVIOUS
<1>2. \/ /\ ~ \E i \in 1..n+m : all[i].block = b
         /\ After(db, all, n + m)[b] = db[b]
      \/ \E i \in 1..n+m : /\ all[i].block = b
                           /\ \A j \in 1..n+m : all[j].block = b => j <= i
                           /\ After(db, all, n + m)[b] = all[i].status
  <2> HIDE DEF n, all
  <2> QED BY <1>0, AfterIs
<1>3. \/ /\ ~ \E i \in 1..n : log[i].block = b
         /\ After(db, log, n)[b] = db[b]
      \/ \E i \in 1..n : /\ log[i].block = b
                         /\ \A j \in 1..n : log[j].block = b => j <= i
                         /\ After(db, log, n)[b] = log[i].status
  <2> HIDE DEF n
  <2> QED BY <1>0, AfterIs
<1> HIDE DEF n, all
<1>4. CASE \E i \in 1..m : w[i].block = b
  <2>1. PICK i \in 1..m : w[i].block = b
    BY <1>4
  <2>2. n + i \in 1..n+m /\ all[n + i].block = b
    BY <1>0, <1>1, <2>1
  <2>3. PICK x \in 1..n+m : /\ all[x].block = b
                            /\ \A j \in 1..n+m : all[j].block = b => j <= x
                            /\ After(db, all, n + m)[b] = all[x].status
    BY <1>2, <2>2
  <2>4. n + i <= x
    BY <2>2, <2>3
  <2>5. x - n \in 1..m /\ n + (x - n) = x
    BY <1>0, <2>4
  <2>6. all[x] = w[x - n]
    BY <1>1, <2>5
  <2> QED BY <2>3, <2>5, <2>6 DEF n, all
<1>5. CASE ~ \E i \in 1..m : w[i].block = b
  <2>1. ASSUME NEW x \in 1..n+m, all[x].block = b PROVE x \in 1..n
    <3>1. CASE x > n
      <4>1. x - n \in 1..m /\ n + (x - n) = x
        BY <1>0, <3>1
      <4>2. all[x] = w[x - n]
        BY <1>1, <4>1
      <4> QED BY <1>5, <2>1, <4>1, <4>2
    <3> QED BY <1>0, <3>1
  <2>2. 1..n \subseteq 1..n+m
    BY <1>0
  <2>3. CASE ~ \E i \in 1..n : log[i].block = b
    BY <1>1, <1>2, <1>3, <1>5, <2>1, <2>2, <2>3 DEF n, all
  <2>4. CASE \E i \in 1..n : log[i].block = b
    <3>1. PICK y \in 1..n : /\ log[y].block = b
                            /\ \A j \in 1..n : log[j].block = b => j <= y
                            /\ After(db, log, n)[b] = log[y].status
      BY <1>3, <2>4
    <3>2. y \in 1..n+m /\ all[y].block = b
      BY <1>1, <2>2, <3>1
    <3>3. PICK x \in 1..n+m : /\ all[x].block = b
                              /\ \A j \in 1..n+m : all[j].block = b => j <= x
                              /\ After(db, all, n + m)[b] = all[x].status
      BY <1>2, <3>2
    <3>4. x \in 1..n
      BY <2>1, <3>3
    <3>5. x <= y /\ y <= x
      BY <1>1, <3>1, <3>2, <3>3, <3>4
    <3>6. x = y
      BY <3>5
    <3> QED BY <1>1, <1>5, <3>1, <3>3, <3>6 DEF n, all
  <2> QED BY <2>3, <2>4
<1> QED BY <1>4, <1>5

\* w brings the entries of the blocks of S from old to new, in some order.
WritesOf(w, S, old, new) ==
  /\ w \in Seq(Entries)
  /\ \A i \in 1..Len(w) : w[i].block \in S /\ w[i].status = new[w[i].block]
  /\ \A b \in S : new[b] = old[b] \/ \E i \in 1..Len(w) : w[i].block = b

\* What such writes do to the database, after each one and after all of them.
LEMMA LogWritten ==
  ASSUME NEW db, NEW log \in Seq(Entries), NEW w, NEW S \in SUBSET Blocks, NEW new,
         WritesOf(w, S, After(db, log, Len(log)), new)
  PROVE  /\ log \o w \in Seq(Entries)
         /\ \A k \in 0..Len(log \o w) :
               \/ k \in 0..Len(log) /\ After(db, log \o w, k) = After(db, log, k)
               \/ \A b \in Blocks :
                     \/ After(db, log \o w, k)[b] = After(db, log, Len(log))[b]
                     \/ b \in S /\ After(db, log \o w, k)[b] = new[b]
         /\ \A b \in Blocks :
               After(db, log \o w, Len(log \o w))[b] =
                  IF b \in S THEN new[b] ELSE After(db, log, Len(log))[b]
<1>1. w \in Seq(Entries) /\ log \o w \in Seq(Entries)
  BY DEF WritesOf
<1>2. Len(log \o w) = Len(log) + Len(w) /\ Len(log) \in Nat /\ Len(w) \in Nat
  BY <1>1
<1>3. ASSUME NEW m \in 0..Len(w), NEW b \in Blocks
      PROVE  \/ /\ ~ \E i \in 1..m : w[i].block = b
                /\ After(db, log \o w, Len(log) + m)[b] = After(db, log, Len(log))[b]
             \/ /\ b \in S
                /\ \E i \in 1..m : w[i].block = b
                /\ After(db, log \o w, Len(log) + m)[b] = new[b]
  <2>1. \/ /\ ~ \E i \in 1..m : w[i].block = b
           /\ After(db, log \o w, Len(log) + m)[b] = After(db, log, Len(log))[b]
        \/ \E i \in 1..m : /\ w[i].block = b
                           /\ After(db, log \o w, Len(log) + m)[b] = w[i].status
    BY <1>1, AfterMore
  <2>2. \A i \in 1..m : w[i].block \in S /\ w[i].status = new[w[i].block]
    BY <1>2 DEF WritesOf
  <2> QED BY <2>1, <2>2
<1>4. ASSUME NEW k \in 0..Len(log \o w)
      PROVE  \/ k \in 0..Len(log) /\ After(db, log \o w, k) = After(db, log, k)
             \/ \A b \in Blocks :
                   \/ After(db, log \o w, k)[b] = After(db, log, Len(log))[b]
                   \/ b \in S /\ After(db, log \o w, k)[b] = new[b]
  <2>1. CASE k \in 0..Len(log)
    BY <1>1, <2>1, AfterPrefix
  <2>2. CASE k \notin 0..Len(log)
    <3>1. PICK m \in 0..Len(w) : k = Len(log) + m
      <4>1. k - Len(log) \in 0..Len(w) /\ k = Len(log) + (k - Len(log))
        BY <1>2, <2>2
      <4> QED BY <4>1
    <3> QED BY <1>3, <3>1
  <2> QED BY <2>1, <2>2
<1>5. ASSUME NEW b \in Blocks
      PROVE  After(db, log \o w, Len(log \o w))[b] =
               IF b \in S THEN new[b] ELSE After(db, log, Len(log))[b]
  <2>1. Len(w) \in 0..Len(w)
    BY <1>2
  <2>2. b \in S => \/ new[b] = After(db, log, Len(log))[b]
                   \/ \E i \in 1..Len(w) : w[i].block = b
    BY DEF WritesOf
  <2>3. \A i \in 1..Len(w) : w[i].block \in S
    BY DEF WritesOf
  <2>4. \/ /\ ~ \E i \in 1..Len(w) : w[i].block = b
           /\ After(db, log \o w, Len(log \o w))[b] = After(db, log, Len(log))[b]
        \/ /\ b \in S
           /\ \E i \in 1..Len(w) : w[i].block = b
           /\ After(db, log \o w, Len(log \o w))[b] = new[b]
    BY <1>2, <1>3, <2>1
  <2> QED BY <2>2, <2>3, <2>4
<1> QED BY <1>1, <1>4, <1>5

\* TreeAfter and StoredTree in these terms.
LEMMA TreeAfterIs ==
  /\ \A k : TreeAfter(k) = After(treeDB, treeLog, k)
  /\ StoredTree = After(treeDB, treeLog, Len(treeLog))
BY DEF TreeAfter, After, StoredTree

\* Writes, for blocks of one chain.
LEMMA WritesAre ==
  ASSUME NEW b \in Blocks, NEW S \in SUBSET Chain[b], NEW new \in [Blocks -> SUBSET Flags]
  PROVE  WritesOf(Writes(S, new), S, StoredTree, new)
<1> DEFINE D == {c \in S : new[c] # StoredTree[c]}
           s == Ascending(D)
           w == [i \in 1..Len(s) |-> [block |-> s[i], status |-> new[s[i]]]]
<1>1. S \in SUBSET Blocks /\ D \in SUBSET Chain[b]
  BY ChainSelf
<1>2. s \in Seq(D) /\ \A c \in D : \E i \in 1..Len(s) : s[i] = c
  <2> HIDE DEF D
  <2> QED BY <1>1, AscendingLists
<1>3. Writes(S, new) = w
  BY DEF Writes
<1> HIDE DEF s
<1>4. \A i \in 1..Len(s) : s[i] \in D
  BY <1>2
<1>5. Len(s) \in Nat
  BY <1>2
<1>6. \A i \in 1..Len(s) : w[i] \in Entries /\ w[i].block = s[i] /\ w[i].status = new[s[i]]
  BY <1>1, <1>4 DEF Entries
<1>7. w \in Seq(Entries) /\ Len(w) = Len(s)
  BY <1>5, <1>6
<1> HIDE DEF w
<1>8. \A i \in 1..Len(w) : w[i].block \in S /\ w[i].status = new[w[i].block]
  BY <1>4, <1>6, <1>7
<1>9. \A c \in S : new[c] = StoredTree[c] \/ \E i \in 1..Len(w) : w[i].block = c
  <2>1. ASSUME NEW c \in S, new[c] # StoredTree[c]
        PROVE  \E i \in 1..Len(w) : w[i].block = c
    <3>1. c \in D
      BY <2>1
    <3>2. PICK i \in 1..Len(s) : s[i] = c
      BY <1>2, <3>1
    <3> QED BY <1>6, <1>7, <3>2
  <2> QED BY <2>1
<1> QED BY <1>3, <1>7, <1>8, <1>9 DEF WritesOf

\* The same writes in the opposite order.
LEMMA ReverseWritesAre ==
  ASSUME NEW w, NEW S, NEW old, NEW new, WritesOf(w, S, old, new)
  PROVE  WritesOf(Reverse(w), S, old, new)
<1>1. w \in Seq(Entries) /\ Len(w) \in Nat
  BY DEF WritesOf
<1>2. \A i \in 1..Len(w) : (Len(w) - i) + 1 \in 1..Len(w)
  BY <1>1
<1>3. \A i \in 1..Len(w) : w[(Len(w) - i) + 1] \in Entries
  BY <1>1, <1>2
<1>4. /\ Reverse(w) \in Seq(Entries) /\ Len(Reverse(w)) = Len(w)
      /\ \A i \in 1..Len(w) : Reverse(w)[i] = w[(Len(w) - i) + 1]
  BY <1>1, <1>3 DEF Reverse
<1>5. \A i \in 1..Len(w) : /\ Reverse(w)[i].block \in S
                           /\ Reverse(w)[i].status = new[Reverse(w)[i].block]
  BY <1>2, <1>4 DEF WritesOf
<1>6. ASSUME NEW i \in 1..Len(w)
      PROVE  \E j \in 1..Len(w) : Reverse(w)[j] = w[i]
  <2>1. (Len(w) - i) + 1 \in 1..Len(w) /\ (Len(w) - ((Len(w) - i) + 1)) + 1 = i
    BY <1>1
  <2>2. Reverse(w)[(Len(w) - i) + 1] = w[i]
    BY <1>4, <2>1
  <2> QED BY <2>1, <2>2
<1>7. \A b \in S : new[b] = old[b] \/ \E i \in 1..Len(w) : Reverse(w)[i].block = b
  <2>1. ASSUME NEW b \in S, new[b] # old[b]
        PROVE  \E i \in 1..Len(w) : Reverse(w)[i].block = b
    <3>1. PICK i \in 1..Len(w) : w[i].block = b
      BY <2>1 DEF WritesOf
    <3>2. PICK j \in 1..Len(w) : Reverse(w)[j] = w[i]
      BY <1>6
    <3> QED BY <3>1, <3>2
  <2> QED BY <2>1
<1> QED BY <1>4, <1>5, <1>7 DEF WritesOf

\* Two lists of writes one behind the other.
LEMMA JoinedWritesAre ==
  ASSUME NEW v, NEW w, NEW S, NEW T, NEW old, NEW new,
         WritesOf(v, S, old, new), WritesOf(w, T, old, new)
  PROVE  WritesOf(v \o w, S \union T, old, new)
<1> DEFINE all == v \o w
<1>1. v \in Seq(Entries) /\ w \in Seq(Entries) /\ Len(v) \in Nat /\ Len(w) \in Nat
  BY DEF WritesOf
<1>2. /\ all \in Seq(Entries) /\ Len(all) = Len(v) + Len(w)
      /\ \A i \in 1..Len(v) : all[i] = v[i]
      /\ \A i \in 1..Len(w) : all[Len(v) + i] = w[i]
  BY <1>1
<1> HIDE DEF all
<1>3. ASSUME NEW i \in 1..Len(all)
      PROVE  all[i].block \in S \union T /\ all[i].status = new[all[i].block]
  <2>1. CASE i \in 1..Len(v)
    BY <1>2, <2>1 DEF WritesOf
  <2>2. CASE i \notin 1..Len(v)
    <3>1. i - Len(v) \in 1..Len(w) /\ Len(v) + (i - Len(v)) = i
      BY <1>1, <1>2, <2>2
    <3>2. all[i] = w[i - Len(v)]
      BY <1>2, <3>1
    <3> QED BY <3>1, <3>2 DEF WritesOf
  <2> QED BY <2>1, <2>2
<1>4. ASSUME NEW b \in S \union T, new[b] # old[b]
      PROVE  \E i \in 1..Len(all) : all[i].block = b
  <2>1. CASE b \in S
    <3>1. PICK i \in 1..Len(v) : v[i].block = b
      BY <1>4, <2>1 DEF WritesOf
    <3>2. i \in 1..Len(all)
      BY <1>1, <1>2
    <3> QED BY <1>2, <3>1, <3>2
  <2>2. CASE b \in T
    <3>1. PICK i \in 1..Len(w) : w[i].block = b
      BY <1>4, <2>2 DEF WritesOf
    <3>2. Len(v) + i \in 1..Len(all)
      BY <1>1, <1>2
    <3> QED BY <1>2, <3>1, <3>2
  <2> QED BY <1>4, <2>1, <2>2
<1>5. WritesOf(all, S \union T, old, new)
  BY <1>2, <1>3, <1>4 DEF WritesOf
<1> QED BY <1>5 DEF all

----------------------------------------------------------------------------
(* What the actions do.                                                    *)

\* IsInitialBlockDownload() answers yes or no.
LEMMA IBDType ==
  ASSUME NEW ibd \in IBD
  PROVE  ibd \in BOOLEAN /\ (ibd => AllowIBD)
BY BoundsAssumption DEF IBD, BoundsAssumption

\* What "check ancestry" looks at is the part of the chain of b from one of
\* its blocks on; what is below has its height on the main chain.
LEMMA ScannedIs ==
  ASSUME NEW b \in Blocks
  PROVE  /\ b \in Scanned(b) /\ Scanned(b) \subseteq Chain[b]
         /\ \E s \in Chain[b] :
              /\ Scanned(b) = {c \in Chain[b] : s \in Chain[c]}
              /\ s = Genesis \/ GetNextInMainChain(s) # None
<1> DEFINE stops == {a \in Chain[b] : a = Genesis \/ GetNextInMainChain(a) # None}
           s == Highest(stops)
<1>1. Chain[b] \subseteq Blocks /\ b \in Chain[b]
  BY ChainSelf
<1>2. s \in stops
  <2>1. stops \in SUBSET Blocks /\ Genesis \in stops
    BY <1>1, GenesisOnChain
  <2> HIDE DEF stops
  <2> QED BY <2>1, HighestIs
<1>3. Scanned(b) = Chain[b] \ (Chain[s] \ {s})
  BY DEF Scanned
<1> HIDE DEF s
<1>4. s \in Chain[b] /\ (s = Genesis \/ GetNextInMainChain(s) # None)
  BY <1>2
<1>5. ASSUME NEW c \in Chain[b]
      PROVE  c \in Chain[b] \ (Chain[s] \ {s}) <=> s \in Chain[c]
  <2>1. c \in Blocks /\ s \in Blocks
    BY <1>1, <1>4
  <2>2. CASE c = s
    BY <2>1, <2>2, ChainSelf
  <2>3. CASE c # s /\ c \in Chain[s]
    <3>1. ASSUME s \in Chain[c] PROVE FALSE
      <4>1. /\ ChainWork[c] <= ChainWork[s] /\ (ChainWork[c] = ChainWork[s] => c = s)
            /\ ChainWork[s] <= ChainWork[c]
        BY <2>1, <2>3, <3>1, WorkOnChain
      <4> QED BY <2>1, <2>3, <4>1, WorkType
    <3> QED BY <2>3, <3>1
  <2>4. CASE c \notin Chain[s]
    BY <1>4, <2>4, ChainTotal
  <2> QED BY <2>2, <2>3, <2>4
<1>6. Scanned(b) = {c \in Chain[b] : s \in Chain[c]}
  BY <1>3, <1>5
<1> QED BY <1>1, <1>4, <1>6

\* The chosen block of SetBestChain and what it connects.
LEMMA TargetIs ==
  ASSUME attach \in SUBSET Blocks, attach # {}, coinsTip \in Blocks
  PROVE  /\ Target \in attach /\ Target \in Blocks
         /\ \A a \in attach : ChainWork[Target] <= ChainWork[a]
         /\ Connect \subseteq Chain[Target] /\ Chain[Target] \subseteq Blocks
         /\ Disconnect \subseteq Chain[coinsTip] \ {Genesis}
         /\ Genesis \notin Connect
<1>1. Target \in attach /\ \A a \in attach : ChainWork[Target] <= ChainWork[a]
  BY LowestIs DEF Target
<1> QED BY <1>1, ChainSelf, GenesisOnChain DEF Connect, Disconnect

\* The first bad block of those that are connected.
LEMMA BadIs ==
  ASSUME attach \in SUBSET Blocks, attach # {}, coinsTip \in Blocks, Bad # {}
  PROVE  /\ Lowest(Bad) \in Connect /\ Lowest(Bad) \in Blocks
         /\ Lowest(Bad) \notin blk \/ Lowest(Bad) \in invalid
         /\ \A c \in Bad : ChainWork[Lowest(Bad)] <= ChainWork[c]
<1>1. Bad \in SUBSET Blocks
  BY TargetIs DEF Bad
<1>2. Lowest(Bad) \in Bad /\ \A c \in Bad : ChainWork[Lowest(Bad)] <= ChainWork[c]
  BY <1>1, LowestIs
<1> QED BY <1>1, <1>2 DEF Bad

\* The index changes for the blocks of S, and these changes are logged.
IndexGrows(S) ==
  /\ treeDB' = treeDB
  /\ status' \in [Blocks -> SUBSET Flags]
  /\ \A b \in Blocks \ S : status'[b] = status[b]
  /\ S \in SUBSET Blocks
  /\ \E w : WritesOf(w, S, StoredTree, status') /\ treeLog' = treeLog \o w

\* AcceptBlock logs the new entry.
LEMMA AcceptGrows ==
  ASSUME status \in [Blocks -> SUBSET Flags], treeLog \in Seq(Entries),
         NEW b \in Blocks, AddToBlockIndex(b), treeDB' = treeDB
  PROVE  IndexGrows({b}) /\ status'[b] = {"data"}
<1> DEFINE e == [block |-> b, status |-> {"data"}]
<1>1. e \in Entries /\ e.block = b /\ e.status = {"data"}
  BY DEF Entries, Flags
<1>2. status' = [status EXCEPT ![b] = {"data"}] /\ treeLog' = Append(treeLog, e)
  BY DEF AddToBlockIndex
<1>3. status' \in [Blocks -> SUBSET Flags]
  BY <1>2 DEF Flags
<1>4. status'[b] = {"data"} /\ \A c \in Blocks \ {b} : status'[c] = status[c]
  BY <1>2
<1> HIDE DEF e
<1> DEFINE w == <<e>>
<1>5. treeLog' = treeLog \o w
  BY <1>1, <1>2
<1>6. w \in Seq(Entries) /\ Len(w) = 1 /\ w[1] = e
  BY <1>1
<1> HIDE DEF w
<1>7. WritesOf(w, {b}, StoredTree, status')
  <2>1. \A i \in 1..Len(w) : i = 1
    BY <1>6
  <2>2. 1 \in 1..Len(w)
    BY <1>6
  <2> QED BY <1>1, <1>4, <1>6, <2>1, <2>2 DEF WritesOf
<1> QED BY <1>3, <1>4, <1>5, <1>7 DEF IndexGrows

\* "mark descendants failed" logs the marked blocks.
LEMMA MarkGrows ==
  ASSUME status \in [Blocks -> SUBSET Flags], NEW b \in Blocks, MarkFailedChild(b)
  PROVE  \E culprit \in Scanned(b) \cap Failed :
           LET above == Marked(b, culprit)
           IN  /\ IndexGrows(above)
               /\ cand' = cand \ above
               /\ \A c \in above : /\ c \in Chain[b] /\ culprit \in Chain[c]
                                   /\ status'[c] = status[c] \union {"failedchild"}
<1> DEFINE culprit == Highest(Scanned(b) \cap Failed)
           above == Marked(b, culprit)
<1>1. culprit \in Scanned(b) \cap Failed
  <2>1. Scanned(b) \cap Failed \in SUBSET Blocks /\ Scanned(b) \cap Failed # {}
    BY DEF MarkFailedChild, Failed
  <2> QED BY <2>1, HighestIs
<1>2. /\ status' = [c \in Blocks |->
                      IF c \in above THEN status[c] \union {"failedchild"} ELSE status[c]]
      /\ cand' = cand \ above
      /\ treeLog' = treeLog \o Reverse(Writes(above, status'))
      /\ treeDB' = treeDB
  BY DEF MarkFailedChild, Erased
<1> HIDE DEF culprit
<1>3. above \in SUBSET Chain[b] /\ above \in SUBSET Blocks
  BY ChainSelf DEF Marked
<1>4. status' \in [Blocks -> SUBSET Flags]
  BY <1>2 DEF Flags
<1>5. ASSUME NEW c \in above
      PROVE  /\ c \in Chain[b] /\ culprit \in Chain[c]
             /\ status'[c] = status[c] \union {"failedchild"}
  <2>1. c \in Chain[b] /\ c \notin Chain[culprit]
    BY DEF Marked
  <2>2. culprit \in Chain[b]
    BY <1>1, ScannedIs
  <2> QED BY <1>2, <1>3, <2>1, <2>2, ChainTotal
<1>6. \A c \in Blocks \ above : status'[c] = status[c]
  BY <1>2
<1>7. WritesOf(Reverse(Writes(above, status')), above, StoredTree, status')
  <2>1. WritesOf(Writes(above, status'), above, StoredTree, status')
    <3> HIDE DEF above
    <3> QED BY <1>3, <1>4, WritesAre
  <2> QED BY <2>1, ReverseWritesAre
<1>8. IndexGrows(above)
  BY <1>2, <1>3, <1>4, <1>6, <1>7 DEF IndexGrows
<1> QED BY <1>1, <1>2, <1>5, <1>8

\* The blocks of S that ConnectBlock gives an undo position.
Fresh(S) == {b \in S : "undo" \notin status[b]}

ConnectEffect(S, ibd, marked) ==
  /\ IndexGrows(Fresh(S) \union marked)
  /\ \A b \in Fresh(S) : status'[b] = status[b] \union {"undo"}
  /\ \A b \in marked : status'[b] = status[b] \union {"failed"}
  /\ undo' = undo \union Fresh(S)
  /\ undoSynced' = IF ibd THEN undoSynced ELSE undoSynced \union Fresh(S)

\* ConnectBlock logs the blocks that get an undo position, and the marked one.
LEMMA ConnectGrows ==
  ASSUME status \in [Blocks -> SUBSET Flags], treeLog \in Seq(Entries), NEW x \in Blocks,
         NEW S \in SUBSET Chain[x], NEW marked \in SUBSET (Chain[x] \ S), NEW ibd \in BOOLEAN,
         ConnectBlocks(S, ibd, marked), treeDB' = treeDB
  PROVE  ConnectEffect(S, ibd, marked)
<1> DEFINE fresh == {b \in S : "undo" \notin status[b]}
           connected == [b \in Blocks |->
                           IF b \in fresh THEN status[b] \union {"undo"} ELSE status[b]]
           final == [b \in Blocks |->
                       IF b \in marked THEN connected[b] \union {"failed"} ELSE connected[b]]
<1>1. /\ status' = final
      /\ treeLog' = treeLog \o Writes(fresh, connected) \o Writes(marked, final)
      /\ undo' = undo \union fresh
      /\ undoSynced' = IF ibd THEN undoSynced ELSE undoSynced \union fresh
  BY DEF ConnectBlocks, UndoWritten
<1>2. /\ fresh \in SUBSET Chain[x] /\ marked \in SUBSET Chain[x] /\ fresh \cap marked = {}
      /\ fresh \in SUBSET Blocks /\ marked \in SUBSET Blocks
  BY ChainSelf
<1>3. connected \in [Blocks -> SUBSET Flags]
  BY DEF Flags
<1>4. final \in [Blocks -> SUBSET Flags]
  BY <1>3 DEF Flags
<1>5. /\ \A b \in fresh : connected[b] = final[b]
      /\ \A b \in fresh : final[b] = status[b] \union {"undo"}
      /\ \A b \in marked : final[b] = status[b] \union {"failed"}
      /\ \A b \in Blocks \ (fresh \union marked) : final[b] = status[b]
  BY <1>2
<1> HIDE DEF final, connected, fresh
<1>6. WritesOf(Writes(fresh, connected), fresh, StoredTree, final)
  <2>1. WritesOf(Writes(fresh, connected), fresh, StoredTree, connected)
    BY <1>2, <1>3, WritesAre
  <2> QED BY <1>5, <2>1 DEF WritesOf
<1>7. WritesOf(Writes(marked, final), marked, StoredTree, final)
  BY <1>2, <1>4, WritesAre
<1>8. WritesOf(Writes(fresh, connected) \o Writes(marked, final),
               fresh \union marked, StoredTree, final)
  BY <1>6, <1>7, JoinedWritesAre
<1>9. treeLog' = treeLog \o (Writes(fresh, connected) \o Writes(marked, final))
  <2>1. Writes(fresh, connected) \in Seq(Entries) /\ Writes(marked, final) \in Seq(Entries)
    BY <1>6, <1>7 DEF WritesOf
  <2> QED BY <1>1, <2>1
<1>10. IndexGrows(fresh \union marked)
  BY <1>1, <1>2, <1>4, <1>5, <1>8, <1>9 DEF IndexGrows
<1>11. fresh = Fresh(S)
  BY DEF fresh, Fresh
<1> QED BY <1>1, <1>5, <1>10, <1>11 DEF ConnectEffect

----------------------------------------------------------------------------
(* Types.                                                                  *)

Flushing == {"flush", "sync", "coins", "register"}

ControlOK ==
  /\ pc \in Pcs
  /\ invalid \in SUBSET MayFail
  /\ attach \in SUBSET Blocks /\ vConnect \in SUBSET Blocks
  /\ starting \in BOOLEAN /\ ok \in BOOLEAN
  /\ ibdSeen \in BOOLEAN /\ crashes \in 0..MaxCrashes
  /\ pc \in {"idle", "best", "down"} => attach = {}
  /\ pc \in Flushing => attach # {}
MemoryOK ==
  /\ status \in [Blocks -> SUBSET Flags]
  /\ cand \in SUBSET Blocks
  /\ tip \in Blocks /\ coinsTip \in Blocks
  /\ byHeight \in [0..MaxHeight -> Blocks \union {None}]
FilesOK ==
  /\ blkSynced \in SUBSET blk /\ blk \in SUBSET Blocks
  /\ undoSynced \in SUBSET undo /\ undo \in SUBSET Blocks
  /\ fileOf \in [Blocks -> 0..MaxFiles-1] /\ lastFile \in 0..MaxFiles-1
DatabasesOK ==
  /\ treeDB \in [Blocks -> SUBSET Flags]
  /\ treeLog \in Seq(Entries)
  /\ coinsDB \in Blocks
  /\ coinsLog \in Seq(Blocks)

\* TypeOK, and where vAttach may and must not be empty.
Types == ControlOK /\ MemoryOK /\ FilesOK /\ DatabasesOK

\* The parts are the whole.
LEMMA TypesSuffice == Types => TypeOK
BY DEF Types, ControlOK, MemoryOK, FilesOK, DatabasesOK, TypeOK, Entries

\* The first state has the types.
LEMMA TypesInit == Init => Types
<1> SUFFICES ASSUME Init PROVE Types
  OBVIOUS
<1>1. Genesis \in Blocks
  BY ChainOfGenesis
<1>2. MaxHeight \in Nat
  BY <1>1, HeightType
<1>3. 0 \in 0..MaxFiles-1 /\ 0 \in 0..MaxCrashes
  BY BoundsAssumption DEF BoundsAssumption
<1>4. status \in [Blocks -> SUBSET Flags]
  BY DEF Init, Flags
<1>5. byHeight \in [0..MaxHeight -> Blocks \union {None}]
  BY <1>1 DEF Init
<1>6. ControlOK
  BY <1>3 DEF Init, ControlOK, Pcs, Flushing
<1>7. MemoryOK
  BY <1>1, <1>4, <1>5 DEF Init, MemoryOK
<1>8. FilesOK
  BY <1>1, <1>3 DEF Init, FilesOK
<1>9. DatabasesOK
  BY <1>1, <1>4 DEF Init, DatabasesOK
<1> QED BY <1>6, <1>7, <1>8, <1>9 DEF Types

\* What the coins log is at exit.
LEMMA CoinsAtExitIs ==
  ASSUME coinsLog \in Seq(Blocks), NEW c \in Blocks
  PROVE  /\ CoinsAtExit(c) \in Seq(Blocks)
         /\ \/ CoinsAtExit(c) = coinsLog /\ coinsLog = <<>> /\ coinsDB = c
            \/ CoinsAtExit(c) = Append(coinsLog, c)
BY DEF CoinsAtExit

\* How a call returns.
LEMMA ReturnToIs ==
  ASSUME ControlOK, coinsLog \in Seq(Blocks), NEW c \in Blocks, NEW good \in BOOLEAN,
         ReturnTo(good, c)
  PROVE  /\ pc' \in {"idle", "down"}
         /\ pc' = "idle" => coinsLog' = coinsLog
         /\ pc' = "down" => coinsLog' = CoinsAtExit(c)
         /\ pc' = "down" <=> starting /\ ~ (ok /\ good)
         /\ starting' = FALSE /\ ok' \in BOOLEAN
         /\ coinsLog' \in Seq(Blocks)
<1>1. CoinsAtExit(c) \in Seq(Blocks)
  BY CoinsAtExitIs
<1> QED BY <1>1 DEF ReturnTo, ControlOK

\* The new stored status is a status.
LEMMA AfterType ==
  ASSUME NEW db \in [Blocks -> SUBSET Flags], NEW log \in Seq(Entries),
         NEW k \in 0..Len(log)
  PROVE  After(db, log, k) \in [Blocks -> SUBSET Flags]
<1>1. ASSUME NEW b \in Blocks PROVE After(db, log, k)[b] \in SUBSET Flags
  <2>1. ASSUME NEW i \in 1..k PROVE log[i].status \in SUBSET Flags
    <3>1. log[i] \in Entries
      OBVIOUS
    <3> QED BY <3>1 DEF Entries
  <2>2. k \in Nat
    OBVIOUS
  <2>3. \/ After(db, log, k)[b] = db[b]
        \/ \E i \in 1..k : After(db, log, k)[b] = log[i].status
    BY <2>2, AfterIs
  <2> QED BY <2>1, <2>3
<1>2. After(db, log, k) = [b \in Blocks |-> After(db, log, k)[b]]
  BY DEF After
<1> QED BY <1>1, <1>2

\* The log grows to a log.
LEMMA IndexGrowsTypes ==
  ASSUME DatabasesOK, NEW S, IndexGrows(S)
  PROVE  treeDB' \in [Blocks -> SUBSET Flags] /\ treeLog' \in Seq(Entries)
         /\ status' \in [Blocks -> SUBSET Flags]
<1>1. PICK w : WritesOf(w, S, StoredTree, status') /\ treeLog' = treeLog \o w
  BY DEF IndexGrows
<1>2. w \in Seq(Entries)
  BY <1>1 DEF WritesOf
<1> QED BY <1>1, <1>2 DEF IndexGrows, DatabasesOK

\* The best block of the coins database is a block.
LEMMA CoinsBestIs ==
  ASSUME coinsDB \in Blocks, coinsLog \in Seq(Blocks)
  PROVE  CoinsBest \in Blocks /\ CoinsBest \in {coinsDB} \union Range(coinsLog)
<1>1. CASE coinsLog = <<>>
  BY <1>1 DEF CoinsBest
<1>2. CASE coinsLog # <<>>
  <2>1. Len(coinsLog) \in 1..Len(coinsLog) /\ DOMAIN coinsLog = 1..Len(coinsLog)
    BY <1>2
  <2> QED BY <1>2, <2>1 DEF CoinsBest, Range
<1> QED BY <1>1, <1>2

\* The ConnectBlocks of the three endings of SetBestChain.
LEMMA ConnectSome ==
  ASSUME Types, attach # {}, Bad # {}
  PROVE  LET bad == Lowest(Bad)
             S == Connect \cap (Chain[bad] \ {bad})
         IN  /\ Target \in Blocks /\ bad \in Connect
             /\ S \in SUBSET Chain[Target]
             /\ {bad} \in SUBSET (Chain[Target] \ S)
             /\ {} \in SUBSET (Chain[Target] \ S)
<1>1. attach \in SUBSET Blocks /\ coinsTip \in Blocks
  BY DEF Types, ControlOK, MemoryOK
<1> QED BY <1>1, TargetIs, BadIs

\* A target that is attached leads to a block, and the blocks to connect are
\* of its chain.
LEMMA ConnectAll ==
  ASSUME Types, attach # {}
  PROVE  /\ Target \in Blocks /\ Connect \in SUBSET Chain[Target]
         /\ {} \in SUBSET (Chain[Target] \ Connect)
<1>1. attach \in SUBSET Blocks /\ coinsTip \in Blocks
  BY DEF Types, ControlOK, MemoryOK
<1> QED BY <1>1, TargetIs

\* The actions keep the types: one lemma for each that changes much.
LEMMA AcceptTypes ==
  ASSUME Types, NEW b \in Blocks, NEW roll \in BOOLEAN, NEW ibd \in IBD,
         AcceptBlock(b, roll, ibd)
  PROVE  Types'
<1>1. treeDB' = treeDB /\ AddToBlockIndex(b)
  BY DEF AcceptBlock
<1>2. IndexGrows({b})
  BY <1>1, AcceptGrows DEF Types, MemoryOK, DatabasesOK
<1>3. ibd \in BOOLEAN
  BY IBDType
<1>4. ControlOK'
  BY <1>3 DEF AcceptBlock, Types, ControlOK, Pcs, Flushing
<1>5. MemoryOK'
  BY <1>2, IndexGrowsTypes DEF AcceptBlock, AddToBlockIndex, Types, MemoryOK
<1>6. FilesOK'
  <2>1. lastFile' \in 0..MaxFiles-1
    BY BoundsAssumption DEF AcceptBlock, FindBlockPos, Types, FilesOK, BoundsAssumption
  <2>2. fileOf' \in [Blocks -> 0..MaxFiles-1]
    BY <2>1 DEF AcceptBlock, FindBlockPos, Types, FilesOK
  <2>3. blkSynced' \in SUBSET blk' /\ blk' \in SUBSET Blocks
    BY DEF AcceptBlock, WriteBlockToDisk, Leaving, Types, FilesOK
  <2>4. undoSynced' \in SUBSET undo' /\ undo' \in SUBSET Blocks
    BY DEF AcceptBlock, FindBlockPos, Leaving, Types, FilesOK
  <2> QED BY <2>1, <2>2, <2>3, <2>4 DEF FilesOK
<1>7. DatabasesOK'
  BY <1>2, IndexGrowsTypes DEF AcceptBlock, Types, DatabasesOK
<1> QED BY <1>4, <1>5, <1>6, <1>7 DEF Types

\* ConnectBlock writes undo data and flags where they belong.
LEMMA ConnectTypes ==
  ASSUME Types, NEW x \in Blocks, NEW S \in SUBSET Chain[x],
         NEW marked \in SUBSET (Chain[x] \ S), NEW ibd \in BOOLEAN,
         ConnectBlocks(S, ibd, marked),
         UNCHANGED <<treeDB, blk, blkSynced, fileOf, lastFile>>
  PROVE  /\ FilesOK'
         /\ status' \in [Blocks -> SUBSET Flags]
         /\ treeDB' \in [Blocks -> SUBSET Flags] /\ treeLog' \in Seq(Entries)
<1>1. /\ IndexGrows(Fresh(S) \union marked)
      /\ undo' = undo \union Fresh(S)
      /\ undoSynced' \subseteq undoSynced \union Fresh(S)
  <2>1. /\ status \in [Blocks -> SUBSET Flags] /\ treeLog \in Seq(Entries)
        /\ treeDB' = treeDB
    BY DEF Types, MemoryOK, DatabasesOK
  <2>2. ConnectEffect(S, ibd, marked)
    BY <2>1, ConnectGrows
  <2> QED BY <2>2 DEF ConnectEffect
<1>2. Fresh(S) \in SUBSET Blocks
  BY ChainSelf DEF Fresh
<1>3. FilesOK'
  BY <1>1, <1>2 DEF Types, FilesOK
<1> QED BY <1>1, <1>3, IndexGrowsTypes DEF Types

\* A block that cannot be read back leaves everything of its type.
LEMMA ReadFailsTypes ==
  ASSUME Types, NEW ibd \in IBD, ReadFails(ibd)
  PROVE  Types'
<1> DEFINE bad == Lowest(Bad)
           S == Connect \cap (Chain[bad] \ {bad})
<1>0. attach # {} /\ Bad # {} /\ ibd \in BOOLEAN
  BY IBDType DEF ReadFails
<1>1. Target \in Blocks /\ S \in SUBSET Chain[Target] /\ {} \in SUBSET (Chain[Target] \ S)
  BY <1>0, ConnectSome
<1>2. /\ ConnectBlocks(S, ibd, {}) /\ coinsTip' = coinsTip
      /\ UNCHANGED <<treeDB, blk, blkSynced, fileOf, lastFile>>
  BY DEF ReadFails, CoinsAfterFailure
<1> HIDE DEF S, bad
<1>3. /\ FilesOK'
      /\ status' \in [Blocks -> SUBSET Flags]
      /\ treeDB' \in [Blocks -> SUBSET Flags] /\ treeLog' \in Seq(Entries)
  BY <1>0, <1>1, <1>2, ConnectTypes
<1>4. ControlOK'
  BY <1>0 DEF ReadFails, GoDown, Types, ControlOK, Pcs, Flushing
<1>5. MemoryOK'
  BY <1>2, <1>3 DEF ReadFails, Types, MemoryOK
<1>6. coinsLog' \in Seq(Blocks)
  BY <1>2, CoinsAtExitIs DEF ReadFails, Types, MemoryOK, DatabasesOK
<1>7. DatabasesOK'
  BY <1>3, <1>6 DEF ReadFails, Types, DatabasesOK
<1> QED BY <1>3, <1>4, <1>5, <1>7 DEF Types

\* So does a block that does not connect: its mark is a flag of the index.
LEMMA BlockInvalidTypes ==
  ASSUME Types, NEW ibd \in IBD, BlockInvalid(ibd)
  PROVE  Types'
<1> DEFINE bad == Lowest(Bad)
           S == Connect \cap (Chain[bad] \ {bad})
<1>0. attach # {} /\ Bad # {} /\ ibd \in BOOLEAN
  BY IBDType DEF BlockInvalid
<1>1. Target \in Blocks /\ S \in SUBSET Chain[Target] /\ {bad} \in SUBSET (Chain[Target] \ S)
  BY <1>0, ConnectSome
<1>2. /\ ConnectBlocks(S, ibd, {bad}) /\ coinsTip' = coinsTip
      /\ InvalidBlockFound(bad) /\ cand' = cand \ {bad}
      /\ UNCHANGED <<treeDB, blk, blkSynced, fileOf, lastFile>>
  BY DEF BlockInvalid, CoinsAfterFailure, InvalidBlockFound, Erased
<1> HIDE DEF S, bad
<1>3. /\ FilesOK'
      /\ status' \in [Blocks -> SUBSET Flags]
      /\ treeDB' \in [Blocks -> SUBSET Flags] /\ treeLog' \in Seq(Entries)
  BY <1>0, <1>1, <1>2, ConnectTypes
<1>4. /\ pc' \in {"idle", "down", "best"} /\ starting' \in BOOLEAN /\ ok' \in BOOLEAN
      /\ coinsLog' \in Seq(Blocks)
  <2>1. CASE GetNextInMainChain(bad) # None
    BY <1>2, <2>1 DEF InvalidBlockFound, Types, ControlOK, DatabasesOK
  <2>2. CASE GetNextInMainChain(bad) = None
    <3>1. ReturnTo(FALSE, coinsTip)
      BY <1>2, <2>2 DEF InvalidBlockFound
    <3> QED BY <3>1, ReturnToIs DEF Types, MemoryOK, DatabasesOK
  <2> QED BY <2>1, <2>2
<1>5. ControlOK'
  BY <1>0, <1>4 DEF BlockInvalid, Types, ControlOK, Pcs, Flushing
<1>6. MemoryOK'
  BY <1>2, <1>3 DEF BlockInvalid, Types, MemoryOK
<1>7. DatabasesOK'
  BY <1>3, <1>4 DEF BlockInvalid, Types, DatabasesOK
<1> QED BY <1>3, <1>5, <1>6, <1>7 DEF Types

\* So does view.Flush() in SetBestChain.
LEMMA ViewFlushedTypes ==
  ASSUME Types, NEW ibd \in IBD, NEW flush \in BOOLEAN, ViewFlushed(ibd, flush)
  PROVE  Types'
<1>0. attach # {} /\ ibd \in BOOLEAN
  BY IBDType DEF ViewFlushed
<1>1. /\ Target \in Blocks /\ Connect \in SUBSET Chain[Target]
      /\ {} \in SUBSET (Chain[Target] \ Connect)
  BY <1>0, ConnectAll
<1>2. /\ ConnectBlocks(Connect, ibd, {})
      /\ UNCHANGED <<treeDB, blk, blkSynced, fileOf, lastFile>>
  BY DEF ViewFlushed
<1>3. /\ FilesOK'
      /\ status' \in [Blocks -> SUBSET Flags]
      /\ treeDB' \in [Blocks -> SUBSET Flags] /\ treeLog' \in Seq(Entries)
  BY <1>0, <1>1, <1>2, ConnectTypes
<1>4. Connect \in SUBSET Blocks
  BY <1>1, ChainSelf
<1>5. ControlOK'
  BY <1>0, <1>4 DEF ViewFlushed, Types, ControlOK, Pcs, Flushing
<1>6. MemoryOK'
  BY <1>1, <1>3 DEF ViewFlushed, Types, MemoryOK
<1>7. DatabasesOK'
  BY <1>3 DEF ViewFlushed, Types, DatabasesOK
<1> QED BY <1>3, <1>5, <1>6, <1>7 DEF Types

\* So does the registration of the new chain in vBlockIndexByHeight.
LEMMA RegisterTypes ==
  ASSUME Types, Register
  PROVE  Types'
<1>0. attach # {}
  BY DEF Register, Types, ControlOK, Flushing
<1>1. Target \in Blocks
  BY <1>0, ConnectAll
<1>2. byHeight' \in [0..MaxHeight -> Blocks \union {None}]
  <2>1. byHeight' = Registered(Target, vConnect)
    BY DEF Register
  <2>2. ASSUME NEW h \in 0..MaxHeight, \E c \in vConnect : Height[c] = h
        PROVE  (CHOOSE c \in vConnect : Height[c] = h) \in Blocks
    BY <2>2 DEF Types, ControlOK
  <2> QED BY <2>1, <2>2 DEF Registered, Types, MemoryOK
<1>3. ControlOK'
  BY <1>0 DEF Register, Types, ControlOK, Pcs, Flushing
<1>4. MemoryOK'
  BY <1>1, <1>2 DEF Register, Types, MemoryOK
<1>5. FilesOK' /\ DatabasesOK'
  BY DEF Register, fileVars, dbVars, Types, FilesOK, DatabasesOK
<1> QED BY <1>3, <1>4, <1>5 DEF Types

\* The number of crashes stays within its bound.
LEMMA CrashCounted ==
  ASSUME crashes \in 0..MaxCrashes, crashes < MaxCrashes, crashes' = crashes + 1
  PROVE  crashes' \in 0..MaxCrashes
BY BoundsAssumption DEF BoundsAssumption

\* What a crash leaves of the files and the databases is of their types.
LEMMA LoseTypes ==
  ASSUME Types, Lose
  PROVE  Types'
<1>1. PICK k \in 0..Len(treeLog), best \in {coinsDB} \union Range(coinsLog),
           lostBlk \in SUBSET (blk \ blkSynced), lostUndo \in SUBSET (undo \ undoSynced) :
             PowerLoss(k, best, lostBlk, lostUndo)
  BY DEF Lose
<1>2. best \in Blocks
  BY DEF Types, DatabasesOK, Range
<1>3. TreeAfter(k) \in [Blocks -> SUBSET Flags]
  BY AfterType, TreeAfterIs DEF Types, DatabasesOK
<1>4. ControlOK'
  <2>1. crashes' \in 0..MaxCrashes
    BY <1>1, CrashCounted DEF PowerLoss, Types, ControlOK
  <2> QED BY <1>1, <2>1 DEF PowerLoss, GoDown, Types, ControlOK, Pcs, Flushing
<1>5. MemoryOK'
  BY <1>1 DEF PowerLoss, memVars, Types, MemoryOK
<1>6. FilesOK'
  BY <1>1 DEF PowerLoss, Types, FilesOK
<1>7. DatabasesOK'
  BY <1>1, <1>2, <1>3 DEF PowerLoss, Types, DatabasesOK
<1> QED BY <1>4, <1>5, <1>6, <1>7 DEF Types

\* LoadBlockIndex builds an index of its type from what it finds.
LEMMA RestartTypes ==
  ASSUME Types, Restart
  PROVE  Types'
<1>1. CoinsBest \in Blocks
  BY CoinsBestIs DEF Types, DatabasesOK
<1>2. StoredTree \in [Blocks -> SUBSET Flags]
  <2>1. Len(treeLog) \in 0..Len(treeLog)
    BY DEF Types, DatabasesOK
  <2> QED BY <2>1, AfterType, TreeAfterIs DEF Types, DatabasesOK
<1>3. byHeight' \in [0..MaxHeight -> Blocks \union {None}]
  <2>1. ASSUME NEW h \in 0..MaxHeight, \E b \in Chain[CoinsBest] : Height[b] = h
        PROVE  (CHOOSE b \in Chain[CoinsBest] : Height[b] = h) \in Blocks
    BY <1>1, <2>1, ChainSelf
  <2> QED BY <2>1 DEF Restart
<1>4. ControlOK'
  BY DEF Restart, Types, ControlOK, Pcs, Flushing
<1>5. MemoryOK'
  BY <1>1, <1>2, <1>3 DEF Restart, LoadedCandidates, MemoryOK
<1>6. FilesOK'
  BY DEF Restart, fileVars, Types, FilesOK
<1>7. DatabasesOK'
  BY <1>1, <1>2 DEF Restart, DatabasesOK
<1> QED BY <1>4, <1>5, <1>6, <1>7 DEF Types

\* Every step keeps the types.
LEMMA TypesNext == Types /\ [Next]_vars => Types'
<1> SUFFICES ASSUME Types, [Next]_vars PROVE Types'
  OBVIOUS
<1>r. ASSUME ReturnTo(TRUE, coinsTip) \/ ReturnTo(FALSE, coinsTip)
      PROVE  /\ pc' \in {"idle", "down"} /\ starting' \in BOOLEAN /\ ok' \in BOOLEAN
             /\ coinsLog' \in Seq(Blocks)
  BY <1>r, ReturnToIs DEF Types, MemoryOK, DatabasesOK
<1>e. CoinsAtExit(coinsTip) \in Seq(Blocks)
  BY CoinsAtExitIs DEF Types, MemoryOK, DatabasesOK
<1>1. CASE NothingBetter
  <2>1. ControlOK' /\ DatabasesOK'
    BY <1>1, <1>r DEF NothingBetter, Types, ControlOK, DatabasesOK, Pcs, Flushing
  <2>2. MemoryOK' /\ FilesOK'
    BY <1>1 DEF NothingBetter, memVars, fileVars, Types, MemoryOK, FilesOK
  <2> QED BY <2>1, <2>2 DEF Types
<1>2. CASE AttachDone
  <2>1. ControlOK' /\ DatabasesOK'
    BY <1>2, <1>r DEF AttachDone, Types, ControlOK, DatabasesOK, Pcs, Flushing
  <2>2. MemoryOK' /\ FilesOK'
    BY <1>2 DEF AttachDone, memVars, fileVars, Types, MemoryOK, FilesOK
  <2> QED BY <2>1, <2>2 DEF Types
<1>3. ASSUME NEW b \in Blocks, MarkFailedChild(b) PROVE Types'
  <2>1. PICK culprit \in Scanned(b) \cap Failed :
           IndexGrows(Marked(b, culprit)) /\ cand' = cand \ Marked(b, culprit)
    BY <1>3, MarkGrows DEF Types, MemoryOK
  <2>2. /\ status' \in [Blocks -> SUBSET Flags]
        /\ treeDB' \in [Blocks -> SUBSET Flags] /\ treeLog' \in Seq(Entries)
    BY <2>1, IndexGrowsTypes DEF Types
  <2>3. ControlOK' /\ FilesOK'
    BY <1>3 DEF MarkFailedChild, fileVars, Types, ControlOK, FilesOK
  <2>4. MemoryOK' /\ DatabasesOK'
    BY <1>3, <2>1, <2>2 DEF MarkFailedChild, Types, MemoryOK, DatabasesOK
  <2> QED BY <2>3, <2>4 DEF Types
<1>4. ASSUME NEW b \in Blocks, ChooseAttach(b) PROVE Types'
  <2>1. AttachSet(b) \in SUBSET Blocks
    BY ScannedIs, ChainSelf DEF AttachSet
  <2>2. ControlOK'
    BY <1>4, <2>1 DEF ChooseAttach, Types, ControlOK, Pcs, Flushing
  <2>3. MemoryOK' /\ FilesOK' /\ DatabasesOK'
    BY <1>4 DEF ChooseAttach, memVars, fileVars, dbVars, Types, MemoryOK, FilesOK, DatabasesOK
  <2> QED BY <2>2, <2>3 DEF Types
<1>5. CASE DisconnectFails
  <2>1. ControlOK' /\ DatabasesOK'
    <3>1. CASE Highest(Stuck) \notin blk
      BY <1>5, <1>e, <3>1
         DEF DisconnectFails, GoDown, Types, ControlOK, DatabasesOK, Pcs, Flushing
    <3>2. CASE Highest(Stuck) \in blk
      BY <1>5, <1>r, <3>2 DEF DisconnectFails, Types, ControlOK, DatabasesOK, Pcs, Flushing
    <3> QED BY <3>1, <3>2
  <2>2. MemoryOK' /\ FilesOK'
    BY <1>5 DEF DisconnectFails, memVars, fileVars, Types, MemoryOK, FilesOK
  <2> QED BY <2>1, <2>2 DEF Types
<1>6. CASE FlushBlockFile
  <2>1. ControlOK' /\ MemoryOK' /\ DatabasesOK'
    BY <1>6 DEF FlushBlockFile, memVars, dbVars, Types, ControlOK, MemoryOK, DatabasesOK,
                Pcs, Flushing
  <2>2. FilesOK'
    BY <1>6 DEF FlushBlockFile, Types, FilesOK
  <2> QED BY <2>1, <2>2 DEF Types
<1>7. CASE SyncTree
  <2>1. TreeAfter(Len(treeLog)) \in [Blocks -> SUBSET Flags]
    <3>1. Len(treeLog) \in 0..Len(treeLog)
      BY DEF Types, DatabasesOK
    <3> QED BY <3>1, AfterType, TreeAfterIs DEF Types, DatabasesOK
  <2>2. ControlOK' /\ MemoryOK' /\ FilesOK'
    BY <1>7 DEF SyncTree, memVars, fileVars, Types, ControlOK, MemoryOK, FilesOK, Pcs, Flushing
  <2>3. DatabasesOK'
    BY <1>7, <2>1 DEF SyncTree, Types, DatabasesOK
  <2> QED BY <2>2, <2>3 DEF Types
<1>8. CASE FlushCoins
  <2>1. ControlOK' /\ MemoryOK' /\ FilesOK'
    BY <1>8 DEF FlushCoins, memVars, fileVars, Types, ControlOK, MemoryOK, FilesOK, Pcs, Flushing
  <2>2. DatabasesOK'
    BY <1>8 DEF FlushCoins, Types, MemoryOK, DatabasesOK
  <2> QED BY <2>1, <2>2 DEF Types
<1>9. CASE DiskLow
  <2>1. ControlOK' /\ MemoryOK' /\ FilesOK'
    <3>1. crashes' \in 0..MaxCrashes
      BY <1>9, CrashCounted DEF DiskLow, Types, ControlOK
    <3> QED BY <1>9, <3>1 DEF DiskLow, GoDown, memVars, fileVars, Types, ControlOK, MemoryOK,
                              FilesOK, Pcs, Flushing
  <2>2. DatabasesOK'
    BY <1>9, <1>e DEF DiskLow, Types, DatabasesOK
  <2> QED BY <2>1, <2>2 DEF Types
<1>10. CASE Shutdown
  <2>1. ControlOK' /\ MemoryOK' /\ FilesOK'
    <3>1. crashes' \in 0..MaxCrashes
      BY <1>10, CrashCounted DEF Shutdown, Types, ControlOK
    <3> QED BY <1>10, <3>1 DEF Shutdown, GoDown, memVars, fileVars, Types, ControlOK, MemoryOK,
                               FilesOK, Pcs, Flushing
  <2>2. DatabasesOK'
    BY <1>10, <1>e DEF Shutdown, Types, DatabasesOK
  <2> QED BY <2>1, <2>2 DEF Types
<1>11. CASE Crash
  <2>1. ControlOK'
    <3>1. crashes' \in 0..MaxCrashes
      BY <1>11, CrashCounted DEF Crash, Types, ControlOK
    <3> QED BY <1>11, <3>1 DEF Crash, GoDown, Types, ControlOK, Pcs, Flushing
  <2>2. MemoryOK' /\ FilesOK' /\ DatabasesOK'
    BY <1>11 DEF Crash, memVars, fileVars, dbVars, Types, MemoryOK, FilesOK, DatabasesOK
  <2> QED BY <2>1, <2>2 DEF Types
<1>12. CASE UNCHANGED vars
  BY <1>12 DEF vars, memVars, fileVars, dbVars, Types, ControlOK, MemoryOK, FilesOK, DatabasesOK
<1> QED
  BY <1>1, <1>2, <1>3, <1>4, <1>5, <1>6, <1>7, <1>8, <1>9, <1>10, <1>11, <1>12, AcceptTypes,
     ReadFailsTypes, BlockInvalidTypes, ViewFlushedTypes, RegisterTypes, LoseTypes, RestartTypes
     DEF Next, CallStep

----------------------------------------------------------------------------
(* The index and its log.                                                  *)

\* An index as the node may hold it in memory or find it on disk: entries have
\* their data, an entry's parent has an entry, and only what is invalid or
\* above an invalid block is marked failed.
GoodIndex(t, inv) ==
  /\ t \in [Blocks -> SUBSET Flags]
  /\ \A b \in Blocks : t[b] # {} => "data" \in t[b]
  /\ "data" \in t[Genesis]
  /\ \A b \in Blocks \ {Genesis} : t[b] # {} => t[Parent[b]] # {}
  /\ \A b \in Blocks : t[b] \cap FailedMask # {} => Chain[b] \cap inv # {}

\* Whatever prefix of the log survives, the database holds such an index, and
\* an entry has not lost a flag.
GoodLog(db, log, inv) ==
  /\ db \in [Blocks -> SUBSET Flags]
  /\ log \in Seq(Entries)
  /\ \A k \in 0..Len(log) : /\ GoodIndex(After(db, log, k), inv)
                            /\ \A b \in Blocks : db[b] \subseteq After(db, log, k)[b]

\* A change of the entries of S that keeps an index good.
Grown(S, old, new, inv) ==
  \A b \in S :
    /\ old[b] \subseteq new[b]
    /\ "data" \in new[b]
    /\ new[b] \cap FailedMask # {} => Chain[b] \cap inv # {}
    /\ b # Genesis => old[Parent[b]] # {}

\* With an entry, an index holds the entries of its chain.
LEMMA ChainIndexed ==
  ASSUME NEW t, NEW inv, GoodIndex(t, inv), NEW b \in Blocks, t[b] # {}
  PROVE  \A c \in Chain[b] : c \in Blocks /\ t[c] # {} /\ "data" \in t[c]
<1> DEFINE S == {c \in Blocks : t[c] # {}}
<1>1. S \in SUBSET Blocks /\ b \in S
  OBVIOUS
<1>2. Closed(S)
  BY TreeAssumption DEF Closed, GoodIndex, TreeAssumption
<1>3. Chain[b] \subseteq S
  BY <1>1, <1>2, ChainLeast
<1> QED BY <1>3 DEF GoodIndex

\* Part of such a change keeps an index good.
LEMMA GrownIndex ==
  ASSUME NEW old, NEW inv, GoodIndex(old, inv), NEW new \in [Blocks -> SUBSET Flags],
         NEW S \in SUBSET Blocks, Grown(S, old, new, inv),
         NEW t, t = [b \in Blocks |-> t[b]],
         \A b \in Blocks : t[b] = old[b] \/ (b \in S /\ t[b] = new[b])
  PROVE  GoodIndex(t, inv) /\ \A b \in Blocks : old[b] \subseteq t[b]
<1>1. \A b \in Blocks : old[b] \subseteq t[b]
  BY DEF Grown
<1>2. \A b \in Blocks : t[b] \in SUBSET Flags
  BY DEF GoodIndex
<1>3. t \in [Blocks -> SUBSET Flags]
  BY <1>2
<1>4. \A b \in Blocks : t[b] # {} => "data" \in t[b]
  BY DEF GoodIndex, Grown
<1>5. "data" \in t[Genesis]
  BY <1>1, ChainOfGenesis DEF GoodIndex
<1>6. ASSUME NEW b \in Blocks \ {Genesis}, t[b] # {} PROVE t[Parent[b]] # {}
  <2>1. Parent[b] \in Blocks
    BY ChainOfParent
  <2>2. old[Parent[b]] # {}
    BY <1>6 DEF GoodIndex, Grown
  <2> QED BY <1>1, <2>1, <2>2
<1>7. \A b \in Blocks : t[b] \cap FailedMask # {} => Chain[b] \cap inv # {}
  BY DEF GoodIndex, Grown
<1> QED BY <1>1, <1>3, <1>4, <1>5, <1>6, <1>7 DEF GoodIndex

\* What a database holds is a function on the blocks.
LEMMA AfterFunction ==
  ASSUME NEW db, NEW log, NEW k
  PROVE  After(db, log, k) = [b \in Blocks |-> After(db, log, k)[b]]
BY DEF After

\* Writing such a change keeps the log good, after each write of it.
LEMMA LogGrows ==
  ASSUME NEW db, NEW log, NEW inv, GoodLog(db, log, inv),
         NEW new \in [Blocks -> SUBSET Flags], NEW S \in SUBSET Blocks, NEW w,
         WritesOf(w, S, After(db, log, Len(log)), new),
         Grown(S, After(db, log, Len(log)), new, inv)
  PROVE  /\ GoodLog(db, log \o w, inv)
         /\ \A b \in Blocks : After(db, log \o w, Len(log \o w))[b] =
                                IF b \in S THEN new[b] ELSE After(db, log, Len(log))[b]
<1> DEFINE old == After(db, log, Len(log))
<1>1. log \in Seq(Entries) /\ Len(log) \in 0..Len(log)
  BY DEF GoodLog
<1>2. GoodIndex(old, inv) /\ \A b \in Blocks : db[b] \subseteq old[b]
  BY <1>1 DEF GoodLog
<1>3. /\ log \o w \in Seq(Entries)
      /\ \A k \in 0..Len(log \o w) :
            \/ k \in 0..Len(log) /\ After(db, log \o w, k) = After(db, log, k)
            \/ \A b \in Blocks : \/ After(db, log \o w, k)[b] = old[b]
                                 \/ b \in S /\ After(db, log \o w, k)[b] = new[b]
      /\ \A b \in Blocks : After(db, log \o w, Len(log \o w))[b] =
                             IF b \in S THEN new[b] ELSE old[b]
  BY <1>1, LogWritten
<1>4. ASSUME NEW k \in 0..Len(log \o w)
      PROVE  /\ GoodIndex(After(db, log \o w, k), inv)
             /\ \A b \in Blocks : db[b] \subseteq After(db, log \o w, k)[b]
  <2>1. CASE k \in 0..Len(log) /\ After(db, log \o w, k) = After(db, log, k)
    BY <2>1 DEF GoodLog
  <2>2. CASE \A b \in Blocks : \/ After(db, log \o w, k)[b] = old[b]
                               \/ b \in S /\ After(db, log \o w, k)[b] = new[b]
    <3> DEFINE t == After(db, log \o w, k)
    <3>1. t = [b \in Blocks |-> t[b]]
      BY AfterFunction
    <3>2. Grown(S, old, new, inv)
      OBVIOUS
    <3> HIDE DEF t, old
    <3>3. \A b \in Blocks : t[b] = old[b] \/ (b \in S /\ t[b] = new[b])
      BY <2>2 DEF t
    <3>4. GoodIndex(t, inv) /\ \A b \in Blocks : old[b] \subseteq t[b]
      BY <1>2, <3>1, <3>2, <3>3, GrownIndex
    <3>5. \A b \in Blocks : db[b] \subseteq t[b]
      BY <1>2, <3>4
    <3> QED BY <3>4, <3>5 DEF t
  <2> QED BY <1>3, <2>1, <2>2
<1>5. GoodLog(db, log \o w, inv)
  BY <1>3, <1>4 DEF GoodLog
<1> QED BY <1>3, <1>5

\* Without a log the database is what was synced.
LEMMA AfterNothing ==
  ASSUME NEW db, db = [b \in Blocks |-> db[b]]
  PROVE  After(db, <<>>, Len(<<>>)) = db /\ After(db, <<>>, 0) = db
<1>1. Len(<<>>) = 0
  OBVIOUS
<1>2. 1..0 = {}
  OBVIOUS
<1>3. After(db, <<>>, 0) = [b \in Blocks |-> db[b]]
  BY <1>2 DEF After
<1> QED BY <1>1, <1>3

\* A prefix of a good log, synced.
LEMMA LogSynced ==
  ASSUME NEW db, NEW log, NEW inv, GoodLog(db, log, inv), NEW k \in 0..Len(log)
  PROVE  LET t == After(db, log, k)
         IN  GoodLog(t, <<>>, inv) /\ After(t, <<>>, Len(<<>>)) = t
<1> DEFINE t == After(db, log, k)
<1>1. GoodIndex(t, inv)
  BY DEF GoodLog
<1>2. t = [b \in Blocks |-> t[b]]
  BY DEF After
<1> HIDE DEF t
<1>3. After(t, <<>>, Len(<<>>)) = t /\ After(t, <<>>, 0) = t
  BY <1>2, AfterNothing
<1>4. <<>> \in Seq(Entries) /\ Len(<<>>) = 0
  OBVIOUS
<1>5. \A i \in 0..0 : i = 0
  OBVIOUS
<1>6. t \in [Blocks -> SUBSET Flags]
  BY <1>1 DEF GoodIndex
<1>7. GoodLog(t, <<>>, inv)
  BY <1>1, <1>3, <1>4, <1>5, <1>6 DEF GoodLog
<1> QED BY <1>3, <1>7 DEF t

\* The index in memory is good, and while the node runs it is what the
\* database holds with its log; setBlockIndexValid follows it, and so does
\* what is chosen to be attached.
IndexOK ==
  /\ GoodLog(treeDB, treeLog, invalid)
  /\ GoodIndex(status, invalid)
  /\ Running => status = StoredTree
  /\ CandidatesSound
  /\ attach \subseteq Indexed

\* A good change keeps the index and the log good and together.
LEMMA IndexStep ==
  ASSUME GoodLog(treeDB, treeLog, invalid), status = StoredTree, GoodIndex(status, invalid),
         NEW S, IndexGrows(S), Grown(S, status, status', invalid), invalid' = invalid
  PROVE  /\ GoodLog(treeDB', treeLog', invalid') /\ GoodIndex(status', invalid')
         /\ status' = StoredTree'
         /\ \A b \in Blocks : status[b] \subseteq status'[b]
<1>1. PICK w : WritesOf(w, S, StoredTree, status') /\ treeLog' = treeLog \o w
  BY DEF IndexGrows
<1>2. StoredTree = After(treeDB, treeLog, Len(treeLog))
  BY TreeAfterIs
<1>3. S \in SUBSET Blocks /\ status' \in [Blocks -> SUBSET Flags] /\ treeDB' = treeDB
  BY DEF IndexGrows
<1>4. Grown(S, StoredTree, status', invalid)
  OBVIOUS
<1>5. /\ GoodLog(treeDB, treeLog \o w, invalid)
      /\ \A b \in Blocks : After(treeDB, treeLog \o w, Len(treeLog \o w))[b] =
                             IF b \in S THEN status'[b] ELSE StoredTree[b]
  BY <1>1, <1>2, <1>3, <1>4, LogGrows
<1>6. StoredTree' = After(treeDB', treeLog', Len(treeLog'))
  BY DEF StoredTree, TreeAfter, After
<1>7. \A b \in Blocks : StoredTree'[b] = status'[b]
  BY <1>1, <1>3, <1>5, <1>6 DEF IndexGrows
<1>8. StoredTree' = [b \in Blocks |-> StoredTree'[b]] /\ status' = [b \in Blocks |-> status'[b]]
  BY <1>3, <1>6 DEF After
<1>9. status' = StoredTree'
  BY <1>7, <1>8
<1>10. Len(treeLog') \in 0..Len(treeLog')
  BY <1>1, <1>5 DEF GoodLog
<1>11. GoodLog(treeDB', treeLog', invalid')
  BY <1>1, <1>3, <1>5
<1>12. GoodIndex(StoredTree', invalid')
  BY <1>6, <1>10, <1>11 DEF GoodLog
<1>13. \A b \in Blocks : status[b] \subseteq status'[b]
  BY DEF IndexGrows, Grown
<1> QED BY <1>9, <1>11, <1>12, <1>13

\* The first state.
LEMMA IndexInit == Init => IndexOK
<1> SUFFICES ASSUME Init PROVE IndexOK
  OBVIOUS
<1>1. Types
  BY TypesInit
<1>2. /\ status = [b \in Blocks |-> IF b = Genesis THEN {"data"} ELSE {}]
      /\ treeDB = status /\ treeLog = <<>> /\ cand = {Genesis} /\ attach = {}
  BY DEF Init
<1>3. GoodIndex(status, invalid)
  <2>1. status \in [Blocks -> SUBSET Flags]
    BY <1>1 DEF Types, MemoryOK
  <2>2. Genesis \in Blocks
    BY ChainOfGenesis
  <2>3. {"data"} \cap FailedMask = {}
    BY DEF FailedMask
  <2> QED BY <1>2, <2>1, <2>2, <2>3 DEF GoodIndex
<1>4. After(status, <<>>, Len(<<>>)) = status /\ After(status, <<>>, 0) = status
  BY <1>2, AfterNothing
<1>5. StoredTree = status
  BY <1>2, <1>4, TreeAfterIs
<1>6. GoodLog(treeDB, treeLog, invalid)
  <2>1. \A i \in 0..Len(<<>>) : i = 0
    OBVIOUS
  <2> QED BY <1>1, <1>2, <1>3, <1>4, <2>1 DEF GoodLog, Types, DatabasesOK
<1>7. cand = Indexed \ Failed
  BY <1>2, ChainOfGenesis DEF Indexed, Failed, FailedMask
<1> QED BY <1>2, <1>3, <1>5, <1>6, <1>7 DEF IndexOK, CandidatesSound

\* Steps that leave the index and its log alone.
LEMMA IndexSame ==
  ASSUME IndexOK, UNCHANGED <<treeDB, treeLog, status, cand, invalid>>,
         Running' => Running, attach' \subseteq Indexed
  PROVE  IndexOK'
<1>1. StoredTree' = StoredTree /\ Indexed' = Indexed /\ Failed' = Failed
  BY DEF StoredTree, TreeAfter, Indexed, Failed
<1> QED BY <1>1 DEF IndexOK, CandidatesSound

\* Steps of a running node that change entries.
LEMMA IndexChanged ==
  ASSUME IndexOK, Running, NEW S, IndexGrows(S), Grown(S, status, status', invalid),
         invalid' = invalid, attach' \subseteq attach, cand' = (Indexed \ Failed)'
  PROVE  IndexOK'
<1>1. /\ GoodLog(treeDB', treeLog', invalid') /\ GoodIndex(status', invalid')
      /\ status' = StoredTree'
      /\ \A b \in Blocks : status[b] \subseteq status'[b]
  BY IndexStep DEF IndexOK
<1>2. Indexed \subseteq Indexed'
  BY <1>1 DEF Indexed
<1> QED BY <1>1, <1>2 DEF IndexOK, CandidatesSound

\* Which blocks are indexed and failed after a change.
LEMMA IndexedAfter ==
  ASSUME NEW S \in SUBSET Blocks, \A b \in Blocks \ S : status'[b] = status[b]
  PROVE  /\ Indexed' = (Indexed \ S) \union {b \in S : status'[b] # {}}
         /\ Failed' = (Failed \ S) \union {b \in S : status'[b] \cap FailedMask # {}}
BY DEF Indexed, Failed

\* AcceptBlock makes a good change.
LEMMA AcceptGrown ==
  ASSUME Types, IndexOK, NEW b \in Blocks, NEW roll \in BOOLEAN, NEW ibd \in IBD,
         AcceptBlock(b, roll, ibd)
  PROVE  /\ IndexGrows({b}) /\ Grown({b}, status, status', invalid)
         /\ status'[b] = {"data"} /\ Running
<1>1. b \notin Indexed /\ b # Genesis /\ Parent[b] \in Indexed /\ Running
  BY DEF AcceptBlock, Running
<1>2. IndexGrows({b}) /\ status'[b] = {"data"}
  BY AcceptGrows DEF AcceptBlock, Types, MemoryOK, DatabasesOK
<1>3. Grown({b}, status, status', invalid)
  BY <1>1, <1>2 DEF Grown, Indexed, FailedMask
<1> QED BY <1>1, <1>2, <1>3

\* AcceptBlock adds an entry whose parent has one, and keeps the index good.
LEMMA AcceptIndex ==
  ASSUME Types, IndexOK, NEW b \in Blocks, NEW roll \in BOOLEAN, NEW ibd \in IBD,
         AcceptBlock(b, roll, ibd)
  PROVE  IndexOK'
<1>1. cand' = cand \union {b} /\ invalid' = invalid /\ attach' = attach
  BY DEF AcceptBlock, AddToBlockIndex, Running
<1>2. /\ IndexGrows({b}) /\ Grown({b}, status, status', invalid)
      /\ status'[b] = {"data"} /\ Running
  BY AcceptGrown
<1>3. \A c \in Blocks \ {b} : status'[c] = status[c]
  BY <1>2 DEF IndexGrows
<1>4. /\ Indexed' = (Indexed \ {b}) \union {c \in {b} : status'[c] # {}}
      /\ Failed' = (Failed \ {b}) \union {c \in {b} : status'[c] \cap FailedMask # {}}
  BY <1>3, IndexedAfter
<1>5. cand = Indexed \ Failed
  BY <1>2 DEF IndexOK, CandidatesSound
<1>6. cand' = (Indexed \ Failed)'
  BY <1>1, <1>2, <1>4, <1>5 DEF FailedMask
<1> QED BY <1>1, <1>2, <1>6, IndexChanged

\* "mark descendants failed" makes a good change.
LEMMA MarkGrown ==
  ASSUME Types, IndexOK, NEW b \in Blocks, MarkFailedChild(b)
  PROVE  \E culprit \in Scanned(b) \cap Failed :
           LET above == Marked(b, culprit)
           IN  /\ IndexGrows(above) /\ Grown(above, status, status', invalid)
               /\ cand' = cand \ above
               /\ \A c \in above : status'[c] = status[c] \union {"failedchild"}
<1>1. b \in cand /\ Running
  BY DEF MarkFailedChild, BestCandidate, Running
<1>2. PICK culprit \in Scanned(b) \cap Failed :
        /\ IndexGrows(Marked(b, culprit))
        /\ cand' = cand \ Marked(b, culprit)
        /\ \A c \in Marked(b, culprit) :
              /\ c \in Chain[b] /\ culprit \in Chain[c]
              /\ status'[c] = status[c] \union {"failedchild"}
  BY MarkGrows DEF Types, MemoryOK
<1> DEFINE above == Marked(b, culprit)
<1>3. cand = Indexed \ Failed
  BY <1>1 DEF IndexOK, CandidatesSound
<1>4. \A c \in Chain[b] : c \in Blocks /\ status[c] # {} /\ "data" \in status[c]
  BY <1>1, <1>3, ChainIndexed DEF IndexOK, Indexed
<1>5. Chain[culprit] \cap invalid # {}
  BY DEF IndexOK, GoodIndex, Failed
<1>6. Grown(above, status, status', invalid)
  <2>1. ASSUME NEW c \in above
        PROVE  /\ status[c] \subseteq status'[c] /\ "data" \in status'[c]
               /\ Chain[c] \cap invalid # {}
               /\ c # Genesis => status[Parent[c]] # {}
    <3>1. c \in Chain[b] /\ culprit \in Chain[c]
      BY <1>2
    <3>2. c \in Blocks /\ Chain[culprit] \subseteq Chain[c]
      BY <1>4, <3>1, ChainSub
    <3>3. c # Genesis => status[Parent[c]] # {}
      BY <1>4, <3>1, ChainParent
    <3> QED BY <1>2, <1>4, <1>5, <3>1, <3>2, <3>3
  <2> QED BY <2>1 DEF Grown
<1> QED BY <1>2, <1>6

\* So does "check ancestry", which marks only what is above a failed block.
LEMMA MarkIndex ==
  ASSUME Types, IndexOK, NEW b \in Blocks, MarkFailedChild(b)
  PROVE  IndexOK'
<1>1. b \in cand /\ Running /\ invalid' = invalid /\ attach' = attach
  BY DEF MarkFailedChild, BestCandidate, Running
<1>2. PICK culprit \in Scanned(b) \cap Failed :
        /\ IndexGrows(Marked(b, culprit)) /\ Grown(Marked(b, culprit), status, status', invalid)
        /\ cand' = cand \ Marked(b, culprit)
        /\ \A c \in Marked(b, culprit) : status'[c] = status[c] \union {"failedchild"}
  BY MarkGrown
<1> DEFINE above == Marked(b, culprit)
<1>3. cand = Indexed \ Failed
  BY <1>1 DEF IndexOK, CandidatesSound
<1>4. /\ Indexed' = (Indexed \ above) \union {c \in above : status'[c] # {}}
      /\ Failed' = (Failed \ above) \union {c \in above : status'[c] \cap FailedMask # {}}
  <2>1. above \in SUBSET Blocks /\ \A c \in Blocks \ above : status'[c] = status[c]
    BY <1>2 DEF IndexGrows
  <2> HIDE DEF above
  <2> QED BY <2>1, IndexedAfter
<1>5. cand' = (Indexed \ Failed)'
  <2>1. \A c \in above : status'[c] \cap FailedMask # {}
    BY <1>2 DEF FailedMask
  <2> QED BY <1>2, <1>3, <1>4, <2>1
<1> HIDE DEF above
<1> QED BY <1>1, <1>2, <1>5, IndexChanged DEF above

\* ConnectBlock makes a good change.
LEMMA ConnectGrown ==
  ASSUME IndexOK, attach \in SUBSET Blocks, attach # {}, coinsTip \in Blocks,
         NEW S \in SUBSET Connect, NEW marked \in SUBSET (Connect \cap invalid),
         NEW ibd \in BOOLEAN, ConnectEffect(S, ibd, marked)
  PROVE  /\ Grown(Fresh(S) \union marked, status, status', invalid)
         /\ Indexed' = Indexed
         /\ Failed' = Failed \union marked
         /\ \A b \in Connect : b \in Indexed
<1>1. /\ Target \in Blocks /\ Target \in attach /\ Connect \subseteq Chain[Target]
  BY TargetIs
<1>2. \A c \in Chain[Target] : c \in Blocks /\ status[c] # {} /\ "data" \in status[c]
  BY <1>1, ChainIndexed DEF IndexOK, Indexed
<1>3. ASSUME NEW b \in Fresh(S) \union marked
      PROVE  /\ b \in Connect /\ b \in Blocks
             /\ status[b] \subseteq status'[b] /\ "data" \in status'[b]
             /\ b # Genesis => status[Parent[b]] # {}
             /\ b \in marked \/ status'[b] = status[b] \union {"undo"}
             /\ b \in marked => status'[b] = status[b] \union {"failed"}
  <2>1. b \in Connect /\ b \in Blocks /\ "data" \in status[b]
    BY <1>1, <1>2 DEF Fresh
  <2>2. b # Genesis => status[Parent[b]] # {}
    BY <2>1 DEF IndexOK, GoodIndex
  <2> QED BY <2>1, <2>2 DEF ConnectEffect
<1>4. ASSUME NEW b \in Fresh(S) \union marked, status'[b] \cap FailedMask # {}
      PROVE  Chain[b] \cap invalid # {}
  <2>1. CASE b \in marked
    BY <1>3, <2>1, ChainSelf
  <2>2. CASE b \notin marked
    <3>1. status[b] \cap FailedMask # {}
      BY <1>3, <1>4, <2>2 DEF FailedMask
    <3> QED BY <1>3, <3>1 DEF IndexOK, GoodIndex
  <2> QED BY <2>1, <2>2
<1>5. Grown(Fresh(S) \union marked, status, status', invalid)
  BY <1>3, <1>4 DEF Grown
<1> DEFINE F == Fresh(S) \union marked
<1>6. /\ Indexed' = (Indexed \ F) \union {c \in F : status'[c] # {}}
      /\ Failed' = (Failed \ F) \union {c \in F : status'[c] \cap FailedMask # {}}
  <2>1. F \in SUBSET Blocks /\ \A c \in Blocks \ F : status'[c] = status[c]
    BY DEF ConnectEffect, IndexGrows
  <2> HIDE DEF F
  <2> QED BY <2>1, IndexedAfter
<1>7. \A b \in Connect : b \in Indexed
  BY <1>1, <1>2 DEF Indexed
<1>8. \A c \in F : status'[c] # {} /\ c \in Indexed
  BY <1>3, <1>7
<1>9. Indexed' = Indexed
  <2> HIDE DEF F
  <2> QED BY <1>6, <1>8
<1>10. ASSUME NEW c \in F
       PROVE  status'[c] \cap FailedMask # {} <=> c \in Failed \union marked
  <2>1. CASE c \in marked
    BY <1>3, <2>1 DEF FailedMask
  <2>2. CASE c \notin marked
    BY <1>3, <2>2 DEF FailedMask, Failed
  <2> QED BY <2>1, <2>2
<1>11. marked \subseteq F
  OBVIOUS
<1>12. Failed' = Failed \union marked
  <2> HIDE DEF F
  <2> QED BY <1>6, <1>10, <1>11
<1> QED BY <1>5, <1>7, <1>9, <1>12

\* What each ending of SetBestChain connects.
LEMMA ReadFailsConnects ==
  ASSUME Types, NEW ibd \in IBD, ReadFails(ibd)
  PROVE  \E S \in SUBSET Connect : ConnectEffect(S, ibd, {}) /\ ibd \in BOOLEAN
<1> DEFINE bad == Lowest(Bad)
           S == Connect \cap (Chain[bad] \ {bad})
<1>0. attach # {} /\ Bad # {} /\ ibd \in BOOLEAN
  BY IBDType DEF ReadFails
<1>1. Target \in Blocks /\ S \in SUBSET Chain[Target] /\ {} \in SUBSET (Chain[Target] \ S)
  BY <1>0, ConnectSome
<1>2. ConnectBlocks(S, ibd, {}) /\ treeDB' = treeDB
  BY DEF ReadFails
<1>3. S \in SUBSET Connect
  OBVIOUS
<1>4. status \in [Blocks -> SUBSET Flags] /\ treeLog \in Seq(Entries)
  BY DEF Types, MemoryOK, DatabasesOK
<1> HIDE DEF S
<1>5. ConnectEffect(S, ibd, {})
  BY <1>0, <1>1, <1>2, <1>4, ConnectGrows
<1> QED BY <1>0, <1>3, <1>5

\* What SetBestChain has done when a block does not connect: undo data for the
\* blocks before it, and a mark on the lowest one that is invalid.
LEMMA BlockInvalidConnects ==
  ASSUME Types, NEW ibd \in IBD, BlockInvalid(ibd)
  PROVE  /\ Lowest(Bad) \in Connect \cap invalid
         /\ \A c \in Bad : ChainWork[Lowest(Bad)] <= ChainWork[c]
         /\ InvalidBlockFound(Lowest(Bad)) /\ cand' = cand \ {Lowest(Bad)}
         /\ \E S \in SUBSET Connect : ConnectEffect(S, ibd, {Lowest(Bad)}) /\ ibd \in BOOLEAN
<1> DEFINE bad == Lowest(Bad)
           S == Connect \cap (Chain[bad] \ {bad})
<1>0. attach # {} /\ Bad # {} /\ ibd \in BOOLEAN
  BY IBDType DEF BlockInvalid
<1>1. Target \in Blocks /\ S \in SUBSET Chain[Target] /\ {bad} \in SUBSET (Chain[Target] \ S)
  BY <1>0, ConnectSome
<1>2. ConnectBlocks(S, ibd, {bad}) /\ treeDB' = treeDB /\ bad \in blk /\ InvalidBlockFound(bad)
  BY DEF BlockInvalid
<1>3. S \in SUBSET Connect
  OBVIOUS
<1>4. status \in [Blocks -> SUBSET Flags] /\ treeLog \in Seq(Entries)
  BY DEF Types, MemoryOK, DatabasesOK
<1>5. bad \in Connect \cap invalid /\ \A c \in Bad : ChainWork[bad] <= ChainWork[c]
  BY <1>0, <1>2, BadIs DEF Types, ControlOK, MemoryOK
<1> HIDE DEF S, bad
<1>6. ConnectEffect(S, ibd, {bad})
  BY <1>0, <1>1, <1>2, <1>4, ConnectGrows
<1>7. cand' = cand \ {bad}
  BY <1>2 DEF InvalidBlockFound, Erased
<1>8. \E T \in SUBSET Connect : ConnectEffect(T, ibd, {bad}) /\ ibd \in BOOLEAN
  BY <1>0, <1>3, <1>6
<1> QED BY <1>2, <1>5, <1>7, <1>8 DEF bad

\* What SetBestChain has done when all connect.
LEMMA ViewFlushedConnects ==
  ASSUME Types, NEW ibd \in IBD, NEW flush \in BOOLEAN, ViewFlushed(ibd, flush)
  PROVE  ConnectEffect(Connect, ibd, {}) /\ ibd \in BOOLEAN
<1>0. attach # {} /\ ibd \in BOOLEAN
  BY IBDType DEF ViewFlushed
<1>1. /\ Target \in Blocks /\ Connect \in SUBSET Chain[Target]
      /\ {} \in SUBSET (Chain[Target] \ Connect)
  BY <1>0, ConnectAll
<1>2. ConnectBlocks(Connect, ibd, {}) /\ treeDB' = treeDB
  BY DEF ViewFlushed
<1>3. status \in [Blocks -> SUBSET Flags] /\ treeLog \in Seq(Entries)
  BY DEF Types, MemoryOK, DatabasesOK
<1>4. ConnectEffect(Connect, ibd, {})
  BY <1>0, <1>1, <1>2, <1>3, ConnectGrows
<1> QED BY <1>0, <1>4

\* ConnectBlock and InvalidBlockFound keep the index good.
LEMMA ConnectIndex ==
  ASSUME Types, IndexOK, Running, attach # {}, NEW S \in SUBSET Connect,
         NEW marked \in SUBSET (Connect \cap invalid), NEW ibd \in BOOLEAN,
         ConnectEffect(S, ibd, marked),
         cand' = cand \ marked, invalid' = invalid, attach' \subseteq attach
  PROVE  IndexOK'
<1>1. attach \in SUBSET Blocks /\ coinsTip \in Blocks
  BY DEF Types, ControlOK, MemoryOK
<1>2. /\ Grown(Fresh(S) \union marked, status, status', invalid)
      /\ Indexed' = Indexed
      /\ Failed' = Failed \union marked
  BY <1>1, ConnectGrown
<1>3. IndexGrows(Fresh(S) \union marked)
  BY DEF ConnectEffect
<1>4. cand' = (Indexed \ Failed)'
  BY <1>2 DEF IndexOK, CandidatesSound
<1> QED BY <1>2, <1>3, <1>4, IndexChanged

\* Every step keeps the index good, the ones that lose part of its log too.
LEMMA IndexNext == Types /\ IndexOK /\ [Next]_vars => IndexOK'
<1> SUFFICES ASSUME Types, IndexOK, [Next]_vars PROVE IndexOK'
  OBVIOUS
<1>a. attach \subseteq Indexed
  BY DEF IndexOK
<1>1. CASE NothingBetter
  <2>1. ReturnTo(TRUE, coinsTip) /\ Running /\ attach' = attach
    BY <1>1 DEF NothingBetter, Running
  <2> QED BY <1>1, <1>a, <2>1, IndexSame DEF NothingBetter, memVars
<1>2. CASE AttachDone
  <2>1. Running /\ attach' = attach
    BY <1>2 DEF AttachDone, Running
  <2> QED BY <1>2, <1>a, <2>1, IndexSame DEF AttachDone, memVars
<1>3. ASSUME NEW b \in Blocks, ChooseAttach(b) PROVE IndexOK'
  <2>1. b \in cand /\ Running /\ attach' = AttachSet(b)
    BY <1>3 DEF ChooseAttach, BestCandidate, Running
  <2>2. status[b] # {}
    BY <2>1 DEF IndexOK, CandidatesSound, Indexed
  <2>3. \A c \in Chain[b] : c \in Indexed
    BY <2>2, ChainIndexed DEF IndexOK, Indexed
  <2>4. AttachSet(b) \subseteq Indexed
    BY <2>3, ScannedIs DEF AttachSet
  <2> QED BY <1>3, <2>1, <2>4, IndexSame DEF ChooseAttach, memVars, dbVars
<1>4. CASE DisconnectFails
  <2>1. Running /\ attach' = {}
    BY <1>4 DEF DisconnectFails, GoDown, Running
  <2> QED BY <1>4, <2>1, IndexSame DEF DisconnectFails, memVars
<1>5. ASSUME NEW ibd \in IBD, ReadFails(ibd) PROVE IndexOK'
  <2>1. PICK S \in SUBSET Connect : ConnectEffect(S, ibd, {}) /\ ibd \in BOOLEAN
    BY <1>5, ReadFailsConnects
  <2>2. /\ Running /\ attach # {} /\ cand' = cand \ {} /\ invalid' = invalid
        /\ attach' \subseteq attach /\ {} \in SUBSET (Connect \cap invalid)
    BY <1>5 DEF ReadFails, GoDown, Running
  <2> QED BY <2>1, <2>2, ConnectIndex
<1>6. ASSUME NEW ibd \in IBD, BlockInvalid(ibd) PROVE IndexOK'
  <2> DEFINE bad == Lowest(Bad)
  <2>1. /\ bad \in Connect \cap invalid /\ cand' = cand \ {bad}
        /\ \E S \in SUBSET Connect : ConnectEffect(S, ibd, {bad}) /\ ibd \in BOOLEAN
    BY <1>6, BlockInvalidConnects
  <2>2. PICK S \in SUBSET Connect : ConnectEffect(S, ibd, {bad}) /\ ibd \in BOOLEAN
    BY <2>1
  <2>3. /\ Running /\ attach # {} /\ invalid' = invalid /\ attach' \subseteq attach
    BY <1>6 DEF BlockInvalid, Running
  <2> HIDE DEF bad
  <2>4. {bad} \in SUBSET (Connect \cap invalid)
    BY <2>1
  <2> QED BY <2>1, <2>2, <2>3, <2>4, ConnectIndex
<1>7. ASSUME NEW ibd \in IBD, NEW flush \in BOOLEAN, ViewFlushed(ibd, flush) PROVE IndexOK'
  <2>1. ConnectEffect(Connect, ibd, {}) /\ ibd \in BOOLEAN
    BY <1>7, ViewFlushedConnects
  <2>2. /\ Running /\ attach # {} /\ cand' = cand \ {} /\ invalid' = invalid
        /\ attach' \subseteq attach /\ {} \in SUBSET (Connect \cap invalid)
        /\ Connect \in SUBSET Connect
    BY <1>7 DEF ViewFlushed, Running
  <2> QED BY <2>1, <2>2, ConnectIndex
<1>8. CASE FlushBlockFile
  <2>1. Running /\ attach' = attach
    BY <1>8 DEF FlushBlockFile, Running
  <2> QED BY <1>8, <1>a, <2>1, IndexSame DEF FlushBlockFile, memVars, dbVars
<1>9. CASE FlushCoins
  <2>1. Running /\ attach' = attach
    BY <1>9 DEF FlushCoins, Running
  <2> QED BY <1>9, <1>a, <2>1, IndexSame DEF FlushCoins, memVars
<1>10. CASE Register
  <2>1. Running /\ attach' \subseteq attach
    BY <1>10 DEF Register, Running
  <2> QED BY <1>10, <1>a, <2>1, IndexSame DEF Register, dbVars
<1>11. CASE DiskLow
  <2>1. Running /\ attach' = {}
    BY <1>11 DEF DiskLow, GoDown, Running
  <2> QED BY <1>11, <2>1, IndexSame DEF DiskLow, memVars
<1>12. CASE Shutdown
  <2>1. Running /\ attach' = {}
    BY <1>12 DEF Shutdown, GoDown, Running
  <2> QED BY <1>12, <2>1, IndexSame DEF Shutdown, memVars
<1>13. CASE Crash
  <2>1. Running /\ attach' = {}
    BY <1>13 DEF Crash, GoDown, Running
  <2> QED BY <1>13, <2>1, IndexSame DEF Crash, memVars, dbVars
<1>14. CASE UNCHANGED vars
  <2>1. attach' = attach /\ (Running' => Running)
    BY <1>14 DEF vars, Running
  <2> QED BY <1>14, <1>a, <2>1, IndexSame DEF vars, memVars, dbVars
<1>s. ASSUME NEW k \in 0..Len(treeLog), treeDB' = TreeAfter(k), treeLog' = <<>>,
             invalid' = invalid
      PROVE  GoodLog(treeDB', treeLog', invalid') /\ StoredTree' = TreeAfter(k)
  <2>1. TreeAfter(k) = After(treeDB, treeLog, k)
    BY TreeAfterIs
  <2>2. /\ GoodLog(After(treeDB, treeLog, k), <<>>, invalid)
        /\ After(After(treeDB, treeLog, k), <<>>, Len(<<>>)) = After(treeDB, treeLog, k)
    BY LogSynced DEF IndexOK
  <2>3. StoredTree' = After(treeDB', treeLog', Len(treeLog'))
    BY DEF StoredTree, TreeAfter, After
  <2> QED BY <1>s, <2>1, <2>2, <2>3
<1>l. Len(treeLog) \in 0..Len(treeLog) /\ StoredTree = TreeAfter(Len(treeLog))
  BY DEF Types, DatabasesOK, StoredTree
<1>15. CASE SyncTree
  <2>1. /\ treeDB' = TreeAfter(Len(treeLog)) /\ treeLog' = <<>> /\ invalid' = invalid
        /\ status' = status /\ cand' = cand /\ attach' = attach /\ Running
    BY <1>15 DEF SyncTree, memVars, Running
  <2>2. GoodLog(treeDB', treeLog', invalid') /\ StoredTree' = StoredTree
    BY <1>s, <1>l, <2>1
  <2>3. Indexed' = Indexed /\ Failed' = Failed
    BY <2>1 DEF Indexed, Failed
  <2> QED BY <2>1, <2>2, <2>3 DEF IndexOK, CandidatesSound
<1>16. CASE Lose
  <2>1. PICK k \in 0..Len(treeLog) : treeDB' = TreeAfter(k) /\ treeLog' = <<>>
    BY <1>16 DEF Lose, PowerLoss
  <2>2. invalid' = invalid /\ status' = status /\ attach' = {} /\ ~ Running'
    BY <1>16 DEF Lose, PowerLoss, GoDown, memVars, Running
  <2>3. GoodLog(treeDB', treeLog', invalid')
    BY <1>s, <2>1, <2>2
  <2>4. GoodIndex(status', invalid')
    BY <2>2 DEF IndexOK
  <2> QED BY <2>2, <2>3, <2>4 DEF IndexOK, CandidatesSound
<1>17. CASE Restart
  <2>1. /\ treeDB' = TreeAfter(Len(treeLog)) /\ treeLog' = <<>> /\ invalid' = invalid
        /\ status' = StoredTree /\ cand' = LoadedCandidates /\ attach' = attach /\ attach = {}
    BY <1>17, <1>l DEF Restart, Types, ControlOK
  <2>2. GoodLog(treeDB', treeLog', invalid') /\ StoredTree' = StoredTree
    BY <1>s, <1>l, <2>1
  <2>3. GoodIndex(StoredTree, invalid)
    BY <1>l, TreeAfterIs DEF IndexOK, GoodLog
  <2>4. cand' = (Indexed \ Failed)'
    BY <2>1, <2>3 DEF LoadedCandidates, Indexed, Failed, GoodIndex
  <2> QED BY <2>1, <2>2, <2>3, <2>4 DEF IndexOK, CandidatesSound
<1> QED
  BY <1>1, <1>2, <1>3, <1>4, <1>5, <1>6, <1>7, <1>8, <1>9, <1>10, <1>11, <1>12, <1>13, <1>14,
     <1>15, <1>16, <1>17, AcceptIndex, MarkIndex DEF Next, CallStep

----------------------------------------------------------------------------
(* The coins.                                                              *)

Exits ==
  /\ pc # "down" /\ pc' = "down"
  /\ UNCHANGED <<coinsTip, coinsDB>>
  /\ coinsLog' = CoinsAtExit(coinsTip)

\* How a step changes the coins and the coins database.
LEMMA CoinsSteps ==
  ASSUME Types, [Next]_vars
  PROVE  /\ invalid' = invalid
         /\ \/ UNCHANGED <<coinsTip, coinsDB, coinsLog>>
            \/ Exits
            \/ FlushCoins
            \/ \E ibd \in IBD, flush \in BOOLEAN : ViewFlushed(ibd, flush)
            \/ Lose
            \/ Restart
<1>r. ASSUME ReturnTo(TRUE, coinsTip) \/ ReturnTo(FALSE, coinsTip)
      PROVE  coinsLog' = coinsLog \/ (pc' = "down" /\ coinsLog' = CoinsAtExit(coinsTip))
  BY <1>r, ReturnToIs DEF Types, MemoryOK, DatabasesOK
<1>1. CASE NothingBetter
  BY <1>1, <1>r DEF NothingBetter, memVars, Exits
<1>2. CASE AttachDone
  BY <1>2, <1>r DEF AttachDone, memVars, Exits
<1>3. ASSUME NEW b \in Blocks, MarkFailedChild(b) \/ ChooseAttach(b)
      PROVE  invalid' = invalid /\ UNCHANGED <<coinsTip, coinsDB, coinsLog>>
  BY <1>3 DEF MarkFailedChild, ChooseAttach, memVars, dbVars
<1>4. CASE DisconnectFails
  <2>1. CASE Highest(Stuck) \notin blk
    BY <1>4, <2>1 DEF DisconnectFails, GoDown, memVars, Exits
  <2>2. CASE Highest(Stuck) \in blk
    <3>1. ReturnTo(FALSE, coinsTip) /\ UNCHANGED <<invalid, coinsTip, coinsDB>> /\ pc # "down"
      BY <1>4, <2>2 DEF DisconnectFails, memVars
    <3> QED BY <1>r, <3>1 DEF Exits
  <2> QED BY <2>1, <2>2
<1>5. ASSUME NEW ibd \in IBD, ReadFails(ibd) PROVE invalid' = invalid /\ Exits
  BY <1>5 DEF ReadFails, GoDown, CoinsAfterFailure, Exits
<1>6. ASSUME NEW ibd \in IBD, BlockInvalid(ibd)
      PROVE  invalid' = invalid /\ (UNCHANGED <<coinsTip, coinsDB, coinsLog>> \/ Exits)
  <2>1. /\ InvalidBlockFound(Lowest(Bad)) /\ pc # "down"
        /\ UNCHANGED <<invalid, coinsTip, coinsDB>>
    BY <1>6 DEF BlockInvalid, CoinsAfterFailure
  <2>2. CASE GetNextInMainChain(Lowest(Bad)) # None
    BY <2>1, <2>2 DEF InvalidBlockFound
  <2>3. CASE GetNextInMainChain(Lowest(Bad)) = None
    <3>1. ReturnTo(FALSE, coinsTip)
      BY <2>1, <2>3 DEF InvalidBlockFound
    <3> QED BY <1>r, <2>1, <3>1 DEF Exits
  <2> QED BY <2>2, <2>3
<1>7. ASSUME NEW ibd \in IBD, NEW flush \in BOOLEAN, ViewFlushed(ibd, flush)
      PROVE  invalid' = invalid
  BY <1>7 DEF ViewFlushed
<1>8. CASE FlushBlockFile \/ SyncTree \/ Register \/ Crash \/ UNCHANGED vars
  BY <1>8 DEF FlushBlockFile, SyncTree, Register, Crash, vars, memVars, dbVars
<1>9. CASE FlushCoins \/ Lose \/ Restart
  BY <1>9 DEF FlushCoins, Lose, PowerLoss, Restart
<1>10. CASE DiskLow \/ Shutdown
  BY <1>10 DEF DiskLow, Shutdown, GoDown, memVars, Exits
<1>11. ASSUME NEW b \in Blocks, NEW roll \in BOOLEAN, NEW ibd \in IBD, AcceptBlock(b, roll, ibd)
       PROVE  invalid' = invalid /\ UNCHANGED <<coinsTip, coinsDB, coinsLog>>
  BY <1>11 DEF AcceptBlock
<1> QED BY <1>1, <1>2, <1>3, <1>4, <1>5, <1>6, <1>7, <1>8, <1>9, <1>10, <1>11 DEF Next, CallStep

\* Every block that the coins were or are written for has a valid chain.
Valid(b, inv) == Chain[b] \cap inv = {}
CoinsOK ==
  /\ Valid(coinsTip, invalid) /\ Valid(coinsDB, invalid)
  /\ \A i \in 1..Len(coinsLog) : Valid(coinsLog[i], invalid)

\* The coins start at the genesis block, whose chain is valid.
LEMMA CoinsInit == Init => CoinsOK
<1> SUFFICES ASSUME Init PROVE CoinsOK
  OBVIOUS
<1>1. Chain[Genesis] \cap invalid = {}
  BY ChainOfGenesis, TreeAssumption DEF Init, TreeAssumption
<1>2. coinsTip = Genesis /\ coinsDB = Genesis /\ coinsLog = <<>>
  BY DEF Init
<1> QED BY <1>1, <1>2 DEF CoinsOK, Valid

\* Nothing that is connected is invalid when the view is flushed.
LEMMA TargetValid ==
  ASSUME attach \in SUBSET Blocks, attach # {}, coinsTip \in Blocks,
         Valid(coinsTip, invalid), Bad = {}
  PROVE  Valid(Target, invalid)
<1>1. Connect \cap invalid = {}
  BY DEF Bad
<1> QED BY <1>1 DEF Connect, Valid

\* The coins only move to blocks whose chain connected.
LEMMA CoinsNext == Types /\ CoinsOK /\ [Next]_vars => CoinsOK'
<1> SUFFICES ASSUME Types, CoinsOK, [Next]_vars PROVE CoinsOK'
  OBVIOUS
<1>t. coinsTip \in Blocks /\ coinsLog \in Seq(Blocks) /\ coinsDB \in Blocks
  BY DEF Types, MemoryOK, DatabasesOK
<1>i. invalid' = invalid
  BY CoinsSteps
<1>a. ASSUME NEW i \in 1..Len(Append(coinsLog, coinsTip))
      PROVE  Valid(Append(coinsLog, coinsTip)[i], invalid)
  <2>1. CASE i \in 1..Len(coinsLog)
    BY <1>t, <2>1 DEF CoinsOK
  <2>2. CASE i \notin 1..Len(coinsLog)
    BY <1>t, <2>2 DEF CoinsOK
  <2> QED BY <2>1, <2>2
<1>b. \A c \in {coinsDB} \union Range(coinsLog) : Valid(c, invalid)
  BY <1>t DEF CoinsOK, Range
<1>1. CASE UNCHANGED <<coinsTip, coinsDB, coinsLog>>
  BY <1>1, <1>i DEF CoinsOK, Valid
<1>2. CASE Exits
  <2>1. \/ CoinsAtExit(coinsTip) = coinsLog
        \/ CoinsAtExit(coinsTip) = Append(coinsLog, coinsTip)
    BY <1>t, CoinsAtExitIs
  <2>2. \A i \in 1..Len(coinsLog') : Valid(coinsLog'[i], invalid)
    BY <1>2, <1>a, <2>1 DEF CoinsOK, Exits
  <2> QED BY <1>2, <1>i, <2>2 DEF CoinsOK, Exits
<1>3. CASE FlushCoins
  <2>1. coinsLog' = Append(coinsLog, coinsTip) /\ UNCHANGED <<coinsTip, coinsDB>>
    BY <1>3 DEF FlushCoins, memVars
  <2> QED BY <1>i, <1>a, <2>1 DEF CoinsOK
<1>4. ASSUME NEW ibd \in IBD, NEW flush \in BOOLEAN, ViewFlushed(ibd, flush)
      PROVE  CoinsOK'
  <2>1. coinsTip' = Target /\ UNCHANGED <<coinsDB, coinsLog>> /\ attach # {} /\ Bad = {}
    BY <1>4 DEF ViewFlushed
  <2>2. Valid(Target, invalid)
    BY <1>t, <2>1, TargetValid DEF CoinsOK, Types, ControlOK
  <2> QED BY <1>i, <2>1, <2>2 DEF CoinsOK, Valid
<1>5. CASE Lose
  <2>1. /\ coinsDB' \in {coinsDB} \union Range(coinsLog) /\ coinsLog' = <<>>
        /\ coinsTip' = coinsTip
    BY <1>5 DEF Lose, PowerLoss, memVars
  <2>2. Len(<<>>) = 0 /\ 1..0 = {}
    OBVIOUS
  <2> QED BY <1>i, <1>b, <2>1, <2>2 DEF CoinsOK
<1>6. CASE Restart
  <2>1. coinsTip' = CoinsBest /\ coinsDB' = CoinsBest /\ coinsLog' = <<>>
    BY <1>6 DEF Restart
  <2>2. Valid(CoinsBest, invalid)
    BY <1>t, <1>b, CoinsBestIs
  <2>3. Len(<<>>) = 0 /\ 1..0 = {}
    OBVIOUS
  <2> QED BY <1>i, <2>1, <2>2, <2>3 DEF CoinsOK
<1> QED BY <1>1, <1>2, <1>3, <1>4, <1>5, <1>6, CoinsSteps

----------------------------------------------------------------------------
(* The tip and the main chain.                                             *)

\* bh is the chain of t by heights.
MainChainOf(bh, t) ==
  \A h \in 0..MaxHeight : \A b \in Blocks : bh[h] = b <=> b \in Chain[t] /\ Height[b] = h

\* Building it from nothing, as LoadBlockIndexDB does.
LEMMA MainChainLoaded ==
  ASSUME NEW t \in Blocks, NEW bh,
         bh = [h \in 0..MaxHeight |->
                 IF \E b \in Chain[t] : Height[b] = h
                   THEN CHOOSE b \in Chain[t] : Height[b] = h ELSE None]
  PROVE  MainChainOf(bh, t)
<1> SUFFICES ASSUME NEW h \in 0..MaxHeight, NEW b \in Blocks
             PROVE  bh[h] = b <=> b \in Chain[t] /\ Height[b] = h
  BY DEF MainChainOf
<1>1. CASE \E a \in Chain[t] : Height[a] = h
  <2>1. bh[h] \in Chain[t] /\ Height[bh[h]] = h
    BY <1>1
  <2>2. ASSUME b \in Chain[t], Height[b] = h PROVE bh[h] = b
    <3>1. Height[bh[h]] <= Height[b]
      BY <2>1, <2>2, HeightType
    <3> QED BY <2>1, <2>2, <3>1, HeightOrder
  <2> QED BY <2>1, <2>2
<1>2. CASE ~ \E a \in Chain[t] : Height[a] = h
  BY <1>2, TreeAssumption DEF TreeAssumption
<1> QED BY <1>1, <1>2

\* Moving it from one tip to another, as SetBestChain does.
LEMMA MainChainMoved ==
  ASSUME MemoryOK, NEW t \in Blocks, MainChainOf(byHeight, tip)
  PROVE  MainChainOf(Registered(t, Chain[t] \ Chain[tip]), t)
<1> DEFINE conn == Chain[t] \ Chain[tip]
           bh == Registered(t, conn)
<1> SUFFICES ASSUME NEW h \in 0..MaxHeight, NEW b \in Blocks
             PROVE  bh[h] = b <=> b \in Chain[t] /\ Height[b] = h
  BY DEF MainChainOf
<1>0. bh[h] = IF h > Height[t] THEN None
              ELSE IF \E c \in conn : Height[c] = h
                     THEN CHOOSE c \in conn : Height[c] = h
                     ELSE byHeight[h]
  BY DEF Registered
<1>t. Height[t] \in Nat /\ h \in Nat
  BY HeightType
<1> HIDE DEF bh
<1>u. ASSUME NEW a \in Chain[t], NEW c \in Chain[t], Height[a] = h, Height[c] = h
      PROVE  a = c
  <2>1. Height[a] <= Height[c]
    BY <1>t, <1>u
  <2> QED BY <1>u, <2>1, HeightOrder
<1>1. CASE h > Height[t]
  <2>1. bh[h] # b
    BY <1>0, <1>1, TreeAssumption DEF TreeAssumption
  <2>2. ASSUME b \in Chain[t], Height[b] = h PROVE FALSE
    <3>1. Height[b] <= Height[t]
      BY <2>2, HeightOnChain
    <3> QED BY <1>1, <1>t, <2>2, <3>1
  <2> QED BY <2>1, <2>2
<1>2. CASE ~ (h > Height[t]) /\ \E c \in conn : Height[c] = h
  <2>1. bh[h] \in conn /\ Height[bh[h]] = h
    BY <1>0, <1>2
  <2> QED BY <1>u, <2>1
<1>3. CASE ~ (h > Height[t]) /\ ~ \E c \in conn : Height[c] = h
  <2>1. h <= Height[t]
    BY <1>3, <1>t
  <2>2. PICK a \in Chain[t] : Height[a] = h
    BY <2>1, HeightOnto
  <2>3. a \in Blocks /\ a \in Chain[tip]
    BY <1>3, <2>2, ChainSelf
  <2>4. byHeight[h] = a
    BY <2>2, <2>3 DEF MainChainOf
  <2>5. bh[h] = a
    BY <1>0, <1>3, <2>4
  <2> QED BY <1>u, <2>2, <2>5
<1> QED BY <1>1, <1>2, <1>3

\* Coins and tip are together, but while the coins are already those of the
\* new tip; what is attached has more work and lies on one chain; and the main
\* chain of a running node is that of the tip.
TipOK ==
  /\ pc \in {"idle", "best", "attach"} => coinsTip = tip
  /\ pc \in Flushing => coinsTip = Target /\ vConnect = Chain[Target] \ Chain[tip]
  /\ \A a \in attach : ChainWork[a] > ChainWork[tip]
  /\ \E x \in Blocks : attach \subseteq Chain[x]
  /\ Running => MainChainOf(byHeight, tip)

\* A new node has the genesis block for its coins, its tip and its main chain.
LEMMA TipInit == Init => TipOK
<1> SUFFICES ASSUME Init PROVE TipOK
  OBVIOUS
<1>1. Genesis \in Blocks /\ Chain[Genesis] = {Genesis}
  BY ChainOfGenesis
<1>2. Cardinality({Genesis}) = 1
  BY FS_Singleton
<1>3. Height[Genesis] = 0
  BY <1>1, <1>2 DEF Height
<1>4. MainChainOf(byHeight, tip)
  <2>1. tip = Genesis /\ byHeight = [h \in 0..MaxHeight |-> IF h = 0 THEN Genesis ELSE None]
    BY DEF Init
  <2> QED BY <1>1, <1>3, <2>1, TreeAssumption DEF MainChainOf, TreeAssumption
<1> QED BY <1>1, <1>4 DEF Init, TipOK, Flushing

\* Steps outside SetBestChain that keep the tip.
LEMMA TipSame ==
  ASSUME TipOK, UNCHANGED <<tip, coinsTip, byHeight>>, Running' => Running,
         attach' = attach \/ attach' = {},
         pc' \in {"idle", "best", "attach"} => pc \in {"idle", "best", "attach"},
         pc' \in Flushing => pc \in Flushing /\ attach' = attach /\ vConnect' = vConnect
  PROVE  TipOK'
<1>1. pc' \in Flushing => Target' = Target
  BY DEF Target
<1>2. (\A a \in attach' : ChainWork[a] > ChainWork[tip]) /\ \E x \in Blocks : attach' \subseteq Chain[x]
  BY ChainOfGenesis DEF TipOK
<1>3. pc' \in {"idle", "best", "attach"} => coinsTip' = tip'
  BY DEF TipOK
<1>4. pc' \in Flushing => coinsTip' = Target' /\ vConnect' = Chain[Target'] \ Chain[tip']
  BY <1>1 DEF TipOK
<1>5. Running' => MainChainOf(byHeight', tip')
  BY DEF TipOK
<1> QED BY <1>2, <1>3, <1>4, <1>5 DEF TipOK

\* Every step keeps coins, tip and vBlockIndexByHeight together, but for what
\* is between the flush of the coins and the registration.
LEMMA TipNext == Types /\ TipOK /\ [Next]_vars => TipOK'
<1> SUFFICES ASSUME Types, TipOK, [Next]_vars PROVE TipOK'
  OBVIOUS
<1>r. ASSUME ReturnTo(TRUE, coinsTip) \/ ReturnTo(FALSE, coinsTip)
      PROVE  pc' \in {"idle", "down"}
  BY <1>r, ReturnToIs DEF Types, MemoryOK, DatabasesOK
<1>1. CASE NothingBetter
  BY <1>1, <1>r, TipSame DEF NothingBetter, memVars, Running, Flushing
<1>2. CASE AttachDone
  BY <1>2, <1>r, TipSame DEF AttachDone, memVars, Running, Flushing
<1>3. ASSUME NEW b \in Blocks, MarkFailedChild(b) PROVE TipOK'
  BY <1>3, TipSame DEF MarkFailedChild, memVars, Running, Flushing
<1>4. ASSUME NEW b \in Blocks, ChooseAttach(b) PROVE TipOK'
  <2>1. attach' = AttachSet(b) /\ pc = "best" /\ pc' = "attach" /\ UNCHANGED <<tip, coinsTip, byHeight>>
    BY <1>4 DEF ChooseAttach, memVars
  <2>2. AttachSet(b) \subseteq Chain[b] /\ \A a \in AttachSet(b) : ChainWork[a] > ChainWork[tip]
    BY ScannedIs DEF AttachSet
  <2> QED BY <2>1, <2>2 DEF TipOK, Running, Flushing
<1>5. CASE DisconnectFails
  <2>1. attach' = {} /\ pc' \in {"idle", "down"} /\ UNCHANGED <<tip, coinsTip, byHeight>> /\ pc = "attach"
    <3>1. CASE Highest(Stuck) \notin blk
      BY <1>5, <3>1 DEF DisconnectFails, GoDown, memVars
    <3>2. CASE Highest(Stuck) \in blk
      BY <1>5, <1>r, <3>2 DEF DisconnectFails, memVars
    <3> QED BY <3>1, <3>2
  <2> QED BY <2>1, TipSame DEF Running, Flushing
<1>6. ASSUME NEW ibd \in IBD, ReadFails(ibd) PROVE TipOK'
  BY <1>6, TipSame DEF ReadFails, CoinsAfterFailure, GoDown, Running, Flushing
<1>7. ASSUME NEW ibd \in IBD, BlockInvalid(ibd) PROVE TipOK'
  <2>1. /\ attach' = {} /\ pc = "attach" /\ UNCHANGED <<tip, coinsTip, byHeight>>
        /\ InvalidBlockFound(Lowest(Bad))
    BY <1>7 DEF BlockInvalid, CoinsAfterFailure
  <2>2. pc' \in {"idle", "down", "best"}
    BY <1>r, <2>1 DEF InvalidBlockFound
  <2> QED BY <2>1, <2>2, TipSame DEF Running, Flushing
<1>8. ASSUME NEW ibd \in IBD, NEW flush \in BOOLEAN, ViewFlushed(ibd, flush) PROVE TipOK'
  <2>1. /\ pc = "attach" /\ pc' \in Flushing /\ coinsTip' = Target /\ vConnect' = Connect
        /\ UNCHANGED <<tip, byHeight, attach>>
    BY <1>8 DEF ViewFlushed, Flushing
  <2>2. coinsTip = tip /\ Target' = Target
    BY <2>1 DEF TipOK, Target
  <2> QED BY <2>1, <2>2 DEF TipOK, Connect, Running, Flushing
<1>9. CASE FlushBlockFile \/ SyncTree \/ FlushCoins
  BY <1>9, TipSame DEF FlushBlockFile, SyncTree, FlushCoins, memVars, Running, Flushing
<1>10. CASE Register
  <2>1. /\ byHeight' = Registered(Target, vConnect) /\ tip' = Target
        /\ attach' = attach \ {Target} /\ pc' = "attach" /\ pc \in Flushing
        /\ coinsTip' = coinsTip /\ Running
    BY <1>10 DEF Register, Flushing, Running
  <2>2. attach \in SUBSET Blocks /\ attach # {} /\ coinsTip \in Blocks
    BY <2>1 DEF Types, ControlOK, MemoryOK
  <2>3. /\ Target \in attach /\ Target \in Blocks
        /\ \A a \in attach : ChainWork[Target] <= ChainWork[a]
    BY <2>2, TargetIs
  <2>4. PICK x \in Blocks : attach \subseteq Chain[x]
    BY DEF TipOK
  <2>5. ASSUME NEW a \in attach' PROVE ChainWork[a] > ChainWork[tip']
    <3>1. a \in Blocks /\ a # Target /\ ChainWork[Target] <= ChainWork[a]
      BY <2>1, <2>2, <2>3
    <3>2. ChainWork[a] # ChainWork[Target]
      BY <2>1, <2>3, <2>4, <3>1, ChainInjective
    <3> QED BY <2>1, <2>3, <3>1, <3>2, WorkType
  <2>6. MainChainOf(byHeight', tip')
    <3>1. vConnect = Chain[Target] \ Chain[tip] /\ MainChainOf(byHeight, tip)
      BY <2>1 DEF TipOK
    <3>2. MainChainOf(Registered(Target, Chain[Target] \ Chain[tip]), Target)
      BY <2>3, <3>1, MainChainMoved DEF Types
    <3> QED BY <2>1, <3>1, <3>2
  <2>7. coinsTip' = tip'
    BY <2>1 DEF TipOK
  <2>8. \E y \in Blocks : attach' \subseteq Chain[y]
    BY <2>1, <2>4
  <2>9. pc' \notin Flushing
    BY <2>1 DEF Flushing
  <2> QED BY <2>5, <2>6, <2>7, <2>8, <2>9 DEF TipOK
<1>11. CASE DiskLow \/ Shutdown \/ Crash
  BY <1>11, TipSame DEF DiskLow, Shutdown, Crash, GoDown, memVars, Running, Flushing
<1>12. CASE Lose
  BY <1>12, TipSame DEF Lose, PowerLoss, GoDown, memVars, Running, Flushing
<1>13. CASE Restart
  <2>1. /\ tip' = CoinsBest /\ coinsTip' = CoinsBest /\ pc' = "best"
        /\ attach' = attach /\ attach = {}
    BY <1>13 DEF Restart, Types, ControlOK
  <2>2. CoinsBest \in Blocks
    BY CoinsBestIs DEF Types, DatabasesOK
  <2>3. byHeight' = [h \in 0..MaxHeight |->
          IF \E b \in Chain[CoinsBest] : Height[b] = h
            THEN CHOOSE b \in Chain[CoinsBest] : Height[b] = h ELSE None]
    BY <1>13 DEF Restart
  <2>4. MainChainOf(byHeight', CoinsBest)
    BY <2>2, <2>3, MainChainLoaded
  <2> QED BY <2>1, <2>2, <2>4 DEF TipOK, Flushing
<1>14. ASSUME NEW b \in Blocks, NEW roll \in BOOLEAN, NEW ibd \in IBD, AcceptBlock(b, roll, ibd)
       PROVE  TipOK'
  BY <1>14, TipSame DEF AcceptBlock, Running, Flushing
<1>15. CASE UNCHANGED vars
  BY <1>15, TipSame DEF vars, memVars, Running, Flushing
<1> QED
  BY <1>1, <1>2, <1>3, <1>4, <1>5, <1>6, <1>7, <1>8, <1>9, <1>10, <1>11, <1>12, <1>13, <1>14,
     <1>15 DEF Next, CallStep

----------------------------------------------------------------------------
(* Undo data and index entries of the chain of the coins.                  *)

\* How a step changes the index and its log.
LEMMA TreeSteps ==
  ASSUME Types, IndexOK, [Next]_vars
  PROVE  \/ UNCHANGED <<status, treeDB, treeLog>>
         \/ Running /\ \E S : IndexGrows(S) /\ Grown(S, status, status', invalid)
         \/ SyncTree \/ Lose \/ Restart
<1>c. ASSUME attach # {}, NEW S \in SUBSET Connect, NEW marked \in SUBSET (Connect \cap invalid),
             NEW ibd \in BOOLEAN, ConnectEffect(S, ibd, marked)
      PROVE  \E T : IndexGrows(T) /\ Grown(T, status, status', invalid)
  <2>1. Grown(Fresh(S) \union marked, status, status', invalid)
    BY <1>c, ConnectGrown DEF Types, ControlOK, MemoryOK
  <2>2. IndexGrows(Fresh(S) \union marked)
    BY <1>c DEF ConnectEffect
  <2> QED BY <2>1, <2>2
<1>1. ASSUME NEW b \in Blocks, NEW roll \in BOOLEAN, NEW ibd \in IBD, AcceptBlock(b, roll, ibd)
      PROVE  Running /\ \E S : IndexGrows(S) /\ Grown(S, status, status', invalid)
  BY <1>1, AcceptGrown
<1>2. ASSUME NEW b \in Blocks, MarkFailedChild(b)
      PROVE  Running /\ \E S : IndexGrows(S) /\ Grown(S, status, status', invalid)
  <2>1. Running
    BY <1>2 DEF MarkFailedChild, Running
  <2> QED BY <1>2, <2>1, MarkGrown
<1>3. ASSUME NEW ibd \in IBD, ReadFails(ibd)
      PROVE  Running /\ \E S : IndexGrows(S) /\ Grown(S, status, status', invalid)
  <2>1. PICK S \in SUBSET Connect : ConnectEffect(S, ibd, {}) /\ ibd \in BOOLEAN
    BY <1>3, ReadFailsConnects
  <2>2. Running /\ attach # {} /\ {} \in SUBSET (Connect \cap invalid)
    BY <1>3 DEF ReadFails, Running
  <2> QED BY <1>c, <2>1, <2>2
<1>4. ASSUME NEW ibd \in IBD, BlockInvalid(ibd)
      PROVE  Running /\ \E S : IndexGrows(S) /\ Grown(S, status, status', invalid)
  <2> DEFINE bad == Lowest(Bad)
  <2>1. /\ bad \in Connect \cap invalid
        /\ \E S \in SUBSET Connect : ConnectEffect(S, ibd, {bad}) /\ ibd \in BOOLEAN
    BY <1>4, BlockInvalidConnects
  <2>2. Running /\ attach # {}
    BY <1>4 DEF BlockInvalid, Running
  <2> HIDE DEF bad
  <2>3. {bad} \in SUBSET (Connect \cap invalid)
    BY <2>1
  <2> QED BY <1>c, <2>1, <2>2, <2>3
<1>5. ASSUME NEW ibd \in IBD, NEW flush \in BOOLEAN, ViewFlushed(ibd, flush)
      PROVE  Running /\ \E S : IndexGrows(S) /\ Grown(S, status, status', invalid)
  <2>1. ConnectEffect(Connect, ibd, {}) /\ ibd \in BOOLEAN
    BY <1>5, ViewFlushedConnects
  <2>2. /\ Running /\ attach # {} /\ {} \in SUBSET (Connect \cap invalid)
        /\ Connect \in SUBSET Connect
    BY <1>5 DEF ViewFlushed, Running
  <2> QED BY <1>c, <2>1, <2>2
<1>6. ASSUME NEW b \in Blocks, ChooseAttach(b) PROVE UNCHANGED <<status, treeDB, treeLog>>
  BY <1>6 DEF ChooseAttach, memVars, dbVars
<1>7. CASE NothingBetter \/ AttachDone \/ DisconnectFails
  BY <1>7 DEF NothingBetter, AttachDone, DisconnectFails, memVars
<1>8. CASE FlushBlockFile \/ FlushCoins \/ Register
  BY <1>8 DEF FlushBlockFile, FlushCoins, Register, memVars, dbVars
<1>9. CASE DiskLow \/ Shutdown \/ Crash \/ UNCHANGED vars
  BY <1>9 DEF DiskLow, Shutdown, Crash, vars, memVars, dbVars
<1> QED BY <1>1, <1>2, <1>3, <1>4, <1>5, <1>6, <1>7, <1>8, <1>9 DEF Next, CallStep

\* While the node runs, entries only gain flags, in memory and in the database.
LEMMA FlagsGrow ==
  ASSUME Types, IndexOK, Running, [Next]_vars, ~ Lose
  PROVE  \A b \in Blocks : /\ status[b] \subseteq status'[b]
                           /\ treeDB[b] \subseteq treeDB'[b]
                           /\ status'[b] = StoredTree'[b]
<1>1. CASE UNCHANGED <<status, treeDB, treeLog>>
  <2>1. StoredTree' = StoredTree
    BY <1>1 DEF StoredTree, TreeAfter
  <2> QED BY <1>1, <2>1 DEF IndexOK
<1>2. ASSUME NEW S, IndexGrows(S), Grown(S, status, status', invalid)
      PROVE  \A b \in Blocks : /\ status[b] \subseteq status'[b]
                               /\ treeDB[b] \subseteq treeDB'[b]
                               /\ status'[b] = StoredTree'[b]
  <2>1. invalid' = invalid
    BY CoinsSteps
  <2>2. status' = StoredTree' /\ \A b \in Blocks : status[b] \subseteq status'[b]
    BY <1>2, <2>1, IndexStep DEF IndexOK
  <2>3. treeDB' = treeDB
    BY <1>2 DEF IndexGrows
  <2> QED BY <2>2, <2>3
<1>3. CASE SyncTree
  <2>1. /\ status' = status /\ treeDB' = StoredTree
    BY <1>3 DEF SyncTree, StoredTree, memVars
  <2>2. StoredTree = After(treeDB, treeLog, Len(treeLog)) /\ Len(treeLog) \in 0..Len(treeLog)
    BY TreeAfterIs DEF Types, DatabasesOK
  <2>3. \A b \in Blocks : treeDB[b] \subseteq StoredTree[b]
    BY <2>2 DEF IndexOK, GoodLog
  <2>4. IndexOK'
    BY IndexNext
  <2>5. Running'
    BY <1>3 DEF SyncTree, Running
  <2> QED BY <2>1, <2>3, <2>4, <2>5 DEF IndexOK
<1>4. ~ Restart
  BY DEF Restart, Running
<1> QED BY <1>1, <1>2, <1>3, <1>4, TreeSteps

\* t has undo data recorded for the chain of c.
UndoOn(c, t) == \A b \in Chain[c] \ {Genesis} : "undo" \in t[b]

\* It is so in memory for the coins in memory, in the synced part of the block
\* tree database for every best block the coins database may come back with,
\* and in what it holds for a node that is down.
UndoOK ==
  /\ Running => UndoOn(coinsTip, status)
  /\ Running => \A best \in {coinsDB} \union Range(coinsLog) : UndoOn(best, treeDB)
  /\ pc = "coins" => treeLog = <<>>
  /\ ~ Running => UndoOn(CoinsBest, StoredTree)

\* It stays so when flags are gained.
LEMMA UndoKept ==
  ASSUME NEW c \in Blocks, NEW t, NEW u, UndoOn(c, t), \A b \in Blocks : t[b] \subseteq u[b]
  PROVE  UndoOn(c, u)
BY ChainSelf DEF UndoOn

\* No block of a new node needs undo data.
LEMMA UndoInit == Init => UndoOK
<1> SUFFICES ASSUME Init PROVE UndoOK
  OBVIOUS
<1>1. /\ coinsTip = Genesis /\ coinsDB = Genesis /\ coinsLog = <<>> /\ pc = "idle"
  BY DEF Init
<1>2. Range(coinsLog) = {}
  BY <1>1 DEF Range
<1> QED BY <1>1, <1>2, ChainOfGenesis DEF UndoOK, UndoOn, Running

\* When the node has just gone down, for the best block it finds.
LEMMA DownUndo ==
  ASSUME Types, IndexOK, UndoOK, [Next]_vars, Running, ~ Running'
  PROVE  UndoOn(CoinsBest', StoredTree')
<1>t. /\ coinsTip \in Blocks /\ coinsDB \in Blocks /\ coinsLog \in Seq(Blocks)
  BY DEF Types, MemoryOK, DatabasesOK
<1>b. \A c \in {coinsDB} \union Range(coinsLog) : c \in Blocks /\ UndoOn(c, treeDB)
  BY <1>t DEF UndoOK, Range
<1>1. CASE Lose
  <2>1. PICK k \in 0..Len(treeLog), best \in {coinsDB} \union Range(coinsLog) :
           treeDB' = TreeAfter(k) /\ treeLog' = <<>> /\ coinsDB' = best /\ coinsLog' = <<>>
    BY <1>1 DEF Lose, PowerLoss
  <2>2. CoinsBest' = best
    BY <2>1 DEF CoinsBest
  <2>3. treeDB' = After(treeDB, treeLog, k)
    BY <2>1, TreeAfterIs
  <2>4. \A b \in Blocks : treeDB[b] \subseteq treeDB'[b]
    BY <2>3 DEF IndexOK, GoodLog
  <2>5. StoredTree' = treeDB'
    <3>1. StoredTree' = After(treeDB', <<>>, Len(<<>>))
      BY <2>1 DEF StoredTree, TreeAfter, After
    <3>2. treeDB' = [b \in Blocks |-> treeDB'[b]]
      BY <2>3, AfterFunction
    <3> QED BY <3>1, <3>2, AfterNothing
  <2> QED BY <1>b, <2>2, <2>4, <2>5, UndoKept
<1>2. CASE ~ Lose /\ UNCHANGED <<coinsTip, coinsDB, coinsLog>>
  <2>1. CoinsBest' = CoinsBest /\ CoinsBest \in Blocks /\ UndoOn(CoinsBest, treeDB)
    BY <1>2, <1>b, <1>t, CoinsBestIs DEF CoinsBest
  <2>2. \A b \in Blocks : treeDB[b] \subseteq StoredTree'[b]
    <3>1. StoredTree = After(treeDB, treeLog, Len(treeLog)) /\ Len(treeLog) \in 0..Len(treeLog)
      BY TreeAfterIs DEF Types, DatabasesOK
    <3>2. \A b \in Blocks : treeDB[b] \subseteq status[b]
      BY <3>1 DEF IndexOK, GoodLog
    <3> QED BY <1>2, <3>2, FlagsGrow
  <2> QED BY <2>1, <2>2, UndoKept
<1>3. CASE ~ Lose /\ Exits
  <2>1. CoinsBest' = coinsTip
    <3>1. /\ coinsLog' = CoinsAtExit(coinsTip) /\ coinsDB' = coinsDB
      BY <1>3 DEF Exits
    <3>2. CASE coinsLog' = coinsLog /\ coinsLog = <<>> /\ coinsDB = coinsTip
      BY <3>1, <3>2 DEF CoinsBest
    <3>3. CASE coinsLog' = Append(coinsLog, coinsTip)
      <4>1. coinsLog' # <<>> /\ coinsLog'[Len(coinsLog')] = coinsTip
        BY <1>t, <3>3
      <4> QED BY <4>1 DEF CoinsBest
    <3> QED BY <1>t, <3>1, <3>2, <3>3, CoinsAtExitIs
  <2>2. \A b \in Blocks : status[b] \subseteq StoredTree'[b]
    BY <1>3, FlagsGrow
  <2>3. UndoOn(coinsTip, status)
    BY DEF UndoOK
  <2> QED BY <1>t, <2>1, <2>2, <2>3, UndoKept
<1>4. ~ FlushCoins /\ ~ Restart
  BY DEF FlushCoins, Restart, Running
<1>5. ~ \E ibd \in IBD, flush \in BOOLEAN : ViewFlushed(ibd, flush)
  BY DEF ViewFlushed, Running
<1> QED BY <1>1, <1>2, <1>3, <1>4, <1>5, CoinsSteps

\* Connecting records the undo data of what is connected.
LEMMA ViewFlushedUndo ==
  ASSUME Types, IndexOK, UndoOn(coinsTip, status), NEW ibd \in IBD, NEW flush \in BOOLEAN,
         ViewFlushed(ibd, flush), \A b \in Blocks : status[b] \subseteq status'[b]
  PROVE  UndoOn(Target, status')
<1>1. ConnectEffect(Connect, ibd, {}) /\ ibd \in BOOLEAN
  BY ViewFlushedConnects
<1>2. attach \in SUBSET Blocks /\ attach # {} /\ coinsTip \in Blocks
  BY DEF ViewFlushed, Types, ControlOK, MemoryOK
<1>3. Target \in Blocks /\ Chain[Target] \subseteq Blocks
  BY <1>2, TargetIs
<1>4. ASSUME NEW b \in Chain[Target] \ {Genesis} PROVE "undo" \in status'[b]
  <2>1. b \in Blocks
    BY <1>3
  <2>2. CASE b \in Chain[coinsTip]
    BY <2>1, <2>2 DEF UndoOn
  <2>3. CASE b \notin Chain[coinsTip]
    <3>1. b \in Connect
      BY <2>3 DEF Connect
    <3>2. CASE b \in Fresh(Connect)
      BY <1>1, <3>2 DEF ConnectEffect
    <3>3. CASE b \notin Fresh(Connect)
      BY <2>1, <3>1, <3>3 DEF Fresh
    <3> QED BY <3>2, <3>3
  <2> QED BY <2>2, <2>3
<1> QED BY <1>4 DEF UndoOn

\* How the part of SetBestChain that commits is entered.
LEMMA CommitSteps ==
  ASSUME [Next]_vars, pc' \in {"sync", "coins"}
  PROVE  FlushBlockFile \/ SyncTree \/ UNCHANGED vars
<1>1. ASSUME ReturnTo(TRUE, coinsTip) \/ ReturnTo(FALSE, coinsTip)
      PROVE  pc' \notin {"sync", "coins"}
  BY <1>1 DEF ReturnTo
<1>2. CASE NothingBetter \/ AttachDone
  BY <1>1, <1>2 DEF NothingBetter, AttachDone
<1>3. CASE DisconnectFails
  BY <1>1, <1>3 DEF DisconnectFails, GoDown
<1>4. ASSUME NEW ibd \in IBD, ReadFails(ibd) PROVE FALSE
  BY <1>4 DEF ReadFails, GoDown
<1>5. ASSUME NEW ibd \in IBD, BlockInvalid(ibd) PROVE FALSE
  <2>1. InvalidBlockFound(Lowest(Bad)) /\ coinsTip' = coinsTip
    BY <1>5 DEF BlockInvalid, CoinsAfterFailure
  <2> QED BY <1>1, <2>1 DEF InvalidBlockFound
<1>6. ASSUME NEW ibd \in IBD, NEW flush \in BOOLEAN, ViewFlushed(ibd, flush) PROVE FALSE
  BY <1>6 DEF ViewFlushed
<1>7. ASSUME NEW b \in Blocks, MarkFailedChild(b) \/ ChooseAttach(b) PROVE FALSE
  BY <1>7 DEF MarkFailedChild, ChooseAttach
<1>8. ASSUME NEW b \in Blocks, NEW roll \in BOOLEAN, NEW ibd \in IBD, AcceptBlock(b, roll, ibd)
      PROVE  FALSE
  BY <1>8 DEF AcceptBlock
<1>9. CASE FlushCoins \/ Register
  BY <1>9 DEF FlushCoins, Register
<1>10. CASE DiskLow \/ Shutdown \/ Crash \/ Lose \/ Restart
  BY <1>10 DEF DiskLow, Shutdown, Crash, Lose, PowerLoss, Restart, GoDown
<1> QED BY <1>2, <1>3, <1>4, <1>5, <1>6, <1>7, <1>8, <1>9, <1>10 DEF Next, CallStep

\* The sync of the block tree database before the coins are written keeps the
\* undo flags of what the coins database may come back with.
LEMMA UndoNext == Types /\ IndexOK /\ UndoOK /\ [Next]_vars => UndoOK'
<1> SUFFICES ASSUME Types, IndexOK, UndoOK, [Next]_vars PROVE UndoOK'
  OBVIOUS
<1>t. /\ coinsTip \in Blocks /\ coinsDB \in Blocks /\ coinsLog \in Seq(Blocks)
  BY DEF Types, MemoryOK, DatabasesOK
<1>p. pc' = "coins" => treeLog' = <<>>
  <2>1. SyncTree => treeLog' = <<>>
    BY DEF SyncTree
  <2>2. FlushBlockFile => pc' # "coins"
    BY DEF FlushBlockFile
  <2>3. UNCHANGED vars => (pc' = "coins" => treeLog' = <<>>)
    BY DEF vars, dbVars, UndoOK
  <2> QED BY <2>1, <2>2, <2>3, CommitSteps
<1>1. CASE Running /\ Running'
  <2>0. ~ Lose /\ ~ Restart /\ ~ Exits
    BY <1>1 DEF Lose, PowerLoss, GoDown, Restart, Exits, Running
  <2>1. \A b \in Blocks : status[b] \subseteq status'[b] /\ treeDB[b] \subseteq treeDB'[b]
    BY <1>1, <2>0, FlagsGrow
  <2>2. UndoOn(coinsTip', status')
    <3>1. CASE coinsTip' = coinsTip
      BY <1>1, <1>t, <2>1, <3>1, UndoKept DEF UndoOK
    <3>2. ASSUME NEW ibd \in IBD, NEW flush \in BOOLEAN, ViewFlushed(ibd, flush)
          PROVE  UndoOn(coinsTip', status')
      <4>1. coinsTip' = Target
        BY <3>2 DEF ViewFlushed
      <4>2. UndoOn(coinsTip, status)
        BY <1>1 DEF UndoOK
      <4> QED BY <2>1, <3>2, <4>1, <4>2, ViewFlushedUndo
    <3>3. FlushCoins => coinsTip' = coinsTip
      BY DEF FlushCoins, memVars
    <3> QED BY <2>0, <3>1, <3>2, <3>3, CoinsSteps
  <2>3. ASSUME NEW best \in {coinsDB'} \union Range(coinsLog') PROVE UndoOn(best, treeDB')
    <3>1. CASE best \in {coinsDB} \union Range(coinsLog)
      <4>1. best \in Blocks /\ UndoOn(best, treeDB)
        BY <1>1, <1>t, <3>1 DEF UndoOK, Range
      <4> QED BY <2>1, <4>1, UndoKept
    <3>2. CASE FlushCoins
      <4>1. /\ coinsLog' = Append(coinsLog, coinsTip) /\ coinsDB' = coinsDB
            /\ treeDB' = treeDB /\ treeLog = <<>> /\ status' = status
        BY <3>2 DEF FlushCoins, memVars, UndoOK
      <4>2. Range(coinsLog') \subseteq Range(coinsLog) \union {coinsTip}
        BY <1>t, <4>1 DEF Range
      <4>3. CASE best = coinsTip
        <5>1. treeDB = status
          <6>1. StoredTree = After(treeDB, <<>>, Len(<<>>))
            BY <4>1, TreeAfterIs
          <6>2. treeDB = [b \in Blocks |-> treeDB[b]]
            BY DEF Types, DatabasesOK
          <6>3. StoredTree = treeDB
            BY <6>1, <6>2, AfterNothing
          <6> QED BY <1>1, <6>3 DEF IndexOK
        <5> QED BY <1>1, <4>1, <4>3, <5>1 DEF UndoOK
      <4> QED BY <3>1, <4>1, <4>2, <4>3
    <3>3. CASE UNCHANGED <<coinsDB, coinsLog>>
      BY <3>1, <3>3
    <3>4. (\E ibd \in IBD, flush \in BOOLEAN : ViewFlushed(ibd, flush))
             => UNCHANGED <<coinsDB, coinsLog>>
      BY DEF ViewFlushed
    <3> QED BY <2>0, <3>2, <3>3, <3>4, CoinsSteps
  <2> QED BY <1>1, <1>p, <2>2, <2>3 DEF UndoOK
<1>2. CASE Running /\ ~ Running'
  <2>1. UndoOn(CoinsBest', StoredTree')
    BY <1>2, DownUndo
  <2> QED BY <1>2, <1>p, <2>1 DEF UndoOK
<1>3. CASE ~ Running
  <2>1. CASE Restart
    <3>1. /\ status' = StoredTree /\ treeDB' = StoredTree /\ coinsTip' = CoinsBest
          /\ coinsDB' = CoinsBest /\ coinsLog' = <<>> /\ Running'
      BY <2>1 DEF Restart, Running
    <3>2. Range(coinsLog') = {}
      BY <3>1 DEF Range
    <3>3. UndoOn(CoinsBest, StoredTree)
      BY <1>3 DEF UndoOK
    <3> QED BY <1>p, <3>1, <3>2, <3>3 DEF UndoOK
  <2>2. CASE UNCHANGED vars
    <3>1. /\ CoinsBest' = CoinsBest /\ StoredTree' = StoredTree /\ pc' = pc
      BY <2>2 DEF vars, dbVars, CoinsBest, StoredTree, TreeAfter
    <3> QED BY <1>3, <1>p, <3>1 DEF UndoOK, Running
  <2>3. Next => Restart
    BY <1>3 DEF Next, CallStep, Running, AcceptBlock, NothingBetter, AttachDone, MarkFailedChild,
       ChooseAttach, DisconnectFails, ReadFails, BlockInvalid, ViewFlushed, FlushBlockFile,
       SyncTree, FlushCoins, Register, DiskLow, Shutdown, Crash, Lose, PowerLoss
  <2> QED BY <2>1, <2>2, <2>3
<1> QED BY <1>1, <1>2, <1>3

----------------------------------------------------------------------------
(* The block and undo files.                                               *)

\* SetBestChain connects the blocks of S, and marks the ones of marked.
Connects(S, ibd, marked) ==
  /\ Running /\ attach # {}
  /\ ConnectEffect(S, ibd, marked)
  /\ UNCHANGED <<blk, blkSynced, fileOf, lastFile>>
  /\ ibdSeen' \in BOOLEAN /\ (ibdSeen \/ ibd => ibdSeen')

\* How a step changes the files.
LEMMA FileSteps ==
  ASSUME Types, [Next]_vars
  PROVE  /\ crashes \in Nat /\ crashes' \in Nat /\ crashes <= crashes'
         /\ \/ UNCHANGED <<blk, blkSynced, undo, undoSynced, fileOf, lastFile, treeDB, treeLog>>
               /\ ibdSeen' = ibdSeen
            \/ \E b \in Blocks, roll \in BOOLEAN, ibd \in IBD : AcceptBlock(b, roll, ibd)
            \/ \E b \in Blocks : MarkFailedChild(b)
            \/ \E S \in SUBSET Connect, marked \in SUBSET (Connect \cap invalid), ibd \in BOOLEAN :
                  Connects(S, ibd, marked)
            \/ FlushBlockFile \/ SyncTree \/ Lose \/ Restart
<1>c. crashes \in Nat
  BY BoundsAssumption DEF Types, ControlOK, BoundsAssumption
<1>1. ASSUME NothingBetter \/ AttachDone \/ DisconnectFails
      PROVE  /\ UNCHANGED <<blk, blkSynced, undo, undoSynced, fileOf, lastFile, treeDB, treeLog>>
             /\ ibdSeen' = ibdSeen /\ crashes' = crashes
  BY <1>1 DEF NothingBetter, AttachDone, DisconnectFails, fileVars
<1>2. ASSUME NEW b \in Blocks, ChooseAttach(b)
      PROVE  /\ UNCHANGED <<blk, blkSynced, undo, undoSynced, fileOf, lastFile, treeDB, treeLog>>
             /\ ibdSeen' = ibdSeen /\ crashes' = crashes
  BY <1>2 DEF ChooseAttach, fileVars, dbVars
<1>3. ASSUME NEW ibd \in IBD, ReadFails(ibd)
      PROVE  /\ crashes' = crashes
             /\ \E S \in SUBSET Connect, marked \in SUBSET (Connect \cap invalid), i \in BOOLEAN :
                   Connects(S, i, marked)
  <2>1. PICK S \in SUBSET Connect : ConnectEffect(S, ibd, {}) /\ ibd \in BOOLEAN
    BY <1>3, ReadFailsConnects
  <2>2. /\ Running /\ attach # {} /\ UNCHANGED <<blk, blkSynced, fileOf, lastFile>>
        /\ ibdSeen' = (ibdSeen \/ ibd) /\ crashes' = crashes
    BY <1>3 DEF ReadFails, Running
  <2>3. {} \in SUBSET (Connect \cap invalid)
    OBVIOUS
  <2>4. ibdSeen \in BOOLEAN
    BY DEF Types, ControlOK
  <2>5. Connects(S, ibd, {})
    BY <2>1, <2>2, <2>4 DEF Connects
  <2> QED BY <2>1, <2>2, <2>3, <2>5
<1>4. ASSUME NEW ibd \in IBD, BlockInvalid(ibd)
      PROVE  /\ crashes' = crashes
             /\ \E S \in SUBSET Connect, marked \in SUBSET (Connect \cap invalid), i \in BOOLEAN :
                   Connects(S, i, marked)
  <2> DEFINE bad == Lowest(Bad)
  <2>1. /\ bad \in Connect \cap invalid
        /\ \E S \in SUBSET Connect : ConnectEffect(S, ibd, {bad}) /\ ibd \in BOOLEAN
    BY <1>4, BlockInvalidConnects
  <2> HIDE DEF bad
  <2>2. PICK S \in SUBSET Connect : ConnectEffect(S, ibd, {bad}) /\ ibd \in BOOLEAN
    BY <2>1
  <2>3. /\ Running /\ attach # {} /\ UNCHANGED <<blk, blkSynced, fileOf, lastFile>>
        /\ ibdSeen' = (ibdSeen \/ ibd) /\ crashes' = crashes
    BY <1>4 DEF BlockInvalid, Running
  <2>4. {bad} \in SUBSET (Connect \cap invalid)
    BY <2>1
  <2>5. ibdSeen \in BOOLEAN
    BY DEF Types, ControlOK
  <2>6. Connects(S, ibd, {bad})
    BY <2>2, <2>3, <2>5 DEF Connects
  <2> QED BY <2>2, <2>3, <2>4, <2>6
<1>5. ASSUME NEW ibd \in IBD, NEW flush \in BOOLEAN, ViewFlushed(ibd, flush)
      PROVE  /\ crashes' = crashes
             /\ \E S \in SUBSET Connect, marked \in SUBSET (Connect \cap invalid), i \in BOOLEAN :
                   Connects(S, i, marked)
  <2>1. ConnectEffect(Connect, ibd, {}) /\ ibd \in BOOLEAN
    BY <1>5, ViewFlushedConnects
  <2>2. /\ Running /\ attach # {} /\ UNCHANGED <<blk, blkSynced, fileOf, lastFile>>
        /\ ibdSeen' = (ibdSeen \/ ibd \/ ~ flush) /\ crashes' = crashes
    BY <1>5 DEF ViewFlushed, Running
  <2>3. {} \in SUBSET (Connect \cap invalid) /\ Connect \in SUBSET Connect
    OBVIOUS
  <2>4. ibdSeen \in BOOLEAN
    BY DEF Types, ControlOK
  <2>5. Connects(Connect, ibd, {})
    BY <2>1, <2>2, <2>4 DEF Connects
  <2> QED BY <2>1, <2>2, <2>3, <2>5
<1>6. CASE FlushCoins \/ Register
  BY <1>6, <1>c DEF FlushCoins, Register, fileVars, dbVars
<1>7. CASE DiskLow \/ Shutdown \/ Crash
  BY <1>7, <1>c DEF DiskLow, Shutdown, Crash, fileVars, dbVars
<1>8. CASE FlushBlockFile \/ SyncTree \/ Restart
  BY <1>8, <1>c DEF FlushBlockFile, SyncTree, Restart
<1>9. CASE Lose
  <2>1. crashes' = crashes + 1
    BY <1>9 DEF Lose, PowerLoss
  <2> QED BY <1>9, <1>c, <2>1
<1>10. ASSUME NEW b \in Blocks, MarkFailedChild(b) PROVE crashes' = crashes
  BY <1>10 DEF MarkFailedChild
<1>11. ASSUME NEW b \in Blocks, NEW roll \in BOOLEAN, NEW ibd \in IBD, AcceptBlock(b, roll, ibd)
       PROVE  crashes' = crashes
  BY <1>11 DEF AcceptBlock
<1>12. CASE UNCHANGED vars
  BY <1>12, <1>c DEF vars, fileVars, dbVars
<1>13. crashes' = crashes => crashes' \in Nat /\ crashes <= crashes'
  BY <1>c
<1> QED BY <1>c, <1>1, <1>2, <1>3, <1>4, <1>5, <1>6, <1>7, <1>8, <1>9, <1>10, <1>11, <1>12, <1>13
           DEF Next, CallStep

\* What index t counts on is in the files.
Intact(t, bk, un) ==
  \A b \in Blocks : /\ t[b] # {} => b \in bk
                    /\ "undo" \in t[b] => b \in un
LogIntact(db, log, bk, un) ==
  \A k \in 0..Len(log) : Intact(After(db, log, k), bk, un)

\* Writing entries that can be counted on.
LEMMA IntactWritten ==
  ASSUME NEW db, NEW log \in Seq(Entries), NEW bk, NEW un, LogIntact(db, log, bk, un),
         NEW S \in SUBSET Blocks, NEW new, NEW w, WritesOf(w, S, After(db, log, Len(log)), new),
         NEW bk2, NEW un2, bk \subseteq bk2, un \subseteq un2,
         \A b \in S : b \in bk2 /\ ("undo" \in new[b] => b \in un2)
  PROVE  LogIntact(db, log \o w, bk2, un2)
<1>1. \A k \in 0..Len(log \o w) :
         \/ k \in 0..Len(log) /\ After(db, log \o w, k) = After(db, log, k)
         \/ \A b \in Blocks : \/ After(db, log \o w, k)[b] = After(db, log, Len(log))[b]
                              \/ b \in S /\ After(db, log \o w, k)[b] = new[b]
  BY LogWritten
<1>2. Len(log) \in 0..Len(log)
  OBVIOUS
<1>3. Intact(After(db, log, Len(log)), bk, un)
  BY <1>2 DEF LogIntact
<1>4. ASSUME NEW k \in 0..Len(log \o w)
      PROVE  Intact(After(db, log \o w, k), bk2, un2)
  <2>1. CASE k \in 0..Len(log) /\ After(db, log \o w, k) = After(db, log, k)
    BY <2>1 DEF LogIntact, Intact
  <2>2. CASE \A b \in Blocks : \/ After(db, log \o w, k)[b] = After(db, log, Len(log))[b]
                               \/ b \in S /\ After(db, log \o w, k)[b] = new[b]
    BY <1>3, <2>2 DEF Intact
  <2> QED BY <1>1, <2>1, <2>2
<1> QED BY <1>4 DEF LogIntact

\* The files keep what every index that may come back counts on.
LEMMA LogKept ==
  ASSUME DatabasesOK, LogIntact(treeDB, treeLog, blk, undo), NEW S, IndexGrows(S),
         blk \subseteq blk', undo \subseteq undo',
         \A b \in S : b \in blk' /\ ("undo" \in status'[b] => b \in undo')
  PROVE  LogIntact(treeDB', treeLog', blk', undo')
<1>1. PICK w : WritesOf(w, S, StoredTree, status') /\ treeLog' = treeLog \o w
  BY DEF IndexGrows
<1>2. WritesOf(w, S, After(treeDB, treeLog, Len(treeLog)), status')
  BY <1>1, TreeAfterIs
<1>3. S \in SUBSET Blocks /\ treeDB' = treeDB /\ treeLog \in Seq(Entries)
  BY DEF IndexGrows, DatabasesOK
<1>4. LogIntact(treeDB, treeLog \o w, blk', undo')
  BY <1>2, <1>3, IntactWritten
<1> QED BY <1>1, <1>3, <1>4

\* A prefix of the log, synced.
LEMMA LogCut ==
  ASSUME NEW db, NEW log, NEW bk, NEW un, LogIntact(db, log, bk, un), NEW k \in 0..Len(log)
  PROVE  LogIntact(After(db, log, k), <<>>, bk, un)
<1> DEFINE t == After(db, log, k)
<1>1. Intact(t, bk, un)
  BY DEF LogIntact
<1>2. t = [b \in Blocks |-> t[b]]
  BY AfterFunction
<1> HIDE DEF t
<1>3. After(t, <<>>, 0) = t
  BY <1>2, AfterNothing
<1>4. \A i \in 0..Len(<<>>) : i = 0
  OBVIOUS
<1>5. LogIntact(t, <<>>, bk, un)
  BY <1>1, <1>3, <1>4 DEF LogIntact
<1> QED BY <1>5 DEF t

\* Unless data was lost in the initial download, the files keep what the index
\* counts on; outside it they are committed with each write.
FilesKept ==
  /\ (~ ibdSeen \/ crashes = 0) => LogIntact(treeDB, treeLog, blk, undo)
  /\ ~ ibdSeen => blkSynced = blk /\ undoSynced = undo
  /\ \A b \in Blocks : fileOf[b] <= lastFile

\* A new node has the genesis block in its files, committed.
LEMMA FilesInit == Init => FilesKept
<1> SUFFICES ASSUME Init PROVE FilesKept
  OBVIOUS
<1>1. /\ treeDB = [b \in Blocks |-> IF b = Genesis THEN {"data"} ELSE {}] /\ treeLog = <<>>
      /\ blk = {Genesis} /\ blkSynced = {Genesis} /\ undo = {} /\ undoSynced = {}
      /\ fileOf = [b \in Blocks |-> 0] /\ lastFile = 0
  BY DEF Init
<1>2. Intact(treeDB, blk, undo)
  BY <1>1 DEF Intact
<1>3. After(treeDB, <<>>, 0) = treeDB
  BY <1>1, AfterNothing
<1>4. \A i \in 0..Len(<<>>) : i = 0
  OBVIOUS
<1>5. LogIntact(treeDB, treeLog, blk, undo)
  BY <1>1, <1>2, <1>3, <1>4 DEF LogIntact
<1> QED BY <1>1, <1>5 DEF FilesKept

\* While the log is intact, so is the index in memory.
LEMMA MemoryIntact ==
  ASSUME Types, IndexOK, Running, LogIntact(treeDB, treeLog, blk, undo)
  PROVE  Intact(status, blk, undo) /\ FilesIntact
<1>1. status = After(treeDB, treeLog, Len(treeLog)) /\ Len(treeLog) \in 0..Len(treeLog)
  BY TreeAfterIs DEF Types, DatabasesOK, IndexOK
<1>2. Intact(status, blk, undo)
  BY <1>1 DEF LogIntact
<1> QED BY <1>2 DEF Intact, FilesIntact, Indexed

\* What a step that loses nothing does to the files.
FilesGrow ==
  /\ blkSynced \subseteq blkSynced' /\ undoSynced \subseteq undoSynced'
  /\ lastFile <= lastFile'
  /\ (\A b \in Blocks : fileOf[b] <= lastFile) => \A b \in Blocks : fileOf'[b] <= lastFile'
  /\ ibdSeen => ibdSeen'
  /\ ~ ibdSeen' /\ blkSynced = blk /\ undoSynced = undo
       => blkSynced' = blk' /\ undoSynced' = undo'
  /\ LogIntact(treeDB, treeLog, blk, undo) => LogIntact(treeDB', treeLog', blk', undo')

\* AcceptBlock stores the block before its entry.
LEMMA AcceptFiles ==
  ASSUME Types, IndexOK, NEW b \in Blocks, NEW roll \in BOOLEAN, NEW ibd \in IBD,
         AcceptBlock(b, roll, ibd)
  PROVE  FilesGrow
<1>1. /\ lastFile' = IF roll THEN lastFile + 1 ELSE lastFile
      /\ fileOf' = [fileOf EXCEPT ![b] = lastFile']
      /\ undoSynced' = undoSynced \union Leaving(undo, roll) /\ undo' = undo
      /\ blk' = blk \union {b}
      /\ blkSynced' = blkSynced \union Leaving(blk, roll) \union (IF ibd THEN {} ELSE {b})
      /\ ibdSeen' = (ibdSeen \/ ibd)
  BY DEF AcceptBlock, FindBlockPos, WriteBlockToDisk
<1>2. Leaving(undo, roll) \subseteq undo /\ Leaving(blk, roll) \subseteq blk
  BY DEF Leaving
<1>3. /\ fileOf \in [Blocks -> 0..MaxFiles-1] /\ lastFile \in Nat /\ MaxFiles \in Nat
      /\ blkSynced \subseteq blk /\ undoSynced \subseteq undo
      /\ ibdSeen \in BOOLEAN /\ ibd \in BOOLEAN
  BY IBDType, BoundsAssumption DEF Types, ControlOK, FilesOK, BoundsAssumption
<1>4. lastFile <= lastFile' /\ lastFile' \in Nat
  BY <1>1, <1>3
<1>5. ASSUME \A c \in Blocks : fileOf[c] <= lastFile, NEW c \in Blocks
      PROVE  fileOf'[c] <= lastFile'
  <2>1. CASE c = b
    BY <1>1, <1>3, <1>4, <2>1
  <2>2. CASE c # b
    <3>1. fileOf'[c] = fileOf[c] /\ fileOf[c] \in Nat /\ fileOf[c] <= lastFile
      BY <1>1, <1>3, <1>5, <2>2
    <3> QED BY <1>3, <1>4, <3>1
  <2> QED BY <2>1, <2>2
<1>6. ASSUME LogIntact(treeDB, treeLog, blk, undo) PROVE LogIntact(treeDB', treeLog', blk', undo')
  <2>1. IndexGrows({b}) /\ status'[b] = {"data"}
    BY AcceptGrown
  <2>2. DatabasesOK /\ blk \subseteq blk' /\ undo \subseteq undo' /\ b \in blk'
    BY <1>1 DEF Types
  <2>3. \A c \in {b} : c \in blk' /\ ("undo" \in status'[c] => c \in undo')
    BY <2>1, <2>2
  <2> QED BY <1>6, <2>1, <2>2, <2>3, LogKept
<1>7. ~ ibdSeen' /\ blkSynced = blk /\ undoSynced = undo => blkSynced' = blk' /\ undoSynced' = undo'
  <2>1. ~ ibdSeen' => ~ ibd
    BY <1>1, <1>3
  <2> QED BY <1>1, <1>2, <2>1
<1>8. blkSynced \subseteq blkSynced' /\ undoSynced \subseteq undoSynced'
  BY <1>1
<1>9. ibdSeen => ibdSeen'
  BY <1>1
<1> QED BY <1>4, <1>5, <1>6, <1>7, <1>8, <1>9 DEF FilesGrow

\* Marking adds nothing that the index counts on.
LEMMA MarkFiles ==
  ASSUME Types, IndexOK, NEW b \in Blocks, MarkFailedChild(b)
  PROVE  FilesGrow
<1>1. UNCHANGED <<blk, blkSynced, undo, undoSynced, fileOf, lastFile, ibdSeen>> /\ Running
  BY DEF MarkFailedChild, fileVars, Running
<1>2. PICK culprit \in Scanned(b) \cap Failed :
        /\ IndexGrows(Marked(b, culprit)) /\ Grown(Marked(b, culprit), status, status', invalid)
        /\ cand' = cand \ Marked(b, culprit)
        /\ \A c \in Marked(b, culprit) : status'[c] = status[c] \union {"failedchild"}
  BY MarkGrown
<1> DEFINE above == Marked(b, culprit)
<1>3. ASSUME LogIntact(treeDB, treeLog, blk, undo) PROVE LogIntact(treeDB', treeLog', blk', undo')
  <2>1. Intact(status, blk, undo)
    BY <1>1, <1>3, MemoryIntact
  <2>2. b \in cand
    BY DEF MarkFailedChild, BestCandidate
  <2>3. \A c \in Chain[b] : c \in Blocks /\ status[c] # {}
    BY <1>1, <2>2, ChainIndexed DEF IndexOK, CandidatesSound, Indexed
  <2>4. \A c \in above : c \in blk' /\ ("undo" \in status'[c] => c \in undo')
    BY <1>1, <1>2, <2>1, <2>3 DEF Intact, Marked
  <2>5. IndexGrows(above) /\ DatabasesOK /\ blk \subseteq blk' /\ undo \subseteq undo'
    BY <1>1, <1>2 DEF Types
  <2> HIDE DEF above
  <2> QED BY <1>3, <2>4, <2>5, LogKept
<1>4. lastFile <= lastFile'
  BY <1>1, BoundsAssumption DEF Types, FilesOK, BoundsAssumption
<1> QED BY <1>1, <1>3, <1>4 DEF FilesGrow

\* ConnectBlock writes the undo data before its entry.
LEMMA ConnectFiles ==
  ASSUME Types, IndexOK, NEW S \in SUBSET Connect, NEW marked \in SUBSET (Connect \cap invalid),
         NEW ibd \in BOOLEAN, Connects(S, ibd, marked)
  PROVE  FilesGrow
<1>1. /\ UNCHANGED <<blk, blkSynced, fileOf, lastFile>> /\ Running /\ attach # {}
      /\ ibdSeen' \in BOOLEAN /\ (ibdSeen \/ ibd => ibdSeen')
      /\ ConnectEffect(S, ibd, marked)
  BY DEF Connects
<1>2. /\ IndexGrows(Fresh(S) \union marked)
      /\ \A b \in Fresh(S) : status'[b] = status[b] \union {"undo"}
      /\ \A b \in marked : status'[b] = status[b] \union {"failed"}
      /\ undo' = undo \union Fresh(S)
  BY <1>1 DEF ConnectEffect
<1>3. undoSynced' = IF ibd THEN undoSynced ELSE undoSynced \union Fresh(S)
  BY <1>1 DEF ConnectEffect
<1>4. ASSUME LogIntact(treeDB, treeLog, blk, undo) PROVE LogIntact(treeDB', treeLog', blk', undo')
  <2>1. Intact(status, blk, undo)
    BY <1>1, <1>4, MemoryIntact
  <2>2. \A b \in Connect : b \in Indexed
    BY <1>1, ConnectGrown DEF Types, ControlOK, MemoryOK
  <2> DEFINE F == Fresh(S) \union marked
  <2>3. ASSUME NEW b \in F PROVE b \in blk' /\ ("undo" \in status'[b] => b \in undo')
    <3>1. b \in Blocks /\ b \in Indexed
      BY <2>2 DEF Fresh, Indexed
    <3>2. CASE b \in Fresh(S)
      BY <1>1, <1>2, <2>1, <3>1, <3>2 DEF Intact, Indexed
    <3>3. CASE b \in marked
      BY <1>1, <1>2, <2>1, <3>1, <3>3 DEF Intact, Indexed
    <3> QED BY <3>2, <3>3
  <2>4. DatabasesOK /\ blk \subseteq blk' /\ undo \subseteq undo' /\ IndexGrows(F)
    BY <1>1, <1>2 DEF Types
  <2> HIDE DEF F
  <2> QED BY <1>4, <2>3, <2>4, LogKept
<1>5. ~ ibdSeen' /\ blkSynced = blk /\ undoSynced = undo => blkSynced' = blk' /\ undoSynced' = undo'
  <2>1. ~ ibdSeen' => ~ ibd
    BY <1>1
  <2> QED BY <1>1, <1>2, <1>3, <2>1
<1>6. undoSynced \subseteq undoSynced'
  BY <1>3
<1>7. lastFile <= lastFile'
  BY <1>1, BoundsAssumption DEF Types, FilesOK, BoundsAssumption
<1> QED BY <1>1, <1>4, <1>5, <1>6, <1>7 DEF FilesGrow

\* Every step that loses nothing.
LEMMA FilesStep ==
  ASSUME Types, IndexOK, [Next]_vars, ~ Lose
  PROVE  FilesGrow
<1>f. lastFile \in Nat
  BY BoundsAssumption DEF Types, FilesOK, BoundsAssumption
<1>l. Len(treeLog) \in 0..Len(treeLog) /\ treeLog \in Seq(Entries)
  BY DEF Types, DatabasesOK
<1>s. ASSUME treeDB' = StoredTree, treeLog' = <<>>,
             UNCHANGED <<blk, blkSynced, undo, undoSynced, fileOf, lastFile, ibdSeen>>
      PROVE  FilesGrow
  <2>1. treeDB' = After(treeDB, treeLog, Len(treeLog))
    BY <1>s, TreeAfterIs
  <2>2. LogIntact(treeDB, treeLog, blk, undo) =>
           LogIntact(After(treeDB, treeLog, Len(treeLog)), <<>>, blk, undo)
    BY <1>l, LogCut
  <2> QED BY <1>f, <1>s, <2>1, <2>2 DEF FilesGrow
<1>1. CASE /\ UNCHANGED <<blk, blkSynced, undo, undoSynced, fileOf, lastFile, treeDB, treeLog>>
           /\ ibdSeen' = ibdSeen
  BY <1>1, <1>f DEF FilesGrow
<1>2. CASE FlushBlockFile
  <2>1. /\ blkSynced' = blkSynced \union {b \in blk : fileOf[b] = lastFile}
        /\ undoSynced' = undoSynced \union {b \in undo : fileOf[b] = lastFile}
        /\ UNCHANGED <<blk, undo, fileOf, lastFile, treeDB, treeLog, ibdSeen>>
    BY <1>2 DEF FlushBlockFile, dbVars
  <2> QED BY <1>f, <2>1 DEF FilesGrow
<1>3. CASE SyncTree
  BY <1>3, <1>s DEF SyncTree, StoredTree, fileVars
<1>4. CASE Restart
  BY <1>4, <1>s DEF Restart, fileVars
<1> QED BY <1>1, <1>2, <1>3, <1>4, AcceptFiles, MarkFiles, ConnectFiles, FileSteps

\* Every step keeps the files that the index counts on.
LEMMA FilesNext == Types /\ IndexOK /\ FilesKept /\ [Next]_vars => FilesKept'
<1> SUFFICES ASSUME Types, IndexOK, FilesKept, [Next]_vars PROVE FilesKept'
  OBVIOUS
<1>c. crashes \in Nat /\ crashes' \in Nat /\ crashes <= crashes'
  BY FileSteps
<1>1. CASE ~ Lose
  <2>1. FilesGrow
    BY <1>1, FilesStep
  <2>2. crashes' = 0 => crashes = 0
    BY <1>c
  <2>3. (~ ibdSeen' \/ crashes' = 0) => LogIntact(treeDB', treeLog', blk', undo')
    BY <2>1, <2>2 DEF FilesGrow, FilesKept
  <2>4. ~ ibdSeen' => blkSynced' = blk' /\ undoSynced' = undo'
    BY <2>1 DEF FilesGrow, FilesKept
  <2>5. \A b \in Blocks : fileOf'[b] <= lastFile'
    BY <2>1 DEF FilesGrow, FilesKept
  <2> QED BY <2>3, <2>4, <2>5 DEF FilesKept
<1>2. CASE Lose
  <2>1. PICK k \in 0..Len(treeLog), best \in {coinsDB} \union Range(coinsLog),
             lostBlk \in SUBSET (blk \ blkSynced), lostUndo \in SUBSET (undo \ undoSynced) :
               PowerLoss(k, best, lostBlk, lostUndo)
    BY <1>2 DEF Lose
  <2>2. /\ treeDB' = TreeAfter(k) /\ treeLog' = <<>>
        /\ blk' = blk \ lostBlk /\ blkSynced' = blk'
        /\ undo' = undo \ lostUndo /\ undoSynced' = undo'
        /\ UNCHANGED <<fileOf, lastFile, ibdSeen>> /\ crashes' = crashes + 1
    BY <2>1 DEF PowerLoss
  <2>3. crashes' # 0
    BY <1>c, <2>2
  <2>4. ASSUME ~ ibdSeen PROVE LogIntact(treeDB', treeLog', blk', undo')
    <3>1. blk' = blk /\ undo' = undo /\ LogIntact(treeDB, treeLog, blk, undo)
      BY <2>1, <2>2, <2>4 DEF FilesKept
    <3>2. treeDB' = After(treeDB, treeLog, k)
      BY <2>2, TreeAfterIs
    <3>3. LogIntact(After(treeDB, treeLog, k), <<>>, blk, undo)
      BY <3>1, LogCut
    <3> QED BY <2>2, <3>1, <3>2, <3>3
  <2> QED BY <2>2, <2>3, <2>4 DEF FilesKept
<1> QED BY <1>1, <1>2

\* While the index in memory can be counted on, SetBestChain finds every block
\* and undo record it needs.
LEMMA NotStuck ==
  ASSUME Types, IndexOK, UndoOn(coinsTip, status), FilesIntact, attach # {}
  PROVE  Stuck = {} /\ \A b \in Connect : b \in blk
<1>1. attach \in SUBSET Blocks /\ coinsTip \in Blocks
  BY DEF Types, ControlOK, MemoryOK
<1>2. /\ Target \in attach /\ Target \in Blocks /\ Connect \subseteq Chain[Target]
      /\ Disconnect \subseteq Chain[coinsTip] \ {Genesis}
  BY <1>1, TargetIs
<1>3. \A c \in Chain[Target] : c \in Blocks /\ status[c] # {}
  BY <1>2, ChainIndexed DEF IndexOK, Indexed
<1>4. \A b \in Connect : b \in blk
  BY <1>2, <1>3 DEF FilesIntact, Indexed
<1>5. ASSUME NEW b \in Disconnect PROVE b \in blk /\ b \in undo
  <2>1. b \in Blocks /\ "undo" \in status[b]
    BY <1>1, <1>2, ChainSelf DEF UndoOn
  <2> QED BY <2>1 DEF FilesIntact, Indexed
<1> QED BY <1>4, <1>5 DEF Stuck

\* The first run: nothing has gone down.
FirstRun == crashes = 0 => Running /\ ~ starting

\* A node that is down, or starts again, has gone down once at least.
LEMMA FirstRunNext ==
  ASSUME Types, IndexOK, UndoOK, FilesKept, FirstRun, [Next]_vars
  PROVE  FirstRun'
<1> SUFFICES ASSUME crashes' = 0 PROVE Running' /\ ~ starting'
  BY DEF FirstRun
<1>c. crashes \in Nat /\ crashes' \in Nat /\ crashes <= crashes'
  BY FileSteps
<1>0. crashes = 0 /\ Running /\ ~ starting
  BY <1>c DEF FirstRun
<1>i. FilesIntact /\ UndoOn(coinsTip, status)
  BY <1>0, MemoryIntact DEF FilesKept, UndoOK
<1>r. ASSUME ReturnTo(TRUE, coinsTip) \/ ReturnTo(FALSE, coinsTip)
      PROVE  pc' = "idle" /\ ~ starting'
  BY <1>0, <1>r DEF ReturnTo
<1>1. CASE NothingBetter \/ AttachDone
  BY <1>1, <1>r DEF NothingBetter, AttachDone, Running
<1>2. CASE DisconnectFails
  BY <1>2, <1>i, NotStuck DEF DisconnectFails
<1>3. ASSUME NEW ibd \in IBD, ReadFails(ibd) PROVE FALSE
  <2>1. attach # {} /\ Bad # {} /\ Lowest(Bad) \notin blk
    BY <1>3 DEF ReadFails
  <2>2. Lowest(Bad) \in Connect
    BY <2>1, BadIs DEF Types, ControlOK, MemoryOK
  <2> QED BY <1>i, <2>1, <2>2, NotStuck
<1>4. ASSUME NEW ibd \in IBD, BlockInvalid(ibd) PROVE Running' /\ ~ starting'
  <2>1. InvalidBlockFound(Lowest(Bad)) /\ coinsTip' = coinsTip
    BY <1>4 DEF BlockInvalid, CoinsAfterFailure
  <2> QED BY <1>0, <1>r, <2>1 DEF InvalidBlockFound, Running
<1>5. ASSUME NEW ibd \in IBD, NEW flush \in BOOLEAN, ViewFlushed(ibd, flush)
      PROVE  Running' /\ ~ starting'
  BY <1>0, <1>5 DEF ViewFlushed, Running
<1>6. ASSUME NEW b \in Blocks, MarkFailedChild(b) \/ ChooseAttach(b) PROVE Running' /\ ~ starting'
  BY <1>0, <1>6 DEF MarkFailedChild, ChooseAttach, Running
<1>7. ASSUME NEW b \in Blocks, NEW roll \in BOOLEAN, NEW ibd \in IBD, AcceptBlock(b, roll, ibd)
      PROVE  Running' /\ ~ starting'
  BY <1>0, <1>7 DEF AcceptBlock, Running
<1>8. CASE FlushBlockFile \/ SyncTree \/ FlushCoins \/ Register
  BY <1>0, <1>8 DEF FlushBlockFile, SyncTree, FlushCoins, Register, Running
<1>9. CASE DiskLow \/ Shutdown \/ Crash \/ Lose
  <2>1. crashes' = crashes + 1
    BY <1>9 DEF DiskLow, Shutdown, Crash, Lose, PowerLoss
  <2> QED BY <1>0, <2>1
<1>10. CASE Restart
  BY <1>0, <1>10 DEF Restart, Running
<1>11. CASE UNCHANGED vars
  BY <1>0, <1>11 DEF vars, Running
<1> QED BY <1>1, <1>2, <1>3, <1>4, <1>5, <1>6, <1>7, <1>8, <1>9, <1>10, <1>11 DEF Next, CallStep

\* Until the first loss, what the coins database may come back with was
\* committed before it, and the files are committed when the coins are written.
Committed(best) == \A b \in Chain[best] \ {Genesis} : b \in blkSynced /\ b \in undoSynced
CommitOK ==
  /\ FirstRun
  /\ crashes = 0 /\ (ibdSeen => lastFile = 0) =>
       /\ pc \in {"sync", "coins"} => blkSynced = blk /\ undoSynced = undo
       /\ \A best \in {coinsDB} \union Range(coinsLog) : Committed(best)

\* Nothing waits to be committed in a new node.
LEMMA CommitInit == Init => CommitOK
<1> SUFFICES ASSUME Init PROVE CommitOK
  OBVIOUS
<1>1. /\ coinsDB = Genesis /\ coinsLog = <<>> /\ pc = "idle" /\ starting = FALSE
  BY DEF Init
<1>2. Range(coinsLog) = {}
  BY <1>1 DEF Range
<1> QED BY <1>1, <1>2, ChainOfGenesis DEF CommitOK, FirstRun, Committed, Running

\* The files are committed before the coins that need them are written.
LEMMA CommitNext == Types /\ IndexOK /\ UndoOK /\ FilesKept /\ CommitOK /\ [Next]_vars => CommitOK'
<1> SUFFICES ASSUME Types, IndexOK, UndoOK, FilesKept, CommitOK, [Next]_vars PROVE CommitOK'
  OBVIOUS
<1>1. FirstRun'
  BY FirstRunNext DEF CommitOK
<1> SUFFICES ASSUME crashes' = 0, ibdSeen' => lastFile' = 0
             PROVE  /\ pc' \in {"sync", "coins"} => blkSynced' = blk' /\ undoSynced' = undo'
                    /\ \A best \in {coinsDB'} \union Range(coinsLog') : Committed(best)'
  BY <1>1 DEF CommitOK
<1>c. crashes \in Nat /\ crashes' \in Nat /\ crashes <= crashes'
  BY FileSteps
<1>2. crashes = 0 /\ Running /\ Running'
  BY <1>1, <1>c DEF CommitOK, FirstRun
<1>3. ~ Lose /\ ~ Restart /\ ~ Exits
  <2>1. Lose => ~ Running'
    BY DEF Lose, PowerLoss, GoDown, Running
  <2> QED BY <1>2, <2>1 DEF Restart, Exits, Running
<1>4. FilesGrow
  BY <1>3, FilesStep
<1>n. lastFile \in Nat /\ \A b \in Blocks : fileOf[b] \in Nat
  BY BoundsAssumption DEF Types, FilesOK, BoundsAssumption
<1>5. ibdSeen => lastFile = 0
  <2>1. lastFile <= lastFile' /\ (ibdSeen => ibdSeen')
    BY <1>4 DEF FilesGrow
  <2> QED BY <1>n, <2>1
<1>6. /\ pc \in {"sync", "coins"} => blkSynced = blk /\ undoSynced = undo
      /\ \A best \in {coinsDB} \union Range(coinsLog) : Committed(best)
  BY <1>2, <1>5 DEF CommitOK
<1>7. pc' \in {"sync", "coins"} => blkSynced' = blk' /\ undoSynced' = undo'
  <2>1. CASE FlushBlockFile
    <3>1. /\ blkSynced' = blkSynced \union {b \in blk : fileOf[b] = lastFile}
          /\ undoSynced' = undoSynced \union {b \in undo : fileOf[b] = lastFile}
          /\ UNCHANGED <<blk, undo, lastFile, ibdSeen>>
      BY <2>1 DEF FlushBlockFile
    <3>2. /\ blkSynced \subseteq blk /\ undoSynced \subseteq undo
          /\ blk \subseteq Blocks /\ undo \subseteq Blocks
      BY DEF Types, FilesOK
    <3>3. CASE ~ ibdSeen
      BY <3>1, <3>2, <3>3 DEF FilesKept
    <3>4. CASE ibdSeen
      <4>1. \A b \in Blocks : fileOf[b] = lastFile
        BY <1>5, <1>n, <3>4 DEF FilesKept
      <4> QED BY <3>1, <3>2, <4>1
    <3> QED BY <3>3, <3>4
  <2>2. CASE SyncTree
    BY <1>6, <2>2 DEF SyncTree, fileVars
  <2>3. CASE UNCHANGED vars
    BY <1>6, <2>3 DEF vars, fileVars
  <2> QED BY <2>1, <2>2, <2>3, CommitSteps
<1>8. ASSUME NEW best \in {coinsDB'} \union Range(coinsLog') PROVE Committed(best)'
  <2>1. ASSUME best \in {coinsDB} \union Range(coinsLog) PROVE Committed(best)'
    BY <1>4, <1>6, <2>1 DEF Committed, FilesGrow
  <2>2. CASE FlushCoins
    <3>1. /\ pc = "coins" /\ coinsLog' = Append(coinsLog, coinsTip) /\ coinsDB' = coinsDB
          /\ UNCHANGED <<blk, blkSynced, undo, undoSynced>>
      BY <2>2 DEF FlushCoins, fileVars
    <3>2. Range(coinsLog') \subseteq Range(coinsLog) \union {coinsTip}
      BY <3>1 DEF Range, Types, MemoryOK, DatabasesOK
    <3>3. CASE best = coinsTip
      <4>1. Intact(status, blk, undo) /\ UndoOn(coinsTip, status)
        BY <1>2, MemoryIntact DEF FilesKept, UndoOK
      <4>2. Chain[coinsTip] \subseteq Blocks
        BY ChainSelf DEF Types, MemoryOK
      <4>3. \A b \in Chain[coinsTip] \ {Genesis} : b \in blk /\ b \in undo
        BY <4>1, <4>2 DEF UndoOn, Intact
      <4> QED BY <1>6, <3>1, <3>3, <4>3 DEF Committed
    <3> QED BY <2>1, <3>1, <3>2, <3>3
  <2>3. CASE UNCHANGED <<coinsDB, coinsLog>>
    BY <2>1, <2>3
  <2>4. (\E ibd \in IBD, flush \in BOOLEAN : ViewFlushed(ibd, flush))
           => UNCHANGED <<coinsDB, coinsLog>>
    BY DEF ViewFlushed
  <2> QED BY <1>3, <2>2, <2>3, <2>4, CoinsSteps
<1> QED BY <1>7, <1>8

----------------------------------------------------------------------------
(* The best chain.                                                         *)

\* While a chain is attached: no candidate has more work than what is left of
\* it or than the tip, and a failed block that "check ancestry" did not meet is
\* below every block that is left, at a height that the main chain goes beyond.
Attaching == {"attach"} \union Flushing
AttachOK ==
  pc \in Attaching =>
    /\ \A c \in cand : \E a \in attach \union {tip} : ChainWork[c] <= ChainWork[a]
    /\ \A a \in attach : \A f \in Chain[a] \cap Failed :
          Height[f] + 1 <= Height[tip] /\ \A c \in attach : f \in Chain[c]

\* GetNextInMainChain() is null exactly above the height of the tip.
LEMMA NextIs ==
  ASSUME Types, MainChainOf(byHeight, tip), NEW b \in Blocks
  PROVE  GetNextInMainChain(b) # None <=> Height[b] + 1 <= Height[tip]
<1>t. /\ tip \in Blocks /\ byHeight \in [0..MaxHeight -> Blocks \union {None}]
  BY DEF Types, MemoryOK
<1>h. /\ Height[b] \in Nat /\ MaxHeight \in Nat /\ Height[tip] \in Nat /\ Height[tip] <= MaxHeight
  BY <1>t, HeightType
<1>1. ASSUME Height[b] + 1 <= Height[tip] PROVE GetNextInMainChain(b) # None
  <2>1. Height[b] + 1 \in 0..MaxHeight
    BY <1>h, <1>1
  <2>2. PICK a \in Chain[tip] : Height[a] = Height[b] + 1
    BY <1>t, <1>1, <2>1, HeightOnto
  <2>3. a \in Blocks
    BY <1>t, ChainSelf
  <2>4. byHeight[Height[b] + 1] = a
    BY <2>1, <2>2, <2>3 DEF MainChainOf
  <2>5. GetNextInMainChain(b) = a
    BY <1>h, <2>1, <2>4 DEF GetNextInMainChain
  <2> QED BY <2>3, <2>5, TreeAssumption DEF TreeAssumption
<1>2. ASSUME GetNextInMainChain(b) # None PROVE Height[b] + 1 <= Height[tip]
  <2>1. Height[b] + 1 \in 0..MaxHeight /\ byHeight[Height[b] + 1] # None
    BY <1>h, <1>2 DEF GetNextInMainChain
  <2> DEFINE d == byHeight[Height[b] + 1]
  <2>2. d \in Blocks
    BY <1>t, <2>1
  <2>3. d \in Chain[tip] /\ Height[d] = Height[b] + 1
    BY <2>1, <2>2 DEF MainChainOf
  <2> QED BY <1>t, <2>3, HeightOnChain
<1> QED BY <1>1, <1>2

\* The tip is always a candidate.
LEMMA TipIsCandidate ==
  ASSUME Types, IndexOK, CoinsOK, UndoOK, Running, coinsTip = tip
  PROVE  tip \in cand
<1>1. tip \in Blocks /\ UndoOn(tip, status) /\ Chain[tip] \cap invalid = {}
  BY DEF Types, MemoryOK, UndoOK, CoinsOK, Valid
<1>2. status[tip] # {}
  BY <1>1, ChainSelf DEF UndoOn, IndexOK, GoodIndex
<1>3. tip \notin Failed
  BY <1>1 DEF IndexOK, GoodIndex, Failed
<1> QED BY <1>1, <1>2, <1>3 DEF IndexOK, CandidatesSound, Indexed

\* What is chosen to be attached reaches the best candidate.
LEMMA ChosenIs ==
  ASSUME Types, IndexOK, CoinsOK, TipOK, UndoOK, NEW b \in Blocks, ChooseAttach(b)
  PROVE  AttachOK'
<1>1. /\ pc = "best" /\ b \in cand /\ (\A c \in cand : ChainWork[c] <= ChainWork[b])
      /\ ChainWork[b] # ChainWork[tip] /\ Scanned(b) \cap Failed = {}
      /\ attach' = AttachSet(b)
      /\ UNCHANGED <<cand, tip, status>>
  BY DEF ChooseAttach, BestCandidate, memVars
<1>2. tip \in cand /\ MainChainOf(byHeight, tip) /\ tip \in Blocks
  BY <1>1, TipIsCandidate DEF TipOK, Running, Types, MemoryOK
<1>3. ChainWork[b] > ChainWork[tip]
  BY <1>1, <1>2, WorkType
<1>4. PICK s \in Chain[b] : /\ Scanned(b) = {c \in Chain[b] : s \in Chain[c]}
                            /\ s = Genesis \/ GetNextInMainChain(s) # None
  BY ScannedIs
<1>5. b \in attach'
  BY <1>1, <1>3, ScannedIs DEF AttachSet
<1>6. Failed' = Failed
  BY <1>1 DEF Failed
<1>7. \A a \in attach' : a \in Chain[b] /\ s \in Chain[a] /\ a \in Blocks
  BY <1>1, <1>4, ChainSelf DEF AttachSet
<1>8. ASSUME NEW a \in attach', NEW f \in Chain[a] \cap Failed
      PROVE  Height[f] + 1 <= Height[tip] /\ \A c \in attach' : f \in Chain[c]
  <2>1. f \in Chain[b] /\ f \in Blocks /\ s \in Blocks
    BY <1>7, ChainSub, ChainSelf
  <2>2. s \notin Chain[f]
    BY <1>1, <1>4, <2>1
  <2>3. f \in Chain[s] /\ f # s
    BY <2>1, <2>2, ChainTotal, ChainSelf
  <2>4. s # Genesis
    BY <2>3, ChainOfGenesis
  <2>5. Height[s] + 1 <= Height[tip]
    BY <1>2, <1>4, <2>1, <2>4, NextIs
  <2>6. Height[f] <= Height[s] /\ Height[f] \in Nat /\ Height[s] \in Nat /\ Height[tip] \in Nat
    BY <1>2, <2>1, <2>3, HeightOnChain, HeightType
  <2>7. \A c \in attach' : f \in Chain[c]
    BY <1>7, <2>3, ChainSub
  <2> QED BY <2>5, <2>6, <2>7
<1>9. \A c \in cand' : \E a \in attach' \union {tip'} : ChainWork[c] <= ChainWork[a]
  BY <1>1, <1>5
<1> QED BY <1>1, <1>6, <1>8, <1>9 DEF AttachOK

\* Nothing on the chain of a block with a valid chain has failed.
LEMMA ValidNotFailed ==
  ASSUME IndexOK, NEW b \in Blocks, Valid(b, invalid)
  PROVE  Chain[b] \cap Failed = {}
<1> SUFFICES ASSUME NEW f \in Chain[b] \cap Failed PROVE FALSE
  OBVIOUS
<1>1. f \in Blocks /\ Chain[f] \subseteq Chain[b]
  BY ChainSub
<1>2. Chain[f] \cap invalid # {}
  BY <1>1 DEF IndexOK, GoodIndex, Failed
<1> QED BY <1>1, <1>2 DEF Valid

\* A step of the call moves the tip.
LEMMA RegisterAttach ==
  ASSUME Types, IndexOK, CoinsOK, TipOK, AttachOK, Register
  PROVE  AttachOK'
<1>1. /\ pc \in Flushing /\ tip' = Target /\ attach' = attach \ {Target}
      /\ UNCHANGED <<cand, status>>
  BY DEF Register, Flushing
<1>2. /\ attach # {} /\ attach \in SUBSET Blocks /\ coinsTip \in Blocks /\ coinsTip = Target
  BY <1>1 DEF Types, ControlOK, MemoryOK, TipOK
<1>3. Target \in attach /\ Target \in Blocks /\ \A a \in attach : ChainWork[Target] <= ChainWork[a]
  BY <1>2, TargetIs
<1>4. Failed' = Failed
  BY <1>1 DEF Failed
<1>5. Chain[Target] \cap Failed = {}
  BY <1>2, ValidNotFailed DEF CoinsOK
<1>6. ASSUME NEW c \in cand' PROVE \E a \in attach' \union {tip'} : ChainWork[c] <= ChainWork[a]
  <2>1. PICK a \in attach \union {tip} : ChainWork[c] <= ChainWork[a]
    BY <1>1, <1>6 DEF AttachOK, Attaching
  <2>2. CASE a \in attach
    BY <1>1, <2>1, <2>2
  <2>3. CASE a = tip
    <3>1. ChainWork[tip] < ChainWork[Target]
      BY <1>3 DEF TipOK
    <3>2. ChainWork[c] \in Nat /\ ChainWork[tip] \in Nat /\ ChainWork[Target] \in Nat
      BY <1>1, <1>3, WorkType DEF Types, MemoryOK
    <3>3. ChainWork[c] <= ChainWork[Target]
      BY <2>1, <2>3, <3>1, <3>2
    <3> QED BY <1>1, <3>3
  <2> QED BY <2>2, <2>3
<1>7. \A a \in attach' : Chain[a] \cap Failed' = {}
  <2>1. \A a \in attach : \A f \in Chain[a] \cap Failed : f \in Chain[Target]
    BY <1>1, <1>3 DEF AttachOK, Attaching
  <2> QED BY <1>1, <1>4, <1>5, <2>1
<1> QED BY <1>6, <1>7 DEF AttachOK

\* Steps of the call that keep the tip and what is left to attach.
LEMMA AttachSame ==
  ASSUME AttachOK, pc' \in Attaching => pc \in Attaching,
         UNCHANGED <<cand, tip, attach>>, Failed' = Failed
  PROVE  AttachOK'
BY DEF AttachOK

\* A new node attaches nothing.
LEMMA AttachInit == Init => AttachOK
BY DEF Init, AttachOK, Attaching, Flushing

\* The candidate that is taken is the best one, and stays so until its chain is
\* attached or one of its blocks is marked.
LEMMA AttachNext ==
  Types /\ IndexOK /\ CoinsOK /\ TipOK /\ UndoOK /\ AttachOK /\ [Next]_vars => AttachOK'
<1> SUFFICES ASSUME Types, IndexOK, CoinsOK, TipOK, UndoOK, AttachOK, [Next]_vars PROVE AttachOK'
  OBVIOUS
<1>r. ASSUME ReturnTo(TRUE, coinsTip) \/ ReturnTo(FALSE, coinsTip) PROVE pc' \notin Attaching
  BY <1>r DEF ReturnTo, Attaching, Flushing
<1>1. CASE NothingBetter \/ AttachDone
  <2>1. pc' \notin Attaching
    BY <1>1, <1>r DEF NothingBetter, AttachDone
  <2> QED BY <2>1 DEF AttachOK
<1>2. CASE DisconnectFails
  <2>1. pc' \notin Attaching
    BY <1>2, <1>r DEF DisconnectFails, GoDown, Attaching, Flushing
  <2> QED BY <2>1 DEF AttachOK
<1>3. ASSUME NEW ibd \in IBD, ReadFails(ibd) PROVE AttachOK'
  BY <1>3 DEF ReadFails, GoDown, AttachOK, Attaching, Flushing
<1>4. ASSUME NEW ibd \in IBD, BlockInvalid(ibd) PROVE AttachOK'
  <2>1. InvalidBlockFound(Lowest(Bad)) /\ coinsTip' = coinsTip
    BY <1>4 DEF BlockInvalid, CoinsAfterFailure
  <2>2. pc' \notin Attaching
    BY <1>r, <2>1 DEF InvalidBlockFound, Attaching, Flushing
  <2> QED BY <2>2 DEF AttachOK
<1>5. ASSUME NEW ibd \in IBD, NEW flush \in BOOLEAN, ViewFlushed(ibd, flush) PROVE AttachOK'
  <2>1. ConnectEffect(Connect, ibd, {}) /\ ibd \in BOOLEAN
    BY <1>5, ViewFlushedConnects
  <2>2. attach # {} /\ UNCHANGED <<cand, tip, attach>> /\ pc \in Attaching
    BY <1>5 DEF ViewFlushed, Attaching
  <2>3. Failed' = Failed
    <3>1. attach \in SUBSET Blocks /\ coinsTip \in Blocks
      BY DEF Types, ControlOK, MemoryOK
    <3>2. {} \in SUBSET (Connect \cap invalid) /\ Connect \in SUBSET Connect
      OBVIOUS
    <3>3. Failed' = Failed \union {}
      BY <2>1, <2>2, <3>1, <3>2, ConnectGrown
    <3> QED BY <3>3
  <2> QED BY <2>2, <2>3, AttachSame
<1>6. ASSUME NEW b \in Blocks, MarkFailedChild(b) PROVE AttachOK'
  BY <1>6 DEF MarkFailedChild, AttachOK, Attaching, Flushing
<1>7. ASSUME NEW b \in Blocks, NEW roll \in BOOLEAN, NEW ibd \in IBD, AcceptBlock(b, roll, ibd)
      PROVE  AttachOK'
  BY <1>7 DEF AcceptBlock, AttachOK, Attaching, Flushing
<1>8. CASE FlushBlockFile \/ SyncTree \/ FlushCoins \/ UNCHANGED vars
  <2>1. UNCHANGED <<status, cand, tip, attach>> /\ (pc' \in Attaching => pc \in Attaching)
    BY <1>8 DEF FlushBlockFile, SyncTree, FlushCoins, vars, memVars, Attaching, Flushing
  <2>2. Failed' = Failed
    BY <2>1 DEF Failed
  <2> QED BY <2>1, <2>2, AttachSame
<1>9. CASE DiskLow \/ Shutdown \/ Crash \/ Lose \/ Restart
  <2>1. pc' \notin Attaching
    BY <1>9 DEF DiskLow, Shutdown, Crash, Lose, PowerLoss, Restart, GoDown, Attaching, Flushing
  <2> QED BY <2>1 DEF AttachOK
<1> QED BY <1>1, <1>2, <1>3, <1>4, <1>5, <1>6, <1>7, <1>8, <1>9, ChosenIs, RegisterAttach
           DEF Next, CallStep

\* The blocks that should have become the tip.
Untried == {b \in Indexed : ChainWork[b] > ChainWork[tip] /\ Chain[b] \cap Failed = {}}

\* There is none between calls, and one at most in a call for a new block.
BestOK ==
  Running /\ FilesIntact =>
    /\ pc = "idle" => Untried = {}
    /\ ~ starting => \A b, c \in Untried : b = c

\* What the index of a running node cannot count on stays lost.
LEMMA IntactBefore ==
  ASSUME Types, IndexOK, Running, [Next]_vars, Running', FilesIntact'
  PROVE  FilesIntact
<1>0. ~ Lose /\ ~ Restart
  BY DEF Lose, PowerLoss, GoDown, Restart, Running
<1>1. \A b \in Blocks : status[b] \subseteq status'[b]
  BY <1>0, FlagsGrow
<1>2. ASSUME NEW b \in Blocks
      PROVE  /\ b \in Indexed /\ b \in blk' => b \in blk
             /\ "undo" \in status[b] /\ b \in undo' => b \in undo
  <2>1. CASE UNCHANGED <<blk, blkSynced, undo, undoSynced, fileOf, lastFile, treeDB, treeLog>>
             /\ ibdSeen' = ibdSeen
    BY <2>1
  <2>2. ASSUME NEW c \in Blocks, NEW roll \in BOOLEAN, NEW ibd \in IBD, AcceptBlock(c, roll, ibd)
        PROVE  blk' = blk \union {c} /\ c \notin Indexed /\ undo' = undo
    BY <2>2 DEF AcceptBlock, WriteBlockToDisk
  <2>3. ASSUME NEW c \in Blocks, MarkFailedChild(c) PROVE blk' = blk /\ undo' = undo
    BY <2>3 DEF MarkFailedChild, fileVars
  <2>4. ASSUME NEW S \in SUBSET Connect, NEW marked \in SUBSET (Connect \cap invalid),
               NEW ibd \in BOOLEAN, Connects(S, ibd, marked)
        PROVE  blk' = blk /\ undo' = undo \union Fresh(S)
    BY <2>4 DEF Connects, ConnectEffect
  <2>5. FlushBlockFile \/ SyncTree => blk' = blk /\ undo' = undo
    BY DEF FlushBlockFile, SyncTree, fileVars
  <2> QED BY <1>0, <2>1, <2>2, <2>3, <2>4, <2>5, FileSteps DEF Fresh
<1>3. ASSUME NEW b \in Indexed PROVE b \in blk /\ ("undo" \in status[b] => b \in undo)
  <2>1. b \in Blocks /\ b \in Indexed'
    BY <1>1 DEF Indexed
  <2>2. b \in blk' /\ ("undo" \in status'[b] => b \in undo')
    BY <2>1 DEF FilesIntact
  <2> QED BY <1>1, <1>2, <2>1, <2>2
<1> QED BY <1>3 DEF FilesIntact

\* A call that finds nothing, or is done, leaves nothing untried.
LEMMA NothingUntried ==
  ASSUME Types, IndexOK, Running, \A c \in cand : ChainWork[c] <= ChainWork[tip]
  PROVE  Untried = {}
<1> SUFFICES ASSUME NEW b \in Untried PROVE FALSE
  OBVIOUS
<1>1. b \in Blocks /\ b \in Indexed /\ ChainWork[b] > ChainWork[tip] /\ Chain[b] \cap Failed = {}
  BY DEF Untried, Indexed
<1>2. b \in cand
  BY <1>1, ChainSelf DEF IndexOK, CandidatesSound
<1>3. ChainWork[b] \in Nat /\ ChainWork[tip] \in Nat /\ ChainWork[b] <= ChainWork[tip]
  BY <1>1, <1>2, WorkType DEF Types, MemoryOK
<1> QED BY <1>1, <1>3

\* Failing blocks and gaining work leaves less untried.
LEMMA UntriedLess ==
  ASSUME Types, Types', Indexed' \subseteq Indexed, Failed \subseteq Failed',
         ChainWork[tip'] >= ChainWork[tip]
  PROVE  Untried' \subseteq Untried
<1> SUFFICES ASSUME NEW b \in Untried' PROVE b \in Untried
  OBVIOUS
<1>1. b \in Indexed' /\ ChainWork[b] > ChainWork[tip'] /\ Chain[b] \cap Failed' = {}
  BY DEF Untried
<1>2. b \in Indexed /\ b \in Blocks
  BY <1>1 DEF Indexed
<1>3. ChainWork[b] \in Nat /\ ChainWork[tip] \in Nat /\ ChainWork[tip'] \in Nat
  BY <1>2, WorkType DEF Types, MemoryOK
<1>4. ChainWork[b] > ChainWork[tip]
  BY <1>1, <1>3
<1> QED BY <1>1, <1>2, <1>4 DEF Untried

\* A call for a new block that ends with an invalid block has tried the only
\* block that was left to try.
LEMMA FailureTries ==
  ASSUME Types, IndexOK, CoinsOK, TipOK, AttachOK, \A b, c \in Untried : b = c,
         NEW ibd \in IBD, BlockInvalid(ibd), GetNextInMainChain(Lowest(Bad)) = None,
         Failed' = Failed \union {Lowest(Bad)}, Indexed' = Indexed, tip' = tip
  PROVE  Untried' = {}
<1> DEFINE bad == Lowest(Bad)
<1>1. /\ bad \in Connect \cap invalid /\ \A c \in Bad : ChainWork[bad] <= ChainWork[c]
  BY BlockInvalidConnects
<1>2. pc = "attach" /\ attach # {} /\ coinsTip = tip /\ MainChainOf(byHeight, tip)
  BY DEF BlockInvalid, TipOK, Running
<1>3. attach \in SUBSET Blocks /\ coinsTip \in Blocks /\ tip \in Blocks
  BY DEF Types, ControlOK, MemoryOK
<1>4. /\ Target \in attach /\ Target \in Blocks /\ Connect \subseteq Chain[Target]
  BY <1>2, <1>3, TargetIs
<1>5. Target \in Indexed /\ ChainWork[Target] > ChainWork[tip]
  BY <1>4 DEF IndexOK, TipOK
<1>6. bad \in Blocks /\ bad \in Chain[Target]
  BY <1>1, <1>4, ChainSelf
<1>7. Chain[Target] \cap Failed = {}
  <2> SUFFICES ASSUME NEW f \in Chain[Target] \cap Failed PROVE FALSE
    OBVIOUS
  <2>1. Height[f] + 1 <= Height[tip]
    BY <1>2, <1>4 DEF AttachOK, Attaching
  <2>2. f \in Blocks /\ Chain[f] \subseteq Chain[Target]
    BY <1>4, ChainSub
  <2>3. PICK g \in Chain[f] : g \in invalid
    BY <2>2 DEF IndexOK, GoodIndex, Failed
  <2>4. g \in Chain[Target] /\ g \notin Chain[coinsTip]
    BY <2>2, <2>3 DEF CoinsOK, Valid
  <2>5. g \in Bad
    BY <2>3, <2>4 DEF Bad, Connect
  <2>6. bad \in Chain[g]
    BY <1>1, <1>4, <1>6, <2>4, <2>5, ChainOrder
  <2>7. bad \in Chain[f]
    BY <2>2, <2>3, <2>6, ChainSub
  <2>8. Height[bad] <= Height[f] /\ Height[bad] \in Nat /\ Height[f] \in Nat /\ Height[tip] \in Nat
    BY <1>3, <1>6, <2>2, <2>7, HeightOnChain, HeightType
  <2>9. Height[bad] + 1 <= Height[tip]
    BY <2>1, <2>8
  <2> QED BY <1>2, <1>6, <2>9, NextIs
<1>8. Target \in Untried
  BY <1>5, <1>7 DEF Untried
<1>9. ASSUME NEW u \in Untried' PROVE FALSE
  <2>1. u \in Untried /\ bad \notin Chain[u]
    BY <1>9 DEF Untried
  <2>2. u = Target
    BY <1>8, <2>1
  <2> QED BY <1>6, <2>1, <2>2
<1> QED BY <1>9

\* A new node has one block.
LEMMA BestInit == Init => BestOK
<1> SUFFICES ASSUME Init PROVE Untried = {}
  BY DEF BestOK
<1> SUFFICES ASSUME NEW b \in Untried PROVE FALSE
  OBVIOUS
<1>1. tip = Genesis /\ \A c \in Blocks : status[c] = IF c = Genesis THEN {"data"} ELSE {}
  BY DEF Init
<1>2. b = Genesis
  BY <1>1 DEF Untried, Indexed
<1>3. ChainWork[Genesis] > ChainWork[Genesis]
  BY <1>1, <1>2 DEF Untried
<1> QED BY <1>3, WorkType, ChainOfGenesis

\* A new block is the only one that may be left to try.
LEMMA AcceptUntried ==
  ASSUME Types, IndexOK, BestOK, FilesIntact, NEW b \in Blocks, NEW roll \in BOOLEAN,
         NEW ibd \in IBD, AcceptBlock(b, roll, ibd)
  PROVE  Untried' \subseteq {b} /\ Failed \subseteq Failed'
<1>1. /\ IndexGrows({b}) /\ status'[b] = {"data"} /\ Running
      /\ pc = "idle" /\ tip' = tip /\ b \notin Indexed
  BY AcceptGrown DEF AcceptBlock
<1>2. \A c \in Blocks \ {b} : status'[c] = status[c]
  BY <1>1 DEF IndexGrows
<1>3. Untried = {}
  BY <1>1 DEF BestOK
<1>4. \A c \in Indexed' : c = b \/ c \in Indexed
  BY <1>2 DEF Indexed
<1>5. Failed \subseteq Failed'
  BY <1>1, <1>2 DEF Failed, Indexed
<1>6. \A c \in Untried' : c = b
  BY <1>1, <1>3, <1>4, <1>5 DEF Untried
<1> QED BY <1>5, <1>6

\* AcceptBlock adds one candidate at most, and its call is under way.
LEMMA AcceptBest ==
  ASSUME Types, IndexOK, BestOK, FilesIntact, NEW b \in Blocks, NEW roll \in BOOLEAN,
         NEW ibd \in IBD, AcceptBlock(b, roll, ibd)
  PROVE  BestOK'
<1>1. Untried' \subseteq {b} /\ pc' = "best"
  BY AcceptUntried DEF AcceptBlock
<1> QED BY <1>1 DEF BestOK

\* ConnectBestBlock ends only when no candidate is left that should be the tip.
LEMMA BestNext ==
  ASSUME Types, Types', IndexOK, CoinsOK, TipOK, UndoOK, AttachOK, BestOK, [Next]_vars
  PROVE  BestOK'
<1> SUFFICES ASSUME Running', FilesIntact' PROVE BestOK'
  BY DEF BestOK
<1>w. ChainWork[tip] \in Nat /\ tip \in Blocks
  BY WorkType DEF Types, MemoryOK
<1>0. CASE Restart
  BY <1>0 DEF Restart, BestOK
<1> SUFFICES ASSUME ~ Restart PROVE BestOK'
  BY <1>0
<1>1. CASE ~ Running
  <2>1. UNCHANGED vars
    BY <1>1 DEF Next, CallStep, Running, AcceptBlock, NothingBetter, AttachDone, MarkFailedChild,
       ChooseAttach, DisconnectFails, ReadFails, BlockInvalid, ViewFlushed, FlushBlockFile,
       SyncTree, FlushCoins, Register, DiskLow, Shutdown, Crash, Lose, PowerLoss
  <2> QED BY <1>1, <2>1 DEF vars, Running
<1> SUFFICES ASSUME Running PROVE BestOK'
  BY <1>1
<1>2. FilesIntact
  BY IntactBefore
<1>3. /\ pc = "idle" => Untried = {}
      /\ ~ starting => \A b, c \in Untried : b = c
  BY <1>2 DEF BestOK
<1>4. ASSUME Untried' \subseteq Untried, starting' = starting, pc' = "idle" => pc = "idle"
      PROVE  BestOK'
  BY <1>3, <1>4 DEF BestOK
<1>5. ASSUME UNCHANGED <<status, tip>> PROVE Untried' = Untried
  BY <1>5 DEF Untried, Indexed, Failed
<1>6. ASSUME Untried' = {} PROVE BestOK'
  BY <1>6 DEF BestOK
<1>7. CASE NothingBetter
  <2>1. PICK b \in cand : /\ \A c \in cand : ChainWork[c] <= ChainWork[b]
                          /\ b = tip \/ ChainWork[b] = ChainWork[tip]
    BY <1>7 DEF NothingBetter
  <2>2. Untried = {}
    BY <2>1, NothingUntried
  <2> QED BY <1>5, <1>6, <1>7, <2>2 DEF NothingBetter, memVars
<1>8. CASE AttachDone
  <2>1. pc = "attach" /\ attach = {} /\ UNCHANGED <<status, tip>>
    BY <1>8 DEF AttachDone, memVars
  <2>2. \A c \in cand : ChainWork[c] <= ChainWork[tip]
    BY <2>1 DEF AttachOK, Attaching
  <2>3. Untried = {}
    BY <2>2, NothingUntried
  <2> QED BY <1>5, <1>6, <2>1, <2>3
<1>9. CASE DisconnectFails
  BY <1>2, <1>9, NotStuck DEF DisconnectFails, UndoOK
<1>10. ASSUME NEW ibd \in IBD, ReadFails(ibd) PROVE FALSE
  BY <1>10 DEF ReadFails, GoDown, Running
<1>c. ASSUME attach # {}, NEW S \in SUBSET Connect, NEW marked \in SUBSET (Connect \cap invalid),
             NEW ibd \in BOOLEAN, ConnectEffect(S, ibd, marked)
      PROVE  Indexed' = Indexed /\ Failed' = Failed \union marked
  BY <1>c, ConnectGrown DEF Types, ControlOK, MemoryOK
<1>11. ASSUME NEW ibd \in IBD, BlockInvalid(ibd) PROVE BestOK'
  <2> DEFINE bad == Lowest(Bad)
  <2>1. /\ bad \in Connect \cap invalid /\ InvalidBlockFound(bad)
        /\ \E S \in SUBSET Connect : ConnectEffect(S, ibd, {bad}) /\ ibd \in BOOLEAN
    BY <1>11, BlockInvalidConnects
  <2>2. tip' = tip /\ coinsTip' = coinsTip /\ attach # {} /\ pc = "attach"
    BY <1>11 DEF BlockInvalid, CoinsAfterFailure
  <2>3. Indexed' = Indexed /\ Failed' = Failed \union {bad}
    <3> HIDE DEF bad
    <3>1. {bad} \in SUBSET (Connect \cap invalid)
      BY <2>1
    <3> QED BY <1>c, <2>1, <2>2, <3>1
  <2>4. CASE GetNextInMainChain(bad) # None
    <3>1. pc' = "best" /\ starting' = starting
      BY <2>1, <2>4 DEF InvalidBlockFound
    <3>2. Untried' \subseteq Untried
      BY <1>w, <2>2, <2>3, UntriedLess
    <3> QED BY <1>4, <3>1, <3>2
  <2>5. CASE GetNextInMainChain(bad) = None
    <3>1. ReturnTo(FALSE, coinsTip)
      BY <2>1, <2>2, <2>5 DEF InvalidBlockFound
    <3>2. ~ starting
      BY <3>1 DEF ReturnTo, Running
    <3>3. Untried' = {}
      BY <1>3, <1>11, <2>2, <2>3, <2>5, <3>2, FailureTries
    <3> QED BY <1>6, <3>3
  <2> QED BY <2>4, <2>5
<1>12. ASSUME NEW ibd \in IBD, NEW flush \in BOOLEAN, ViewFlushed(ibd, flush) PROVE BestOK'
  <2>1. ConnectEffect(Connect, ibd, {}) /\ ibd \in BOOLEAN
    BY <1>12, ViewFlushedConnects
  <2>2. attach # {} /\ tip' = tip /\ starting' = starting /\ pc' # "idle"
    BY <1>12 DEF ViewFlushed
  <2>3. {} \in SUBSET (Connect \cap invalid) /\ Connect \in SUBSET Connect
    OBVIOUS
  <2>4. Indexed' = Indexed /\ Failed' = Failed \union {}
    BY <1>c, <2>1, <2>2, <2>3
  <2>5. Untried' \subseteq Untried
    BY <1>w, <2>2, <2>4, UntriedLess
  <2> QED BY <1>4, <2>2, <2>5
<1>13. ASSUME NEW b \in Blocks, MarkFailedChild(b) PROVE BestOK'
  <2>1. pc' = pc /\ starting' = starting /\ tip' = tip /\ b \in cand
    BY <1>13 DEF MarkFailedChild, BestCandidate
  <2>2. PICK culprit \in Scanned(b) \cap Failed :
           /\ IndexGrows(Marked(b, culprit)) /\ Grown(Marked(b, culprit), status, status', invalid)
           /\ cand' = cand \ Marked(b, culprit)
           /\ \A c \in Marked(b, culprit) : status'[c] = status[c] \union {"failedchild"}
    BY <1>13, MarkGrown
  <2>3. \A c \in Blocks \ Marked(b, culprit) : status'[c] = status[c]
    BY <2>2 DEF IndexGrows
  <2>4. \A c \in Chain[b] : status[c] # {}
    BY <2>1, ChainIndexed DEF IndexOK, CandidatesSound, Indexed
  <2>5. Indexed' \subseteq Indexed
    BY <2>3, <2>4 DEF Indexed, Marked
  <2>6. Failed \subseteq Failed'
    BY <2>2, <2>3 DEF Failed
  <2>7. Untried' \subseteq Untried
    BY <1>w, <2>1, <2>5, <2>6, UntriedLess
  <2> QED BY <1>4, <2>1, <2>7
<1>14. ASSUME NEW b \in Blocks, ChooseAttach(b) PROVE BestOK'
  BY <1>4, <1>5, <1>14 DEF ChooseAttach, memVars
<1>15. CASE FlushBlockFile \/ SyncTree \/ FlushCoins
  BY <1>4, <1>5, <1>15 DEF FlushBlockFile, SyncTree, FlushCoins, memVars
<1>16. CASE Register
  <2>1. /\ pc \in Flushing /\ tip' = Target /\ status' = status /\ starting' = starting
        /\ pc' = "attach"
    BY <1>16 DEF Register, Flushing
  <2>2. attach # {}
    BY <2>1 DEF Types, ControlOK
  <2>3. Target \in attach /\ Target \in Blocks
    BY <2>2, TargetIs DEF Types, ControlOK, MemoryOK
  <2>4. ChainWork[tip'] >= ChainWork[tip]
    <3>1. ChainWork[Target] > ChainWork[tip] /\ ChainWork[Target] \in Nat
      BY <2>3, WorkType DEF TipOK
    <3> QED BY <1>w, <2>1, <3>1
  <2>5. Indexed' = Indexed /\ Failed' = Failed
    BY <2>1 DEF Indexed, Failed
  <2>6. Untried' \subseteq Untried
    BY <2>4, <2>5, UntriedLess
  <2> QED BY <1>4, <2>1, <2>6
<1>17. CASE DiskLow \/ Shutdown \/ Crash \/ Lose
  BY <1>17 DEF DiskLow, Shutdown, Crash, Lose, PowerLoss, GoDown, Running
<1>18. CASE UNCHANGED vars
  BY <1>4, <1>5, <1>18 DEF vars, memVars
<1> QED BY <1>2, <1>7, <1>8, <1>9, <1>10, <1>11, <1>12, <1>13, <1>14, <1>15, <1>16, <1>17, <1>18,
           AcceptBest DEF Next, CallStep

----------------------------------------------------------------------------
(* The theorems.                                                           *)

\* The inductive invariant.
ChainInv ==
  /\ Types /\ IndexOK /\ CoinsOK /\ TipOK /\ UndoOK /\ FilesKept /\ CommitOK
  /\ AttachOK /\ BestOK

\* It holds at first.
LEMMA ChainInvInit == Init => ChainInv
BY TypesInit, IndexInit, CoinsInit, TipInit, UndoInit, FilesInit, CommitInit, AttachInit, BestInit
   DEF ChainInv

\* Every step keeps it.
LEMMA ChainInvNext == ChainInv /\ [Next]_vars => ChainInv'
BY TypesNext, IndexNext, CoinsNext, TipNext, UndoNext, FilesNext, CommitNext, AttachNext, BestNext
   DEF ChainInv

\* Every reachable state satisfies it.
LEMMA ChainInvariant == Spec => []ChainInv
BY ChainInvInit, ChainInvNext, PTL DEF Spec

\* Every variable keeps its type, through every call, crash, loss and restart.
THEOREM BlockChainTypeCorrect == Spec => []TypeOK
<1>1. ChainInv => TypeOK
  BY TypesSuffice DEF ChainInv
<1> QED BY <1>1, ChainInvariant, PTL

\* setBlockIndexValid is at every step of every call the set of the indexed
\* blocks that are not marked failed, for every tree of blocks.
THEOREM CandidatesAlwaysSound == Spec => []CandidatesSound
<1>1. ChainInv => CandidatesSound
  BY DEF ChainInv, IndexOK
<1> QED BY <1>1, ChainInvariant, PTL

\* No block is marked failed, in memory or in what may be read back from the
\* block tree database, unless it or a block below it is invalid.
THEOREM FailedOnlyIfInvalid == Spec => []OnlyInvalidFailed
<1>1. ChainInv => OnlyInvalidFailed
  <2> SUFFICES ASSUME ChainInv PROVE OnlyInvalidFailed
    OBVIOUS
  <2>1. StoredTree = After(treeDB, treeLog, Len(treeLog)) /\ Len(treeLog) \in 0..Len(treeLog)
    BY TreeAfterIs DEF ChainInv, Types, DatabasesOK
  <2>2. GoodIndex(StoredTree, invalid) /\ GoodIndex(status, invalid)
    BY <2>1 DEF ChainInv, IndexOK, GoodLog
  <2> QED BY <2>2 DEF OnlyInvalidFailed, GoodIndex, Failed
<1> QED BY <1>1, ChainInvariant, PTL

\* No invalid block is on the chain of the coins, in the cache or in the
\* database.
THEOREM CoinsChainValid == Spec => []ChainIsValid
<1>1. ChainInv => ChainIsValid
  <2> SUFFICES ASSUME ChainInv PROVE ChainIsValid
    OBVIOUS
  <2>1. Valid(coinsTip, invalid)
    BY DEF ChainInv, CoinsOK
  <2>2. Valid(CoinsBest, invalid)
    <3>1. coinsLog \in Seq(Blocks)
      BY DEF ChainInv, Types, DatabasesOK
    <3>2. coinsLog # <<>> => Len(coinsLog) \in 1..Len(coinsLog)
      BY <3>1
    <3> QED BY <3>2 DEF CoinsBest, ChainInv, CoinsOK
  <2> QED BY <2>1, <2>2 DEF ChainIsValid, Valid
<1> QED BY <1>1, ChainInvariant, PTL

\* Between calls, and when ConnectBestBlock looks for a better chain, the coins
\* are those of the tip.
THEOREM CoinsAlwaysFollowTip == Spec => []CoinsFollowTip
<1>1. ChainInv => CoinsFollowTip
  BY DEF ChainInv, TipOK, CoinsFollowTip
<1> QED BY <1>1, ChainInvariant, PTL

\* vBlockIndexByHeight is the chain of the tip and nothing else, whatever the
\* heights of the chains that were left and entered.
THEOREM MainChainAlwaysRegistered == Spec => []MainChainRegistered
<1>1. ChainInv => MainChainRegistered
  BY DEF ChainInv, TipOK, MainChainRegistered, MainChainOf
<1> QED BY <1>1, ChainInvariant, PTL

\* A running node moves its tip only to a chain with more work, also in the
\* middle of a reorganisation.
THEOREM TipAlwaysGainsWork == Spec => TipGainsWork
<1>1. ChainInv /\ [Next]_vars =>
        [(Running /\ Running' /\ tip' # tip) => ChainWork[tip'] > ChainWork[tip]]_vars
  <2> SUFFICES ASSUME ChainInv, [Next]_vars, Running, Running', tip' # tip
               PROVE  ChainWork[tip'] > ChainWork[tip]
    OBVIOUS
  <2>1. Register
    <3>1. CASE NothingBetter \/ AttachDone \/ DisconnectFails \/ DiskLow \/ Shutdown \/ Crash
      BY <3>1 DEF NothingBetter, AttachDone, DisconnectFails, DiskLow, Shutdown, Crash, memVars
    <3>2. CASE FlushBlockFile \/ SyncTree \/ FlushCoins \/ UNCHANGED vars
      BY <3>2 DEF FlushBlockFile, SyncTree, FlushCoins, vars, memVars
    <3>3. ~ Lose /\ ~ Restart
      BY DEF Lose, PowerLoss, memVars, Restart, Running
    <3>4. ASSUME NEW b \in Blocks, MarkFailedChild(b) \/ ChooseAttach(b) PROVE FALSE
      BY <3>4 DEF MarkFailedChild, ChooseAttach, memVars
    <3>5. ASSUME NEW ibd \in IBD, ReadFails(ibd) \/ BlockInvalid(ibd) PROVE FALSE
      BY <3>5 DEF ReadFails, BlockInvalid
    <3>6. ASSUME NEW ibd \in IBD, NEW flush \in BOOLEAN, ViewFlushed(ibd, flush) PROVE FALSE
      BY <3>6 DEF ViewFlushed
    <3>7. ASSUME NEW b \in Blocks, NEW roll \in BOOLEAN, NEW ibd \in IBD, AcceptBlock(b, roll, ibd)
          PROVE  FALSE
      BY <3>7 DEF AcceptBlock
    <3> QED BY <3>1, <3>2, <3>3, <3>4, <3>5, <3>6, <3>7 DEF Next, CallStep
  <2>2. attach # {} /\ tip' = Target
    BY <2>1 DEF Register, ChainInv, Types, ControlOK, Flushing
  <2>3. Target \in attach
    BY <2>2, TargetIs DEF ChainInv, Types, ControlOK, MemoryOK
  <2> QED BY <2>2, <2>3 DEF ChainInv, TipOK
<1> QED BY <1>1, ChainInvariant, PTL DEF Spec, TipGainsWork

\* Outside the initial download, a node that went down in any way comes back:
\* the best block of its coins is indexed, and the blocks and the undo data
\* below it are readable.
THEOREM NodeAlwaysRestarts == Spec => []NodeRestarts
<1>1. ChainInv => NodeRestarts
  <2> SUFFICES ASSUME ChainInv, pc = "down", ~ ibdSeen PROVE Recoverable
    BY DEF NodeRestarts
  <2>1. StoredTree = After(treeDB, treeLog, Len(treeLog)) /\ Len(treeLog) \in 0..Len(treeLog)
    BY TreeAfterIs DEF ChainInv, Types, DatabasesOK
  <2>2. GoodIndex(StoredTree, invalid) /\ Intact(StoredTree, blk, undo)
    BY <2>1 DEF ChainInv, IndexOK, GoodLog, FilesKept, LogIntact
  <2>3. CoinsBest \in Blocks
    BY CoinsBestIs DEF ChainInv, Types, DatabasesOK
  <2>4. UndoOn(CoinsBest, StoredTree)
    BY DEF ChainInv, UndoOK, Running
  <2>5. StoredTree[CoinsBest] # {}
    BY <2>2, <2>3, <2>4, ChainSelf DEF UndoOn, GoodIndex
  <2>6. ASSUME NEW b \in Chain[CoinsBest] \ {Genesis}
        PROVE  "undo" \in StoredTree[b] /\ b \in blk /\ b \in undo
    <3>1. b \in Blocks /\ "undo" \in StoredTree[b]
      BY <2>3, <2>4, ChainSelf DEF UndoOn
    <3> QED BY <2>2, <3>1 DEF Intact
  <2> QED BY <2>5, <2>6 DEF Recoverable
<1> QED BY <1>1, ChainInvariant, PTL

\* A running node can leave the chain of its tip again: the blocks and their
\* undo data are on disk, while the files hold what the index counts on.
THEOREM TipCanAlwaysBeLeft == Spec => []TipCanBeLeft
<1>1. ChainInv => TipCanBeLeft
  <2> SUFFICES ASSUME ChainInv, Running, ibdSeen => FilesIntact,
                      NEW b \in Chain[coinsTip] \ {Genesis}
               PROVE  b \in undo /\ b \in blk
    BY DEF TipCanBeLeft
  <2>1. FilesIntact
    BY MemoryIntact DEF ChainInv, FilesKept
  <2>2. b \in Blocks /\ "undo" \in status[b]
    BY ChainSelf DEF ChainInv, Types, MemoryOK, UndoOK, UndoOn
  <2> QED BY <2>1, <2>2 DEF FilesIntact, Indexed
<1> QED BY <1>1, ChainInvariant, PTL

\* Until the first loss, and in the initial download while there is one block
\* file, everything below a best block that the coins database may come back
\* with was committed before that best block was written.
THEOREM CoinsAlwaysWrittenLast == Spec => []CoinsWrittenLast
<1>1. ChainInv => CoinsWrittenLast
  <2> SUFFICES ASSUME ChainInv, crashes = 0, ibdSeen => lastFile = 0,
                      NEW best \in {coinsDB} \union Range(coinsLog),
                      NEW b \in Chain[best] \ {Genesis}
               PROVE  "undo" \in treeDB[b] /\ b \in blkSynced /\ b \in undoSynced
    BY DEF CoinsWrittenLast
  <2>1. b \in blkSynced /\ b \in undoSynced
    BY DEF ChainInv, CommitOK, Committed
  <2>2. Running
    BY DEF ChainInv, CommitOK, FirstRun
  <2> QED BY <2>1, <2>2 DEF ChainInv, UndoOK, UndoOn
<1> QED BY <1>1, ChainInvariant, PTL

\* Between calls no indexed block has more work than the tip unless a block of
\* its chain is known to have failed, for every tree of blocks and every work:
\* also when a call ends in an invalid block, or the block that failed is too
\* low for "check ancestry" to meet it.
THEOREM TipAlwaysBest == Spec => []TipIsBest
<1>1. ChainInv => TipIsBest
  <2> SUFFICES ASSUME ChainInv, pc = "idle", FilesIntact, NEW b \in Indexed,
                      ChainWork[b] > ChainWork[tip], Chain[b] \cap Failed = {}
               PROVE  FALSE
    BY DEF TipIsBest
  <2>1. Untried = {}
    BY DEF ChainInv, BestOK, Running
  <2> QED BY <2>1 DEF Untried
<1> QED BY <1>1, ChainInvariant, PTL

----------------------------------------------------------------------------
(* The refinement of module BestChain.                                     *)

\* What has been saved, when the log grows and when it is gone, and its last.
LEMMA SavedIs ==
  ASSUME NEW db \in Blocks, NEW log \in Seq(Blocks), NEW c \in Blocks
  PROVE  LET saved == <<db>> \o log
         IN  /\ saved \in Seq(Blocks) /\ Len(saved) = Len(log) + 1
             /\ <<db>> \o Append(log, c) = Append(saved, c)
             /\ <<c>> \o <<>> = <<c>>
             /\ saved[Len(saved)] = IF log = <<>> THEN db ELSE log[Len(log)]
             /\ \A x \in {db} \union Range(log) : \E i \in 1..Len(saved) : x = saved[i]
<1> DEFINE saved == <<db>> \o log
<1>1. saved \in Seq(Blocks) /\ Len(saved) = Len(log) + 1 /\ Len(log) \in Nat
  OBVIOUS
<1>2. saved[1] = db /\ \A i \in 1..Len(log) : saved[i + 1] = log[i]
  OBVIOUS
<1>3. <<db>> \o Append(log, c) = Append(saved, c)
  OBVIOUS
<1>4. <<c>> \o <<>> = <<c>>
  OBVIOUS
<1>5. saved[Len(saved)] = IF log = <<>> THEN db ELSE log[Len(log)]
  <2>1. CASE log = <<>>
    <3>1. Len(log) = 0
      BY <2>1
    <3> QED BY <1>1, <1>2, <2>1, <3>1
  <2>2. CASE log # <<>>
    <3>1. Len(log) \in 1..Len(log)
      BY <2>2
    <3> QED BY <1>1, <1>2, <2>2, <3>1
  <2> QED BY <2>1, <2>2
<1>6. ASSUME NEW x \in {db} \union Range(log) PROVE \E i \in 1..Len(saved) : x = saved[i]
  <2>1. CASE x = db
    <3>1. 1 \in 1..Len(saved)
      BY <1>1
    <3> QED BY <1>2, <2>1, <3>1
  <2>2. CASE x \in Range(log)
    <3>1. DOMAIN log = 1..Len(log)
      OBVIOUS
    <3>2. PICK i \in 1..Len(log) : x = log[i]
      BY <2>2, <3>1 DEF Range
    <3>3. i + 1 \in 1..Len(saved) /\ saved[i + 1] = x
      BY <1>1, <1>2, <3>2
    <3> QED BY <3>3
  <2> QED BY <2>1, <2>2
<1> QED BY <1>1, <1>3, <1>4, <1>5, <1>6

\* A node that is down does nothing but start.
LEMMA OnlyRestartStarts ==
  ASSUME [Next]_vars, pc = "down"
  PROVE  Restart \/ UNCHANGED vars
<1>1. ~ NothingBetter /\ ~ AttachDone /\ ~ DisconnectFails /\ ~ DiskLow /\ ~ Shutdown /\ ~ Crash
  BY DEF NothingBetter, AttachDone, DisconnectFails, DiskLow, Shutdown, Crash
<1>2. ~ FlushBlockFile /\ ~ SyncTree /\ ~ FlushCoins /\ ~ Register /\ ~ Lose
  BY DEF FlushBlockFile, SyncTree, FlushCoins, Register, Lose, PowerLoss
<1>3. \A b \in Blocks : ~ MarkFailedChild(b) /\ ~ ChooseAttach(b)
  BY DEF MarkFailedChild, ChooseAttach
<1>4. \A ibd \in IBD : ~ ReadFails(ibd) /\ ~ BlockInvalid(ibd)
  BY DEF ReadFails, BlockInvalid
<1>5. \A ibd \in IBD, flush \in BOOLEAN : ~ ViewFlushed(ibd, flush)
  BY DEF ViewFlushed
<1>6. \A b \in Blocks, roll \in BOOLEAN, ibd \in IBD : ~ AcceptBlock(b, roll, ibd)
  BY DEF AcceptBlock
<1> QED BY <1>1, <1>2, <1>3, <1>4, <1>5, <1>6 DEF Next, CallStep

\* Every step of chain selection is a step of BestChain, or invisible there.
LEMMA BestStep == ChainInv /\ [Next]_vars => [Best!Next]_(Best!bestVars)
<1> SUFFICES ASSUME ChainInv, [Next]_vars PROVE [Best!Next]_(Best!bestVars)
  OBVIOUS
<1>t. coinsTip \in Blocks /\ coinsLog \in Seq(Blocks) /\ coinsDB \in Blocks /\ pc \in Pcs
  BY DEF ChainInv, Types, MemoryOK, DatabasesOK, ControlOK
<1>i. invalid' = invalid
  BY CoinsSteps DEF ChainInv
<1>b. Best!Newest = CoinsBest
  BY <1>t, SavedIs DEF Best!Newest, CoinsBest
<1>1. CASE UNCHANGED <<coinsTip, coinsDB, coinsLog>> /\ Running' = Running
  BY <1>1, <1>i DEF Best!bestVars
<1>2. CASE UNCHANGED <<coinsTip, coinsDB, coinsLog>> /\ Running /\ ~ Running'
  BY <1>2, <1>i DEF Best!Kill, Best!Next
<1>3. CASE Exits
  <2>1. Running /\ ~ Running' /\ UNCHANGED <<coinsTip, coinsDB>>
    BY <1>3 DEF Exits, Running
  <2>2. CASE coinsLog' = coinsLog /\ coinsLog = <<>> /\ coinsDB = coinsTip
    BY <1>i, <1>b, <2>1, <2>2 DEF CoinsBest, Best!Exit, Best!Next
  <2>3. CASE coinsLog' = Append(coinsLog, coinsTip)
    <3>1. (<<coinsDB>> \o coinsLog)' = Append(<<coinsDB>> \o coinsLog, coinsTip)
      BY <1>t, <2>1, <2>3, SavedIs
    <3> QED BY <1>i, <2>1, <3>1 DEF Best!Exit, Best!Next
  <2> QED BY <1>3, <1>t, <2>2, <2>3, CoinsAtExitIs DEF Exits
<1>4. CASE FlushCoins
  <2>1. Running /\ Running' /\ UNCHANGED <<coinsTip, coinsDB>>
        /\ coinsLog' = Append(coinsLog, coinsTip)
    BY <1>4 DEF FlushCoins, Running, memVars
  <2>2. (<<coinsDB>> \o coinsLog)' = Append(<<coinsDB>> \o coinsLog, coinsTip)
    BY <1>t, <2>1, SavedIs
  <2> QED BY <1>i, <2>1, <2>2 DEF Running, Best!Save, Best!Next
<1>5. ASSUME NEW ibd \in IBD, NEW flush \in BOOLEAN, ViewFlushed(ibd, flush)
      PROVE  Best!Next
  <2>1. /\ pc = "attach" /\ pc' \in {"flush", "register"} /\ coinsTip' = Target
        /\ UNCHANGED <<coinsDB, coinsLog>> /\ attach # {} /\ Bad = {}
    BY <1>5 DEF ViewFlushed
  <2>2. Target \in attach /\ Target \in Blocks
    BY <2>1, TargetIs DEF ChainInv, Types, ControlOK, MemoryOK
  <2>3. ChainWork[Target] > ChainWork[coinsTip]
    BY <2>1, <2>2 DEF ChainInv, TipOK
  <2>4. Chain[Target] \cap invalid = {}
    BY <1>t, <2>1, TargetValid DEF ChainInv, CoinsOK, Types, ControlOK, Valid
  <2>5. Running /\ Running' /\ UNCHANGED Running
    BY <2>1 DEF Running
  <2>6. Best!Follow(Target)
    BY <1>i, <2>1, <2>3, <2>4, <2>5 DEF Best!Follow
  <2> QED BY <2>2, <2>6 DEF Best!Next
<1>6. CASE Lose
  <2>1. /\ Running /\ ~ Running' /\ UNCHANGED coinsTip /\ coinsLog' = <<>>
        /\ coinsDB' \in {coinsDB} \union Range(coinsLog)
    BY <1>6 DEF Lose, PowerLoss, GoDown, Running, memVars
  <2>2. PICK i \in 1..Len(<<coinsDB>> \o coinsLog) : coinsDB' = (<<coinsDB>> \o coinsLog)[i]
    BY <1>t, <2>1, SavedIs
  <2>3. (<<coinsDB>> \o coinsLog)' = <<(<<coinsDB>> \o coinsLog)[i]>>
    BY <2>1, <2>2
  <2>4. Best!LosePower(i)
    BY <1>i, <2>1, <2>3 DEF Best!LosePower
  <2> QED BY <2>2, <2>4 DEF Best!Next
<1>7. CASE Restart
  <2>1. /\ ~ Running /\ Running' /\ coinsTip' = CoinsBest /\ coinsLog' = <<>>
        /\ coinsDB' = CoinsBest
    BY <1>7 DEF Restart, Running
  <2>2. (<<coinsDB>> \o coinsLog)' = <<CoinsBest>>
    BY <2>1
  <2> QED BY <1>i, <1>b, <2>1, <2>2 DEF Best!Start, Best!Next
<1>8. ASSUME ~ Running, Running' PROVE Restart
  <2>1. pc = "down" /\ pc' # pc
    BY <1>8 DEF Running
  <2>2. ~ UNCHANGED vars
    BY <2>1 DEF vars
  <2> QED BY <2>1, <2>2, OnlyRestartStarts
<1>9. Running \in BOOLEAN /\ Running' \in BOOLEAN
  BY DEF Running
<1>10. CASE UNCHANGED <<coinsTip, coinsDB, coinsLog>>
  BY <1>1, <1>2, <1>7, <1>8, <1>9, <1>10
<1> QED BY <1>3, <1>4, <1>5, <1>6, <1>7, <1>10, CoinsSteps DEF ChainInv

\* Chain selection, with its index, its files and databases, its crashes and
\* losses, implements module BestChain for every tree of blocks: the coins move
\* in one step, only to valid chains of more work, and a node comes back with
\* a chain that it had followed and saved, the last one unless power was lost.
THEOREM ImplementsBestChain == Spec => FollowsBestChain
<1>1. Init => Best!Init
  BY DEF Init, Best!Init, Running
<1> QED BY <1>1, BestStep, ChainInvariant, PTL DEF Spec, FollowsBestChain, Best!Spec
=============================================================================
