--------------------------- MODULE KeyPoolProofs ---------------------------
(***************************************************************************)
(* Theorems about KeyPool, for any number of reservations, any pool size   *)
(* and any bounds: types, and that a key leaves the pool for good once.    *)
(*                                                                         *)
(* KeyUsedOnce and KeysAccounted are not inductive.  That a key is on one  *)
(* record only (Placed) makes them so, with the fact that a key which was  *)
(* used, is on a record or is held was generated before (k <= nKeys): a    *)
(* refill then writes keys that are nowhere else.  Operations are made of  *)
(* a few changes of the pool (fill, take, use, return, load, erase), and   *)
(* there is one lemma for each of these.                                   *)
(***************************************************************************)
EXTENDS KeyPool, FiniteSetTheorems, TLAPS

----------------------------------------------------------------------------
(* The least and the greatest element of a finite set.                     *)

\* A function on a finite set has a least value.
LEMMA LeastOfFinite ==
  ASSUME NEW S, IsFiniteSet(S), S # {}, NEW f \in [S -> Int]
  PROVE  \E m \in S : \A k \in S : f[m] <= f[k]
<1> DEFINE below(x) == {y \in S : f[y] <= f[x]}
           T == {below(x) : x \in S}
           R == StrictSubsetOrdering(S)
<1>1. T \subseteq FiniteSubsetsOf(S)
  BY FS_Subset DEF FiniteSubsetsOf
<1>2. T # {}
  <2>1. PICK x \in S : TRUE
    OBVIOUS
  <2>2. below(x) \in T
    BY <2>1
  <2> HIDE DEF T
  <2> QED BY <2>2
<1>3. IsWellFoundedOn(R, FiniteSubsetsOf(S))
  BY FS_StrictSubsetOrderingWellFounded
<1>4. PICK B \in T : \A C \in T : ~ (<<C, B>> \in R)
  <2> HIDE DEF T, R
  <2> QED BY <1>1, <1>2, <1>3, WFMin
<1>5. PICK m \in S : B = below(m)
  OBVIOUS
<1>6. ASSUME NEW k \in S, f[k] < f[m] PROVE FALSE
  <2>1. below(k) \subseteq below(m) /\ m \notin below(k) /\ m \in below(m)
    BY <1>6
  <2>2. <<below(k), below(m)>> \in R
    BY <2>1 DEF StrictSubsetOrdering
  <2> QED BY <1>4, <1>5, <2>2
<1> QED BY <1>6

\* A pool is a finite set of indices.
LEMMA FinitePool ==
  ASSUME NEW pool \in SUBSET Indices
  PROVE  IsFiniteSet(pool)
<1>1. MaxKeys \in Int /\ 1 \in Int
  BY KeyPoolAssumption DEF KeyPoolAssumption
<1>2. IsFiniteSet(Indices)
  BY <1>1, FS_Interval DEF Indices
<1> QED BY <1>2, FS_Subset

\* The oldest index of a pool that is not empty is one of its indices.
LEMMA MinInPool ==
  ASSUME NEW pool \in SUBSET Indices, pool # {}
  PROVE  Min(pool) \in pool
<1>1. IsFiniteSet(pool)
  BY FinitePool
<1>2. [i \in pool |-> i] \in [pool -> Int]
  BY DEF Indices
<1>3. \E m \in pool : \A k \in pool : m <= k
  <2>1. \E m \in pool : \A k \in pool : [i \in pool |-> i][m] <= [i \in pool |-> i][k]
    BY <1>1, <1>2, LeastOfFinite
  <2> QED BY <2>1
<1> QED BY <1>3 DEF Min

\* The last index is zero or an index of the pool, and no index is above it.
LEMMA LastIndexType ==
  ASSUME NEW pool \in SUBSET Indices
  PROVE  LastIndex(pool) \in 0..MaxKeys /\ \A i \in pool : i <= LastIndex(pool)
<1>1. CASE pool = {}
  BY <1>1, KeyPoolAssumption DEF LastIndex, KeyPoolAssumption
<1>2. CASE pool # {}
  <2>1. IsFiniteSet(pool)
    BY FinitePool
  <2>2. [i \in pool |-> 0 - i] \in [pool -> Int]
    BY DEF Indices
  <2>3. \E m \in pool : \A k \in pool :
           [i \in pool |-> 0 - i][m] <= [i \in pool |-> 0 - i][k]
    BY <1>2, <2>1, <2>2, LeastOfFinite
  <2>4. \E m \in pool : \A k \in pool : m >= k
    BY <2>3 DEF Indices
  <2>5. Max(pool) \in pool /\ \A k \in pool : Max(pool) >= k
    BY <2>4 DEF Max
  <2>6. Max(pool) \in 0..MaxKeys
    <3>1. Max(pool) \in Indices
      BY <2>5
    <3> QED BY <3>1, KeyPoolAssumption DEF Indices, KeyPoolAssumption
  <2>7. \A i \in pool : i <= Max(pool)
    BY <2>5, <2>6 DEF Indices
  <2> QED BY <1>2, <2>6, <2>7 DEF LastIndex
<1> QED BY <1>1, <1>2

\* A refill writes a number of keys.
LEMMA MissingType ==
  ASSUME NEW pool \in SUBSET Indices
  PROVE  Missing(pool) \in Nat
<1>1. Cardinality(pool) \in Nat
  BY FinitePool, FS_CardinalityType
<1> QED BY <1>1, KeyPoolAssumption DEF Missing, KeyPoolAssumption

----------------------------------------------------------------------------
(* The invariant, of a pool, its records, the fields of the reservations,  *)
(* the number of keys and their uses.                                      *)

Shape(pool, rec, idx, pub, n, us) ==
  /\ pool \in SUBSET Indices
  /\ rec \in [Indices -> Keys \union {NoKey}]
  /\ idx \in [Holders -> Indices \union {NoIndex}]
  /\ pub \in [Holders -> Keys \union {NoKey}]
  /\ n \in 0..MaxKeys
  /\ us \in [Keys -> Nat]

\* A key is on one record, and a holder's key is on the record of its index.
OnRecords(pool, rec, idx, pub) ==
  /\ \A i, j \in Indices : rec[i] = rec[j] /\ rec[i] # NoKey => i = j
  /\ \A h \in Holders : idx[h] # NoIndex =>
       pub[h] = rec[idx[h]] /\ pub[h] # NoKey /\ idx[h] \notin pool
  /\ \A h \in Holders : idx[h] = NoIndex => pub[h] = NoKey
  /\ \A g, h \in Holders : idx[g] = idx[h] /\ idx[g] # NoIndex => g = h
  /\ \A i \in pool : rec[i] # NoKey

\* A key is used once, is on no record then, and was generated.
UsedUp(rec, n, us) ==
  /\ \A i \in Indices : rec[i] <= n
  /\ \A k \in Keys : us[k] <= 1
  /\ \A k \in Keys : us[k] > 0 => k <= n /\ \A i \in Indices : rec[i] # k

Placed(pool, rec, idx, pub, n, us) == OnRecords(pool, rec, idx, pub) /\ UsedUp(rec, n, us)

IInv ==
  /\ Shape(setKeyPool, record, nIndex, vchPubKey, nKeys, uses)
  /\ crypted \in BOOLEAN /\ locked \in BOOLEAN /\ rewritten \in BOOLEAN
  /\ crashes \in 0..MaxCrashes
  /\ ~ rewritten => Placed(setKeyPool, record, nIndex, vchPubKey, nKeys, uses)

\* The invariant is what it is meant to be.
LEMMA IInvImplies == IInv => TypeOK /\ KeyUsedOnce /\ KeysAccounted
<1> SUFFICES ASSUME IInv PROVE TypeOK /\ KeyUsedOnce /\ KeysAccounted
  OBVIOUS
<1>1. TypeOK
  BY DEF IInv, Shape, TypeOK
<1>2. KeyUsedOnce
  BY DEF IInv, Placed, UsedUp, KeyUsedOnce
<1>3. ASSUME ~ rewritten PROVE KeysAccounted
  <2>1. \A k \in Keys, i \in Indices : uses[k] > 0 => record[i] # k
    BY <1>3 DEF IInv, Placed, UsedUp
  <2>2. ASSUME NEW h1 \in Holders, NEW h2 \in Holders, h1 # h2, nIndex[h1] # NoIndex
        PROVE  nIndex[h1] # nIndex[h2] /\ vchPubKey[h1] # vchPubKey[h2]
    BY <1>3, <2>2 DEF IInv, Placed, OnRecords, Shape
  <2>3. Reserved \cap setKeyPool = {}
    BY <1>3 DEF IInv, Placed, OnRecords, Reserved, Shape, Indices, NoIndex
  <2>4. \A i \in setKeyPool : record[i] # NoKey
    BY <1>3 DEF IInv, Placed, OnRecords
  <2> QED BY <2>1, <2>2, <2>3, <2>4 DEF KeysAccounted
<1> QED BY <1>1, <1>2, <1>3 DEF KeysAccounted

\* A new wallet has no keys.
LEMMA InitIInv == Init => IInv
<1> SUFFICES ASSUME Init PROVE IInv
  OBVIOUS
<1>1. 0 \in 0..MaxKeys /\ 0 \in 0..MaxCrashes
  BY KeyPoolAssumption DEF KeyPoolAssumption
<1>2. Shape(setKeyPool, record, nIndex, vchPubKey, nKeys, uses)
  BY <1>1 DEF Init, Shape
<1>3. OnRecords(setKeyPool, record, nIndex, vchPubKey)
  BY DEF Init, OnRecords
<1>4. UsedUp(record, nKeys, uses)
  BY DEF Init, UsedUp, NoKey
<1> QED BY <1>1, <1>2, <1>3, <1>4 DEF Init, IInv, Placed

----------------------------------------------------------------------------
(* The changes that operations are made of.                                *)

\* n new keys are written above last: none of them is anywhere else.
LEMMA FillPlaced ==
  ASSUME NEW pool, NEW rec, NEW idx, NEW pub, NEW us,
         NEW last \in Nat, NEW n \in Nat,
         Shape(pool, rec, idx, pub, nKeys, us), WithinBounds(last, n)
  PROVE  LET new == last + 1 .. last + n
         IN  /\ Shape(pool \union new, Fill(rec, last, n), idx, pub, nKeys + n, us)
             /\ Placed(pool, rec, idx, pub, nKeys, us)
                  /\ (\A h \in Holders : idx[h] \notin new)
                => Placed(pool \union new, Fill(rec, last, n), idx, pub, nKeys + n, us)
<1> DEFINE new == last + 1 .. last + n
           rec2 == Fill(rec, last, n)
<1>1. /\ new \subseteq Indices /\ nKeys \in Nat /\ nKeys + n \in 0..MaxKeys
      /\ \A i \in new : nKeys + (i - last) \in Keys
  BY KeyPoolAssumption DEF Shape, WithinBounds, Indices, Keys, KeyPoolAssumption
<1>2. /\ rec2 \in [Indices -> Keys \union {NoKey}]
      /\ \A i \in new : rec2[i] = nKeys + (i - last)
      /\ \A i \in Indices : i \notin new => rec2[i] = rec[i]
  BY <1>1 DEF Fill, Shape
<1>3. \A i \in new : rec2[i] > nKeys /\ rec2[i] <= nKeys + n /\ rec2[i] # NoKey
  BY <1>1, <1>2 DEF NoKey
<1>4. \A i, j \in new : rec2[i] = rec2[j] => i = j
  BY <1>1, <1>2
<1> HIDE DEF new, rec2
<1>5. Shape(pool \union new, rec2, idx, pub, nKeys + n, us)
  BY <1>1, <1>2 DEF Shape
<1>6. ASSUME Placed(pool, rec, idx, pub, nKeys, us), \A h \in Holders : idx[h] \notin new
      PROVE  Placed(pool \union new, rec2, idx, pub, nKeys + n, us)
  <2>1. \A i \in Indices : rec[i] \in Nat /\ rec[i] <= nKeys
    BY <1>6 DEF Placed, UsedUp, Shape, Keys, NoKey
  <2>2. \A i, j \in Indices : rec2[i] = rec2[j] /\ rec2[i] # NoKey => i = j
    BY <1>1, <1>2, <1>3, <1>4, <1>6, <2>1 DEF Placed, OnRecords, Keys, Shape
  <2>3. OnRecords(pool \union new, rec2, idx, pub)
    BY <1>1, <1>2, <1>3, <1>6, <2>2 DEF Placed, OnRecords, Shape
  <2>4. \A i \in Indices : rec2[i] <= nKeys + n
    BY <1>1, <1>2, <1>3, <2>1
  <2>5. \A k \in Keys : us[k] > 0 => k <= nKeys + n /\ \A i \in Indices : rec2[i] # k
    BY <1>1, <1>2, <1>3, <1>6 DEF Placed, UsedUp, Keys
  <2> QED BY <1>6, <2>3, <2>4, <2>5 DEF Placed, UsedUp
<1> QED BY <1>5, <1>6 DEF new, rec2

\* An index goes from the pool to a holder, with the key of its record.
LEMMA TakePlaced ==
  ASSUME NEW pool, NEW rec, NEW idx, NEW pub, NEW n, NEW us,
         NEW i \in pool, NEW h \in Holders, idx[h] = NoIndex,
         Shape(pool, rec, idx, pub, n, us)
  PROVE  LET idx2 == [idx EXCEPT ![h] = i]
             pub2 == [pub EXCEPT ![h] = rec[i]]
         IN  /\ Shape(pool \ {i}, rec, idx2, pub2, n, us)
             /\ Placed(pool, rec, idx, pub, n, us)
                  => Placed(pool \ {i}, rec, idx2, pub2, n, us)
<1> DEFINE idx2 == [idx EXCEPT ![h] = i]
           pub2 == [pub EXCEPT ![h] = rec[i]]
<1>1. i \in Indices /\ i # NoIndex
  BY DEF Shape, Indices, NoIndex
<1>2. Shape(pool \ {i}, rec, idx2, pub2, n, us)
  BY <1>1 DEF Shape
<1>3. ASSUME Placed(pool, rec, idx, pub, n, us)
      PROVE  OnRecords(pool \ {i}, rec, idx2, pub2)
  <2>1. \A g \in Holders : idx2[g] = (IF g = h THEN i ELSE idx[g])
                          /\ pub2[g] = (IF g = h THEN rec[i] ELSE pub[g])
    BY DEF Shape
  <2>2. \A g \in Holders : idx[g] # i
    BY <1>1, <1>3 DEF Placed, OnRecords
  <2> HIDE DEF idx2, pub2
  <2> QED BY <1>1, <1>3, <2>1, <2>2 DEF Placed, OnRecords
<1> QED BY <1>2, <1>3 DEF Placed

\* The record of an index of the pool is erased and its key used.
LEMMA UsePlaced ==
  ASSUME NEW pool, NEW rec, NEW idx, NEW pub, NEW n, NEW us, NEW i \in pool,
         Shape(pool, rec, idx, pub, n, us)
  PROVE  LET us2 == IF rec[i] = NoKey THEN us ELSE [us EXCEPT ![rec[i]] = @ + 1]
         IN  /\ Shape(pool \ {i}, Erased(rec, i), idx, pub, n, us2)
             /\ Placed(pool, rec, idx, pub, n, us)
                  => Placed(pool \ {i}, Erased(rec, i), idx, pub, n, us2)
<1> DEFINE us2 == IF rec[i] = NoKey THEN us ELSE [us EXCEPT ![rec[i]] = @ + 1]
           rec2 == Erased(rec, i)
<1>1. i \in Indices
  BY DEF Shape
<1>2. us2 \in [Keys -> Nat]
  BY <1>1 DEF Shape, Keys, NoKey
<1>3. /\ rec2 \in [Indices -> Keys \union {NoKey}]
      /\ \A j \in Indices : rec2[j] = IF j = i THEN NoKey ELSE rec[j]
  BY DEF Shape, Erased
<1> HIDE DEF us2, rec2
<1>4. Shape(pool \ {i}, rec2, idx, pub, n, us2)
  BY <1>2, <1>3 DEF Shape
<1>5. ASSUME Placed(pool, rec, idx, pub, n, us)
      PROVE  Placed(pool \ {i}, rec2, idx, pub, n, us2)
  <2>1. rec[i] # NoKey /\ rec[i] \in Keys /\ us[rec[i]] = 0 /\ rec[i] <= n
    BY <1>1, <1>5 DEF Placed, OnRecords, UsedUp, Shape
  <2>2. \A k \in Keys : us2[k] = IF k = rec[i] THEN 1 ELSE us[k]
    BY <2>1 DEF us2, Shape
  <2>3. OnRecords(pool \ {i}, rec2, idx, pub)
    BY <1>1, <1>3, <1>5 DEF Placed, OnRecords, Shape
  <2>4. n \in Nat
    BY DEF Shape
  <2>5. UsedUp(rec2, n, us2)
    <3>1. \A j \in Indices : rec2[j] <= n
      BY <1>1, <1>3, <1>5, <2>1, <2>2, <2>4 DEF Placed, UsedUp, NoKey
    <3>2. \A k \in Keys : us2[k] <= 1
      BY <1>1, <1>3, <1>5, <2>1, <2>2, <2>4 DEF Placed, UsedUp
    <3>3. ASSUME NEW k \in Keys, us2[k] > 0
          PROVE  k <= n /\ \A j \in Indices : rec2[j] # k
      <4>1. k # NoKey
        BY DEF Keys, NoKey
      <4>2. CASE k = rec[i]
        BY <1>1, <1>3, <1>5, <2>1, <2>2, <2>4, <4>1, <4>2 DEF Placed, OnRecords
      <4>3. CASE k # rec[i]
        BY <1>1, <1>3, <1>5, <2>1, <2>2, <2>4, <3>3, <4>1, <4>3 DEF Placed, UsedUp
      <4> QED BY <4>2, <4>3
    <3> QED BY <3>1, <3>2, <3>3 DEF UsedUp
  <2> QED BY <2>3, <2>5 DEF Placed
<1> QED BY <1>4, <1>5 DEF us2, rec2

\* A holder keeps its key: the record is erased and the key used.
LEMMA KeepPlaced ==
  ASSUME NEW pool, NEW rec, NEW idx, NEW pub, NEW n, NEW us, NEW h \in Holders,
         idx[h] # NoIndex, pub[h] # NoKey, Shape(pool, rec, idx, pub, n, us)
  PROVE  LET idx2 == [idx EXCEPT ![h] = NoIndex]
             pub2 == [pub EXCEPT ![h] = NoKey]
             rec2 == Erased(rec, idx[h])
             us2 == [us EXCEPT ![pub[h]] = @ + 1]
         IN  /\ Shape(pool, rec2, idx2, pub2, n, us2)
             /\ Placed(pool, rec, idx, pub, n, us)
                  => Placed(pool, rec2, idx2, pub2, n, us2)
<1> DEFINE idx2 == [idx EXCEPT ![h] = NoIndex]
           pub2 == [pub EXCEPT ![h] = NoKey]
           rec2 == Erased(rec, idx[h])
           us2 == [us EXCEPT ![pub[h]] = @ + 1]
<1>1. idx[h] \in Indices /\ pub[h] \in Keys
  BY DEF Shape
<1>2. us2 \in [Keys -> Nat] /\ rec2 \in [Indices -> Keys \union {NoKey}]
  BY <1>1 DEF Shape, Erased
<1>3. \A j \in Indices : rec2[j] = IF j = idx[h] THEN NoKey ELSE rec[j]
  BY DEF Shape, Erased
<1>4. \A g \in Holders : idx2[g] = (IF g = h THEN NoIndex ELSE idx[g])
                        /\ pub2[g] = (IF g = h THEN NoKey ELSE pub[g])
  BY DEF Shape
<1>5. Shape(pool, rec2, idx2, pub2, n, us2)
  BY <1>2 DEF Shape
<1>6. ASSUME Placed(pool, rec, idx, pub, n, us)
      PROVE  Placed(pool, rec2, idx2, pub2, n, us2)
  <2>1. pub[h] = rec[idx[h]] /\ us[pub[h]] = 0 /\ pub[h] <= n /\ n \in Nat
    BY <1>1, <1>6 DEF Placed, OnRecords, UsedUp, Shape
  <2>2. \A k \in Keys : us2[k] = IF k = pub[h] THEN 1 ELSE us[k]
    BY <1>1, <2>1 DEF Shape
  <2> HIDE DEF idx2, pub2, rec2, us2
  <2>3. OnRecords(pool, rec2, idx2, pub2)
    BY <1>1, <1>3, <1>4, <1>6 DEF Placed, OnRecords, Shape
  <2>4. UsedUp(rec2, n, us2)
    <3>1. \A j \in Indices : rec2[j] <= n
      BY <1>1, <1>3, <1>6, <2>1, <2>2 DEF Placed, UsedUp, NoKey
    <3>2. \A k \in Keys : us2[k] <= 1
      BY <1>1, <1>3, <1>6, <2>1, <2>2 DEF Placed, UsedUp
    <3>3. ASSUME NEW k \in Keys, us2[k] > 0
          PROVE  k <= n /\ \A j \in Indices : rec2[j] # k
      <4>1. k # NoKey
        BY DEF Keys, NoKey
      <4>2. CASE k = pub[h]
        BY <1>1, <1>3, <1>6, <2>1, <2>2, <4>1, <4>2 DEF Placed, OnRecords
      <4>3. CASE k # pub[h]
        BY <1>1, <1>3, <1>6, <2>1, <2>2, <3>3, <4>1, <4>3 DEF Placed, UsedUp
      <4> QED BY <4>2, <4>3
    <3> QED BY <3>1, <3>2, <3>3 DEF UsedUp
  <2> QED BY <2>3, <2>4 DEF Placed
<1> QED BY <1>5, <1>6

\* A holder gives its index back.
LEMMA ReturnPlaced ==
  ASSUME NEW pool, NEW rec, NEW idx, NEW pub, NEW n, NEW us, NEW h \in Holders,
         idx[h] # NoIndex, Shape(pool, rec, idx, pub, n, us)
  PROVE  LET idx2 == [idx EXCEPT ![h] = NoIndex]
             pub2 == [pub EXCEPT ![h] = NoKey]
             pool2 == pool \union {idx[h]}
         IN  /\ Shape(pool2, rec, idx2, pub2, n, us)
             /\ Placed(pool, rec, idx, pub, n, us)
                  => Placed(pool2, rec, idx2, pub2, n, us)
<1> DEFINE idx2 == [idx EXCEPT ![h] = NoIndex]
           pub2 == [pub EXCEPT ![h] = NoKey]
           pool2 == pool \union {idx[h]}
<1>1. idx[h] \in Indices
  BY DEF Shape
<1>2. \A g \in Holders : idx2[g] = (IF g = h THEN NoIndex ELSE idx[g])
                        /\ pub2[g] = (IF g = h THEN NoKey ELSE pub[g])
  BY DEF Shape
<1>3. Shape(pool2, rec, idx2, pub2, n, us)
  BY <1>1 DEF Shape
<1>4. ASSUME Placed(pool, rec, idx, pub, n, us)
      PROVE  OnRecords(pool2, rec, idx2, pub2)
  <2> HIDE DEF idx2, pub2
  <2> QED BY <1>1, <1>2, <1>4 DEF Placed, OnRecords
<1> QED BY <1>3, <1>4 DEF Placed

\* NewKeyPool erases records of the pool: what is left of the pool is good.
LEMMA ErasePlaced ==
  ASSUME NEW pool, NEW rec, NEW idx, NEW pub, NEW n, NEW us,
         NEW gone \in SUBSET pool, Shape(pool, rec, idx, pub, n, us)
  PROVE  LET rec2 == [i \in Indices |-> IF i \in gone THEN NoKey ELSE rec[i]]
         IN  /\ Shape(pool \ gone, rec2, idx, pub, n, us)
             /\ Placed(pool, rec, idx, pub, n, us)
                  => Placed(pool \ gone, rec2, idx, pub, n, us)
<1> DEFINE rec2 == [i \in Indices |-> IF i \in gone THEN NoKey ELSE rec[i]]
<1>1. rec2 \in [Indices -> Keys \union {NoKey}]
  BY DEF Shape
<1>2. \A i \in Indices : rec2[i] = IF i \in gone THEN NoKey ELSE rec[i]
  OBVIOUS
<1> HIDE DEF rec2
<1>3. Shape(pool \ gone, rec2, idx, pub, n, us)
  BY <1>1 DEF Shape
<1>4. ASSUME Placed(pool, rec, idx, pub, n, us)
      PROVE  Placed(pool \ gone, rec2, idx, pub, n, us)
  <2>1. OnRecords(pool \ gone, rec2, idx, pub)
    BY <1>2, <1>4 DEF Placed, OnRecords, Shape
  <2>2. n \in Nat
    BY DEF Shape
  <2>3. UsedUp(rec2, n, us)
    BY <1>2, <1>4, <2>2 DEF Placed, UsedUp, NoKey, Keys
  <2> QED BY <2>1, <2>3 DEF Placed
<1> QED BY <1>3, <1>4 DEF rec2

\* The wallet is loaded: the pool is what is on record, and nobody holds a key.
LEMMA LoadPlaced ==
  ASSUME NEW pool, NEW rec, NEW idx, NEW pub, NEW n, NEW us,
         Shape(pool, rec, idx, pub, n, us)
  PROVE  LET none == [h \in Holders |-> NoIndex]
             noKeys == [h \in Holders |-> NoKey]
         IN  /\ Shape(Loaded(rec), rec, none, noKeys, n, us)
             /\ Placed(pool, rec, idx, pub, n, us)
                  => Placed(Loaded(rec), rec, none, noKeys, n, us)
<1>1. Shape(Loaded(rec), rec, [h \in Holders |-> NoIndex], [h \in Holders |-> NoKey], n, us)
  BY DEF Shape, Loaded
<1> QED BY <1>1 DEF Placed, OnRecords, Loaded

----------------------------------------------------------------------------
(* The operations.                                                         *)

\* Facts about a refill of the pool as it is.
LEMMA RefillFacts ==
  ASSUME IInv, NEW n \in Nat, WithinBounds(LastIndex(setKeyPool), n)
  PROVE  LET last == LastIndex(setKeyPool)
             new == last + 1 .. last + n
             pool2 == setKeyPool \union new
             rec2 == Fill(record, last, n)
         IN  /\ last \in Nat
             /\ RewrittenBy(last, n) \in BOOLEAN
             /\ Shape(pool2, rec2, nIndex, vchPubKey, nKeys + n, uses)
             /\ ~ RewrittenBy(last, n) =>
                  Placed(pool2, rec2, nIndex, vchPubKey, nKeys + n, uses)
<1> DEFINE last == LastIndex(setKeyPool)
           new == last + 1 .. last + n
<1>1. last \in Nat
  BY LastIndexType DEF IInv, Shape
<1>2. RewrittenBy(last, n) \in BOOLEAN
  BY DEF RewrittenBy, IInv
<1>3. new \subseteq Indices
  BY <1>1, KeyPoolAssumption DEF WithinBounds, Indices, KeyPoolAssumption
<1>4. ASSUME ~ RewrittenBy(last, n)
      PROVE  ~ rewritten /\ \A h \in Holders : nIndex[h] \notin new
  BY <1>3, <1>4 DEF RewrittenBy, Reserved
<1> HIDE DEF last
<1>5. Shape(setKeyPool, record, nIndex, vchPubKey, nKeys, uses)
  BY DEF IInv
<1>6. WithinBounds(last, n)
  BY DEF last
<1>7. /\ Shape(setKeyPool \union new, Fill(record, last, n), nIndex, vchPubKey, nKeys + n, uses)
      /\ Placed(setKeyPool, record, nIndex, vchPubKey, nKeys, uses)
                  /\ (\A h \in Holders : nIndex[h] \notin new)
           => Placed(setKeyPool \union new, Fill(record, last, n), nIndex, vchPubKey, nKeys + n, uses)
  BY <1>1, <1>5, <1>6, FillPlaced
<1> QED BY <1>1, <1>2, <1>4, <1>7 DEF IInv, last

\* A complete refill, and one that stops half way.
LEMMA TopUpIInv ==
  ASSUME IInv, NEW n \in Nat, TopUpBy(n), UNCHANGED <<nIndex, vchPubKey, uses, crypted, crashes>>,
         locked' \in BOOLEAN
  PROVE  IInv'
  BY RefillFacts DEF TopUpBy, IInv

\* ReserveKeyFromKeyPool fills the pool and takes its oldest index.
LEMMA RefilledType ==
  ASSUME IInv
  PROVE  Refilled \in Nat
  BY MissingType DEF Refilled, IInv, Shape

\* A holder reserves a key.
LEMMA GetReservedKeyIInv ==
  ASSUME IInv, NEW h \in Holders, GetReservedKey(h)
  PROVE  IInv'
<1> DEFINE last == LastIndex(setKeyPool)
           i == Min(FilledPool)
<1>1. Refilled \in Nat /\ WithinBounds(last, Refilled)
  BY RefilledType DEF GetReservedKey
<1>2. /\ Shape(FilledPool, FilledRecord, nIndex, vchPubKey, nKeys + Refilled, uses)
      /\ RewrittenBy(last, Refilled) \in BOOLEAN
      /\ ~ RewrittenBy(last, Refilled) =>
           Placed(FilledPool, FilledRecord, nIndex, vchPubKey, nKeys + Refilled, uses)
  BY <1>1, RefillFacts DEF FilledPool, FilledRecord
<1>3. i \in FilledPool
  BY <1>2, MinInPool DEF GetReservedKey, Shape
<1>4. nIndex[h] = NoIndex
  BY DEF GetReservedKey
<1> HIDE DEF i
<1>5. /\ setKeyPool' = FilledPool \ {i} /\ record' = FilledRecord
      /\ nIndex' = [nIndex EXCEPT ![h] = i]
      /\ vchPubKey' = [vchPubKey EXCEPT ![h] = FilledRecord[i]]
      /\ nKeys' = nKeys + Refilled /\ rewritten' = RewrittenBy(last, Refilled)
      /\ UNCHANGED <<uses, crypted, locked, crashes>>
  BY DEF GetReservedKey, WithoutOldest, i
<1>6. Shape(setKeyPool', record', nIndex', vchPubKey', nKeys', uses')
  BY <1>2, <1>3, <1>4, <1>5, TakePlaced
<1>7. ~ rewritten' => Placed(setKeyPool', record', nIndex', vchPubKey', nKeys', uses')
  BY <1>2, <1>3, <1>4, <1>5, TakePlaced
<1> QED BY <1>2, <1>5, <1>6, <1>7 DEF IInv

\* getnewaddress reserves and keeps in one step.
LEMMA GetKeyFromPoolIInv ==
  ASSUME IInv, GetKeyFromPool
  PROVE  IInv'
<1> DEFINE last == LastIndex(setKeyPool)
           i == Min(FilledPool)
<1>1. Refilled \in Nat /\ WithinBounds(last, Refilled)
  BY RefilledType DEF GetKeyFromPool
<1>2. /\ Shape(FilledPool, FilledRecord, nIndex, vchPubKey, nKeys + Refilled, uses)
      /\ RewrittenBy(last, Refilled) \in BOOLEAN
      /\ ~ RewrittenBy(last, Refilled) =>
           Placed(FilledPool, FilledRecord, nIndex, vchPubKey, nKeys + Refilled, uses)
  BY <1>1, RefillFacts DEF FilledPool, FilledRecord
<1>3. i \in FilledPool
  BY <1>2, MinInPool DEF GetKeyFromPool, Shape
<1> HIDE DEF i
<1>4. /\ setKeyPool' = FilledPool \ {i} /\ record' = Erased(FilledRecord, i)
      /\ uses' = IF FilledRecord[i] = NoKey THEN uses
                 ELSE [uses EXCEPT ![FilledRecord[i]] = @ + 1]
      /\ nKeys' = nKeys + Refilled /\ rewritten' = RewrittenBy(last, Refilled)
      /\ UNCHANGED <<nIndex, vchPubKey, crypted, locked, crashes>>
  BY DEF GetKeyFromPool, WithoutOldest, i
<1>5. Shape(setKeyPool', record', nIndex', vchPubKey', nKeys', uses')
  BY <1>2, <1>3, <1>4, UsePlaced
<1>6. ~ rewritten' => Placed(setKeyPool', record', nIndex', vchPubKey', nKeys', uses')
  BY <1>2, <1>3, <1>4, UsePlaced
<1> QED BY <1>2, <1>4, <1>5, <1>6 DEF IInv

\* A reservation ends, with its key kept or returned.
LEMMA KeepReturnIInv ==
  ASSUME IInv, NEW h \in Holders, KeepKey(h) \/ ReturnKey(h)
  PROVE  IInv'
<1>1. CASE KeepKey(h)
  BY <1>1, KeepPlaced DEF KeepKey, IInv
<1>2. CASE ReturnKey(h)
  BY <1>2, ReturnPlaced DEF ReturnKey, IInv
<1> QED BY <1>1, <1>2

\* The records NewKeyPool has erased and written, with the pool they make.
LEMMA NewPoolFacts ==
  ASSUME IInv, NEW gone \in SUBSET setKeyPool, NEW n \in Nat, WithinBounds(0, n)
  PROVE  LET pool2 == (setKeyPool \ gone) \union (1..n)
             rec2 == NewPoolRecord(gone, n)
         IN  /\ RewrittenBy(0, n) \in BOOLEAN
             /\ Shape(pool2, rec2, nIndex, vchPubKey, nKeys + n, uses)
             /\ ~ RewrittenBy(0, n) =>
                  Placed(pool2, rec2, nIndex, vchPubKey, nKeys + n, uses)
<1> DEFINE rec1 == [i \in Indices |-> IF i \in gone THEN NoKey ELSE record[i]]
<1>1. /\ Shape(setKeyPool \ gone, rec1, nIndex, vchPubKey, nKeys, uses)
      /\ ~ rewritten => Placed(setKeyPool \ gone, rec1, nIndex, vchPubKey, nKeys, uses)
  BY ErasePlaced DEF IInv
<1>2. RewrittenBy(0, n) \in BOOLEAN
  BY DEF RewrittenBy, IInv
<1>3. 0 + 1 .. 0 + n = 1..n /\ 1..n \subseteq Indices
  BY KeyPoolAssumption DEF WithinBounds, Indices, KeyPoolAssumption
<1>4. ASSUME ~ RewrittenBy(0, n)
      PROVE  ~ rewritten /\ \A h \in Holders : nIndex[h] \notin 1..n
  BY <1>3, <1>4 DEF RewrittenBy, Reserved
<1>5. NewPoolRecord(gone, n) = Fill(rec1, 0, n)
  BY DEF NewPoolRecord
<1> HIDE DEF rec1
<1>6. LET new == 0 + 1 .. 0 + n
      IN  /\ Shape((setKeyPool \ gone) \union new, Fill(rec1, 0, n), nIndex, vchPubKey,
                   nKeys + n, uses)
          /\ Placed(setKeyPool \ gone, rec1, nIndex, vchPubKey, nKeys, uses)
                  /\ (\A h \in Holders : nIndex[h] \notin new)
               => Placed((setKeyPool \ gone) \union new, Fill(rec1, 0, n), nIndex, vchPubKey,
                         nKeys + n, uses)
  BY <1>1, FillPlaced
<1> QED BY <1>1, <1>2, <1>3, <1>4, <1>5, <1>6

\* EncryptWallet replaces the pool.
LEMMA EncryptWalletIInv ==
  ASSUME IInv, EncryptWallet
  PROVE  IInv'
<1>1. nTargetSize \in Nat
  BY KeyPoolAssumption DEF KeyPoolAssumption
<1>2. (setKeyPool \ setKeyPool) \union (1..nTargetSize) = 1..nTargetSize
  OBVIOUS
<1> QED BY <1>1, <1>2, NewPoolFacts DEF EncryptWallet, IInv

\* The process ends with records that go with some pool, and is started again.
LEMMA ReloadIInv ==
  ASSUME IInv, NEW pool, NEW rec, NEW n, NEW isCrypted \in BOOLEAN, Reload(rec, isCrypted),
         Shape(pool, rec, nIndex, vchPubKey, n, uses), nKeys' = n, rewritten' \in BOOLEAN,
         ~ rewritten' => Placed(pool, rec, nIndex, vchPubKey, n, uses)
  PROVE  IInv'
<1>1. crashes' \in 0..MaxCrashes
  BY KeyPoolAssumption DEF Reload, IInv, KeyPoolAssumption
<1> QED BY <1>1, LoadPlaced DEF Reload, IInv

\* The four ways to a restart.
LEMMA RestartIInv ==
  ASSUME IInv,
         \/ Restart
         \/ \E n \in 0..nTargetSize : DieInTopUp(n) \/ DieWriting(n)
         \/ \E below \in Indices : DieErasing(below)
  PROVE  IInv'
<1>0. /\ crypted \in BOOLEAN /\ rewritten \in BOOLEAN
      /\ 0..nTargetSize \subseteq Nat /\ nKeys + 0 = nKeys
  BY KeyPoolAssumption DEF IInv, KeyPoolAssumption, Shape
<1>1. CASE Restart
  BY <1>0, <1>1, ReloadIInv DEF Restart, IInv
<1>2. CASE \E n \in 0..nTargetSize : DieInTopUp(n)
  BY <1>0, <1>2, RefillFacts, ReloadIInv DEF DieInTopUp
<1>3. CASE \E n \in 0..nTargetSize : DieWriting(n)
  <2>1. PICK n \in 0..nTargetSize : DieWriting(n)
    BY <1>3
  <2>2. /\ n \in Nat /\ WithinBounds(0, n) /\ Reload(NewPoolRecord(setKeyPool, n), TRUE)
        /\ nKeys' = nKeys + n /\ rewritten' = RewrittenBy(0, n)
    BY <1>0, <2>1 DEF DieWriting
  <2> QED BY <1>0, <2>2, NewPoolFacts, ReloadIInv
<1>4. CASE \E below \in Indices : DieErasing(below)
  <2>1. PICK below \in Indices : DieErasing(below)
    BY <1>4
  <2> DEFINE gone == {i \in setKeyPool : i < below}
             rec == NewPoolRecord(gone, 0)
  <2>2. gone \in SUBSET setKeyPool /\ WithinBounds(0, 0)
    BY KeyPoolAssumption DEF WithinBounds, IInv, Shape, KeyPoolAssumption
  <2>3. ~ RewrittenBy(0, 0) <=> ~ rewritten
    BY DEF RewrittenBy
  <2>4. /\ Reload(rec, TRUE) /\ UNCHANGED <<nKeys, rewritten>>
    BY <2>1 DEF DieErasing
  <2> HIDE DEF gone
  <2>5. \E pool : /\ Shape(pool, rec, nIndex, vchPubKey, nKeys, uses)
                  /\ ~ rewritten => Placed(pool, rec, nIndex, vchPubKey, nKeys, uses)
    BY <1>0, <2>2, <2>3, NewPoolFacts
  <2> QED BY <1>0, <2>4, <2>5, ReloadIInv
<1> QED BY <1>1, <1>2, <1>3, <1>4

\* Every step keeps the invariant.
LEMMA NextIInv == IInv /\ [Next]_vars => IInv'
<1> SUFFICES ASSUME IInv, [Next]_vars PROVE IInv'
  OBVIOUS
<1>1. CASE TopUpKeyPool
  BY <1>1, TopUpIInv, MissingType DEF TopUpKeyPool, IInv, Shape
<1>2. CASE \E n \in 0..nTargetSize : TopUpFails(n)
  <2>1. 0..nTargetSize \subseteq Nat
    BY KeyPoolAssumption DEF KeyPoolAssumption
  <2> QED BY <1>2, <2>1, TopUpIInv DEF TopUpFails, IInv
<1>3. CASE \E h \in Holders : GetReservedKey(h)
  BY <1>3, GetReservedKeyIInv
<1>4. CASE GetKeyFromPool
  BY <1>4, GetKeyFromPoolIInv
<1>5. CASE \E h \in Holders : KeepKey(h) \/ ReturnKey(h)
  BY <1>5, KeepReturnIInv
<1>6. CASE Lock \/ Unlock
  BY <1>6 DEF Lock, Unlock, poolVars, IInv
<1>7. CASE EncryptWallet
  BY <1>7, EncryptWalletIInv
<1>8. CASE \/ Restart
           \/ \E n \in 0..nTargetSize : DieInTopUp(n) \/ DieWriting(n)
           \/ \E below \in Indices : DieErasing(below)
  BY <1>8, RestartIInv
<1>9. CASE UNCHANGED vars
  BY <1>9 DEF vars, poolVars, IInv
<1> QED BY <1>1, <1>2, <1>3, <1>4, <1>5, <1>6, <1>7, <1>8, <1>9 DEF Next

\* The state has the types of the code's fields: a reserved index is an index,
\* a refill writes keys that were generated.
THEOREM KeyPoolTypeCorrect == Spec => []TypeOK
  BY InitIInv, NextIInv, IInvImplies, PTL DEF Spec

\* A key leaves the pool for good at most once, as long as no record of a
\* reserved index is written again: through reservations and returns by any
\* number of holders, refills cut short, encryption and restarts.
THEOREM KeyUsedOnceAlways == Spec => []KeyUsedOnce
  BY InitIInv, NextIInv, IInvImplies, PTL DEF Spec

\* Under the same condition every key is in one place, and the pool never
\* offers an index whose record ReadPool would not find.
THEOREM KeysAccountedAlways == Spec => []KeysAccounted
  BY InitIInv, NextIInv, IInvImplies, PTL DEF Spec
=============================================================================
