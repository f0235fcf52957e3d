------------------------------ MODULE KeyPool -------------------------------
(***************************************************************************)
(* The wallet's key pool (wallet.cpp, walletdb.cpp): setKeyPool in memory  *)
(* and the pool records of the wallet file, the CReserveKey objects of the *)
(* miner, of transactions being created and of RPC threads, and locking,   *)
(* unlocking and encryption, which decide when the pool can be refilled.   *)
(*                                                                         *)
(* Every operation on setKeyPool holds cs_wallet from its start to its     *)
(* end, so an operation is one action; Lock() does not take cs_wallet and  *)
(* may cut a refill short, as may a failed write or the end of the         *)
(* process.  A key is its number in the order of generation.               *)
(***************************************************************************)
EXTENDS Integers, FiniteSetsExt

CONSTANTS
    Holders,        \* CReserveKey objects that may exist at the same time
    nTargetSize,    \* -keypool
    MaxKeys,        \* bound on the keys generated
    MaxCrashes      \* bound on the ends of the process

ASSUME KeyPoolAssumption ==
    nTargetSize \in Nat /\ MaxKeys \in Nat /\ MaxCrashes \in Nat

Keys == 1..MaxKeys
Indices == 1..MaxKeys   \* an index is used for the first time with a new key
NoIndex == -1
NoKey == 0              \* no record, or an invalid CPubKey

VARIABLES
    setKeyPool,     \* indices that can be reserved
    record,         \* "pool" records of the wallet file
    nIndex, vchPubKey,  \* the fields of each CReserveKey
    nKeys,          \* keys generated so far
    uses,           \* how often a key was taken for good (history)
    crypted, locked,
    rewritten,      \* a record was written while its index was reserved (history)
    crashes

poolVars == <<setKeyPool, record, nKeys, rewritten>>
vars == <<poolVars, nIndex, vchPubKey, uses, crypted, locked, crashes>>

TypeOK ==
    /\ setKeyPool \in SUBSET Indices
    /\ record \in [Indices -> Keys \union {NoKey}]
    /\ nIndex \in [Holders -> Indices \union {NoIndex}]
    /\ vchPubKey \in [Holders -> Keys \union {NoKey}]
    /\ nKeys \in 0..MaxKeys
    /\ uses \in [Keys -> Nat]
    /\ crypted \in BOOLEAN /\ locked \in BOOLEAN /\ rewritten \in BOOLEAN
    /\ crashes \in 0..MaxCrashes

\* A new wallet.
Init ==
    /\ setKeyPool = {}
    /\ record = [i \in Indices |-> NoKey]
    /\ nIndex = [h \in Holders |-> NoIndex]
    /\ vchPubKey = [h \in Holders |-> NoKey]
    /\ nKeys = 0
    /\ uses = [k \in Keys |-> 0]
    /\ crypted = FALSE /\ locked = FALSE /\ rewritten = FALSE
    /\ crashes = 0

Reserved == {i \in Indices : \E h \in Holders : nIndex[h] = i}

-----------------------------------------------------------------------------
(* Filling the pool.                                                       *)

\* The last index in use: setKeyPool.rbegin(), or none.
LastIndex(pool) == IF pool = {} THEN 0 ELSE Max(pool)
Missing(pool) == IF Cardinality(pool) < nTargetSize + 1
                   THEN nTargetSize + 1 - Cardinality(pool) ELSE 0

\* n times WritePool(last + 1, GenerateNewKey()) on the given records.
Fill(rec, last, n) ==
    [i \in Indices |-> IF i \in last + 1 .. last + n THEN nKeys + (i - last) ELSE rec[i]]
WithinBounds(last, n) == last + n <= MaxKeys /\ nKeys + n <= MaxKeys
RewrittenBy(last, n) == rewritten \/ (last + 1 .. last + n) \cap Reserved # {}

\* The pool and its records after n rounds of the loop of TopUpKeyPool.
TopUpBy(n) ==
    LET last == LastIndex(setKeyPool)
    IN  /\ WithinBounds(last, n)
        /\ record' = Fill(record, last, n)
        /\ setKeyPool' = setKeyPool \union (last + 1 .. last + n)
        /\ nKeys' = nKeys + n
        /\ rewritten' = RewrittenBy(last, n)

\* keypoolrefill, and the thread that walletpassphrase starts.
TopUpKeyPool ==
    /\ ~ locked
    /\ TopUpBy(Missing(setKeyPool))
    /\ UNCHANGED <<nIndex, vchPubKey, uses, crypted, locked, crashes>>

\* A write fails, or the wallet is locked under the loop: it throws.
TopUpFails(n) ==
    /\ ~ locked
    /\ n < Missing(setKeyPool)
    /\ TopUpBy(n)
    /\ locked' \in {locked, crypted}
    /\ UNCHANGED <<nIndex, vchPubKey, uses, crypted, crashes>>

-----------------------------------------------------------------------------
(* Taking keys out.                                                        *)

\* ReserveKeyFromKeyPool: the pool is topped up when it can be, and the
\* smallest index leaves it.
OldestNotErased(pool) == pool
WithoutOldest(pool) == pool \ {Min(pool)}
Refilled == IF locked THEN 0 ELSE Missing(setKeyPool)
FilledPool == LET last == LastIndex(setKeyPool) IN setKeyPool \union (last + 1 .. last + Refilled)
FilledRecord == Fill(record, LastIndex(setKeyPool), Refilled)

\* GetReservedKey: a holder that has no index asks for one.  When the record
\* of the index cannot be read an exception ends the operation: the holder has
\* the index, and no key to keep.
GetReservedKey(h) ==
    /\ nIndex[h] = NoIndex
    /\ FilledPool # {}
    /\ WithinBounds(LastIndex(setKeyPool), Refilled)
    /\ LET i == Min(FilledPool)
       IN  /\ nIndex' = [nIndex EXCEPT ![h] = i]
           /\ vchPubKey' = [vchPubKey EXCEPT ![h] = FilledRecord[i]]
    /\ setKeyPool' = WithoutOldest(FilledPool)
    /\ record' = FilledRecord
    /\ nKeys' = nKeys + Refilled
    /\ rewritten' = RewrittenBy(LastIndex(setKeyPool), Refilled)
    /\ UNCHANGED <<uses, crypted, locked, crashes>>

\* ErasePool
KeepsRecord(rec, i) == rec
Erased(rec, i) == [rec EXCEPT ![i] = NoKey]

\* CReserveKey::KeepKey: the key is used for good.  It takes no lock.
KeepKey(h) ==
    /\ nIndex[h] # NoIndex /\ vchPubKey[h] # NoKey
    /\ record' = Erased(record, nIndex[h])
    /\ uses' = [uses EXCEPT ![vchPubKey[h]] = @ + 1]
    /\ nIndex' = [nIndex EXCEPT ![h] = NoIndex]
    /\ vchPubKey' = [vchPubKey EXCEPT ![h] = NoKey]
    /\ UNCHANGED <<setKeyPool, nKeys, rewritten, crypted, locked, crashes>>

\* CReserveKey::ReturnKey, also from the destructor.  GetOldestKeyPoolTime is
\* a reservation that is returned later: other threads may come in between.
ReturnKeyAlways(h) ==
    /\ setKeyPool' = setKeyPool \union {nIndex[h]}
    /\ nIndex' = [nIndex EXCEPT ![h] = NoIndex]
    /\ vchPubKey' = [vchPubKey EXCEPT ![h] = NoKey]
    /\ UNCHANGED <<record, nKeys, rewritten, uses, crypted, locked, crashes>>
ReturnKey(h) ==
    /\ nIndex[h] # NoIndex
    /\ setKeyPool' = setKeyPool \union {nIndex[h]}
    /\ nIndex' = [nIndex EXCEPT ![h] = NoIndex]
    /\ vchPubKey' = [vchPubKey EXCEPT ![h] = NoKey]
    /\ UNCHANGED <<record, nKeys, rewritten, uses, crypted, locked, crashes>>

\* GetKeyFromPool for getnewaddress: reserve and keep under one lock.  With an
\* empty pool the wallet is locked and the default key or nothing is returned.
GetKeyFromPool ==
    /\ FilledPool # {}
    /\ WithinBounds(LastIndex(setKeyPool), Refilled)
    /\ LET i == Min(FilledPool)
       IN  /\ record' = Erased(FilledRecord, i)
           /\ uses' = IF FilledRecord[i] = NoKey THEN uses
                      ELSE [uses EXCEPT ![FilledRecord[i]] = @ + 1]
    /\ setKeyPool' = WithoutOldest(FilledPool)
    /\ nKeys' = nKeys + Refilled
    /\ rewritten' = RewrittenBy(LastIndex(setKeyPool), Refilled)
    /\ UNCHANGED <<nIndex, vchPubKey, crypted, locked, crashes>>

-----------------------------------------------------------------------------
(* Locking, encryption and the end of the process.                         *)

Lock ==
    /\ crypted /\ ~ locked
    /\ locked' = TRUE
    /\ UNCHANGED <<poolVars, nIndex, vchPubKey, uses, crypted, crashes>>

Unlock ==
    /\ locked
    /\ locked' = FALSE
    /\ UNCHANGED <<poolVars, nIndex, vchPubKey, uses, crypted, crashes>>

\* What NewKeyPool has written after it erased the records of the indices in
\* gone and wrote n new keys.
NewPoolRecord(gone, n) ==
    Fill([i \in Indices |-> IF i \in gone THEN NoKey ELSE record[i]], 0, n)

\* EncryptWallet: NewKeyPool erases the records of the pool (not the ones of
\* reserved keys) and writes nTargetSize new ones, from index 1.
EncryptWallet ==
    /\ ~ crypted
    /\ WithinBounds(0, nTargetSize)
    /\ record' = NewPoolRecord(setKeyPool, nTargetSize)
    /\ setKeyPool' = 1..nTargetSize
    /\ nKeys' = nKeys + nTargetSize
    /\ rewritten' = RewrittenBy(0, nTargetSize)
    /\ crypted' = TRUE /\ locked' = TRUE
    /\ UNCHANGED <<nIndex, vchPubKey, uses, crashes>>

\* The process ends and the wallet is loaded again: setKeyPool is what is on
\* record, reserved keys included, and a crypted wallet is locked.
Loaded(rec) == {i \in Indices : rec[i] # NoKey}
Reload(rec, isCrypted) ==
    /\ crashes < MaxCrashes
    /\ crashes' = crashes + 1
    /\ record' = rec
    /\ setKeyPool' = Loaded(rec)
    /\ nIndex' = [h \in Holders |-> NoIndex]
    /\ vchPubKey' = [h \in Holders |-> NoKey]
    /\ crypted' = isCrypted /\ locked' = isCrypted
    /\ UNCHANGED uses

Restart == Reload(record, crypted) /\ UNCHANGED <<nKeys, rewritten>>

\* The process ends inside TopUpKeyPool, or inside NewKeyPool after the keys
\* were encrypted: while it erases, lowest index first, or while it writes.
DieInTopUp(n) ==
    /\ ~ locked
    /\ n < Missing(setKeyPool)
    /\ WithinBounds(LastIndex(setKeyPool), n)
    /\ Reload(Fill(record, LastIndex(setKeyPool), n), crypted)
    /\ nKeys' = nKeys + n
    /\ rewritten' = RewrittenBy(LastIndex(setKeyPool), n)
DieErasing(below) ==
    /\ ~ crypted
    /\ Reload(NewPoolRecord({i \in setKeyPool : i < below}, 0), TRUE)
    /\ UNCHANGED <<nKeys, rewritten>>
DieWriting(n) ==
    /\ ~ crypted
    /\ n < nTargetSize
    /\ WithinBounds(0, n)
    /\ Reload(NewPoolRecord(setKeyPool, n), TRUE)
    /\ nKeys' = nKeys + n
    /\ rewritten' = RewrittenBy(0, n)

Next ==
    \/ TopUpKeyPool \/ GetKeyFromPool
    \/ \E n \in 0..nTargetSize : TopUpFails(n) \/ DieInTopUp(n) \/ DieWriting(n)
    \/ \E h \in Holders : GetReservedKey(h) \/ KeepKey(h) \/ ReturnKey(h)
    \/ Lock \/ Unlock \/ EncryptWallet
    \/ Restart \/ \E below \in Indices : DieErasing(below)

Spec == Init /\ [][Next]_vars

-----------------------------------------------------------------------------
(* Properties.                                                             *)

\* A key leaves the pool for good once at most, however reservations, returns,
\* refills, encryption, failures and restarts follow each other, as long as no
\* record of a reserved index was written again.
KeyUsedOnce == ~ rewritten => \A k \in Keys : uses[k] <= 1

\* Every key is in one place.  A used key is on no record, so that it does not
\* come back, at a restart either; no two holders share a key or an index; a
\* reserved index is not in the pool, and ReserveKeyFromKeyPool never meets an
\* index without a record ("read failed").
KeysAccounted ==
    ~ rewritten =>
        /\ \A k \in Keys, i \in Indices : uses[k] > 0 => record[i] # k
        /\ \A h1, h2 \in Holders :
              h1 # h2 /\ nIndex[h1] # NoIndex =>
                  nIndex[h1] # nIndex[h2] /\ vchPubKey[h1] # vchPubKey[h2]
        /\ Reserved \cap setKeyPool = {}
        /\ \A i \in setKeyPool : record[i] # NoKey

\* "Take key pair from key pool so it won't be used again", without the
\* condition on the records of reserved indices.
NeverUsedAgain == \A k \in Keys : uses[k] <= 1
=============================================================================
