-------------------------- MODULE CheckQueueProofs --------------------------
(***************************************************************************)
(* Proofs about CheckQueue, for any number of workers, any set of checks   *)
(* and any batch size.  None of the properties is inductive on its own:    *)
(* nTodo \in Nat needs the accounting of the batches, the accounting needs *)
(* to know that only a running thread holds a batch, and the soundness of  *)
(* the result needs what fAllOk and the local fOk's say half-way.          *)
(***************************************************************************)
EXTENDS CheckQueue, FiniteSetTheorems, TLAPS

\* The thread inside the critical section is the one that owns the mutex.
MutexOwner == \A t \in Threads : mutex = t <=> pc[t] = "loop"

\* The threads that hold a batch took one and have not accounted for it yet.
BatchHolder == \A t \in Threads : batch[t] # {} <=> pc[t] \in {"run", "done"}

\* Half-way through a round: the accounted checks are good while fAllOk is
\* true, and fAllOk or an fOk is false only because some check is bad.
VerdictSoFar ==
    /\ Outstanding \subseteq added
    /\ (fAllOk /\ pc[Master] \notin {"idle", "aborted"}) =>
          \A c \in added \ Outstanding : verdict[c]
    /\ ~ fAllOk => \E c \in added : ~ verdict[c]
    /\ \A t \in Threads : pc[t] = "done" =>
          (fOk[t] => \A c \in batch[t] : verdict[c])
    /\ \A t \in Threads : pc[t] \in {"run", "done"} =>
          (~ fOk[t] => \E c \in added : ~ verdict[c])

\* Outside a round nothing is outstanding; inside one there is no result.
RoundClosed ==
    /\ pc[Master] \in {"idle", "aborted"} => Outstanding = {} /\ fAllOk
    /\ result # "none" => pc[Master] \in {"idle", "aborted"}

\* Only workers end, and only a thread that ended or the master has thrown.
ThrownEnded == \A w \in Workers : pc[w] = "dead" <=> intr[w] = "thrown"

IInv ==
    /\ TypeOK /\ MutexOwner /\ BatchHolder /\ WorkAccounted
    /\ VerdictSoFar /\ RoundClosed /\ ResultSound /\ CountersExact
    /\ ThrownEnded
-----------------------------------------------------------------------------
(* Finite sets.                                                            *)

\* Every set of threads and every set of checks is finite and has a size.
LEMMA Sizes ==
    /\ \A S \in SUBSET Threads : IsFiniteSet(S) /\ Cardinality(S) \in Nat
    /\ \A S \in SUBSET Checks : IsFiniteSet(S) /\ Cardinality(S) \in Nat
<1>1. IsFiniteSet(Threads)
  BY ThreadsAssumption, FS_AddElement DEF Threads
<1>2. \A S \in SUBSET Threads : IsFiniteSet(S)
  BY <1>1, FS_Subset
<1>3. \A S \in SUBSET Checks : IsFiniteSet(S)
  BY ChecksAssumption, FS_Subset
<1> QED BY <1>2, <1>3, FS_CardinalityType

\* One thread enters or leaves a set of threads.
LEMMA OneThread ==
    ASSUME NEW S \in SUBSET Threads, NEW t \in Threads
    PROVE  /\ t \notin S => Cardinality(S \union {t}) = Cardinality(S) + 1
           /\ t \in S => Cardinality(S \ {t}) = Cardinality(S) - 1
BY Sizes, FS_AddElement, FS_RemoveElement

\* Checks move in and out of a set of checks.
LEMMA SomeChecks ==
    ASSUME NEW S \in SUBSET Checks, NEW T \in SUBSET Checks
    PROVE  /\ S \cap T = {} =>
                Cardinality(S \union T) = Cardinality(S) + Cardinality(T)
           /\ T \subseteq S => Cardinality(S \ T) = Cardinality(S) - Cardinality(T)
           /\ T \subseteq S => Cardinality(T) <= Cardinality(S)
           /\ Cardinality(S) = 0 <=> S = {}
<1>1. IsFiniteSet(S) /\ IsFiniteSet(T) /\ Cardinality(S) \in Nat /\ Cardinality(T) \in Nat
  BY Sizes
<1>2. ASSUME S \cap T = {}
      PROVE  Cardinality(S \union T) = Cardinality(S) + Cardinality(T)
  <2>1. Cardinality(S \union T)
          = Cardinality(S) + Cardinality(T) - Cardinality(S \cap T)
    BY <1>1, FS_Union
  <2> QED BY <1>1, <1>2, <2>1, FS_EmptySet
<1>3. ASSUME T \subseteq S
      PROVE  Cardinality(S \ T) = Cardinality(S) - Cardinality(T)
  <2>1. S \cap T = T
    BY <1>3
  <2> QED BY <1>1, <2>1, FS_Difference
<1>4. ASSUME T \subseteq S PROVE Cardinality(T) <= Cardinality(S)
  BY <1>1, <1>4, FS_Subset
<1> QED BY <1>1, <1>2, <1>3, <1>4, FS_EmptySet

\* The counted sets are sets of threads, the outstanding checks are checks.
LEMMA Counted ==
    ASSUME TypeOK
    PROVE  /\ Sleeping \in SUBSET Threads /\ InLoop \in SUBSET Threads
           /\ Thrown \in SUBSET Threads /\ Outstanding \in SUBSET Checks
           /\ Cardinality(Sleeping) \in Nat /\ Cardinality(InLoop) \in Nat
           /\ Cardinality(Thrown) \in Nat
<1>1. Sleeping \in SUBSET Threads /\ InLoop \in SUBSET Threads /\ Thrown \in SUBSET Threads
  BY DEF Sleeping, InLoop, Thrown
<1>2. Outstanding \in SUBSET Checks
  BY DEF Outstanding, TypeOK
<1> QED BY <1>1, <1>2, Sizes

-----------------------------------------------------------------------------
(* The invariant holds initially and every step keeps it.                  *)

\* The invariant holds before the first thread enters.
LEMMA InitIInv == Init => IInv
<1> SUFFICES ASSUME Init PROVE IInv
  OBVIOUS
<1> USE DEF Init
<1>1. TypeOK
  BY ThreadsAssumption DEF TypeOK, Threads, WorkerPc, MasterPc
<1>2. MutexOwner /\ BatchHolder /\ ThrownEnded
  BY ThreadsAssumption DEF MutexOwner, BatchHolder, ThrownEnded, Threads
<1>3. Outstanding = {}
  BY DEF Outstanding
<1>4. WorkAccounted
  BY <1>3, FS_EmptySet DEF WorkAccounted
<1>5. VerdictSoFar /\ RoundClosed /\ ResultSound
  BY <1>3 DEF VerdictSoFar, RoundClosed, ResultSound
<1>6. Sleeping = {} /\ InLoop = {} /\ Thrown = {}
  BY DEF Sleeping, InLoop, Thrown
<1>7. CountersExact
  BY <1>6, FS_EmptySet DEF CountersExact
<1> QED BY <1>1, <1>2, <1>4, <1>5, <1>7 DEF IInv

\* A control is constructed, or its assertion ends the process.
LEMMA ConstructIInv ==
    ASSUME IInv, Construct
    PROVE  IInv'
<1> USE DEF IInv, Construct, queueVars, roundVars
<1>1. TypeOK'
  BY DEF TypeOK, Threads, WorkerPc, MasterPc
<1>2. MutexOwner' /\ BatchHolder' /\ ThrownEnded'
  BY ThreadsAssumption DEF TypeOK, MutexOwner, BatchHolder, ThrownEnded, Threads
<1>3. Outstanding' = Outstanding /\ Outstanding = {} /\ fAllOk
  BY DEF Outstanding, RoundClosed
<1>4. WorkAccounted'
  BY <1>3 DEF WorkAccounted
<1>5. \A t \in Threads : pc[t] \in {"run", "done"} => t # Master /\ pc'[t] = pc[t]
  BY DEF TypeOK
<1>6. \A t \in Threads : pc'[t] \in {"run", "done"} => pc[t] = pc'[t]
  BY DEF TypeOK
<1>7. VerdictSoFar'
  <2>1. CASE ControlAsserts
    <3>1. added' = {} /\ fAllOk' /\ Outstanding' = {}
      BY <2>1, <1>3
    <3>2. \A t \in Threads : batch[t] = {}
      BY <1>3 DEF Outstanding
    <3>3. \A t \in Threads : pc'[t] \notin {"run", "done"}
      BY <3>2, <1>6 DEF BatchHolder
    <3> QED BY <3>1, <3>3 DEF VerdictSoFar
  <2>2. CASE ~ ControlAsserts
    BY <2>2, <1>3, <1>6 DEF VerdictSoFar, TypeOK
  <2> QED BY <2>1, <2>2
<1>8. RoundClosed' /\ ResultSound'
  BY <1>3 DEF RoundClosed, ResultSound, TypeOK
<1>9. Sleeping' = Sleeping /\ InLoop' = InLoop /\ Thrown' = Thrown
  BY DEF Sleeping, InLoop, Thrown, TypeOK
<1>10. CountersExact'
  BY <1>9 DEF CountersExact
<1> QED BY <1>1, <1>2, <1>4, <1>7, <1>8, <1>10

\* Steps that touch no check, no verdict and no fOk, that do not move a thread
\* in or out of "run" and "done", and do not open or close a round.
LEMMA QuietStep ==
    ASSUME IInv, TypeOK',
           UNCHANGED <<queue, nTodo, fAllOk, batch, fOk, added, verdict, result>>,
           \A t \in Threads : pc'[t] = pc[t]
              \/ /\ pc[t] \notin {"run", "done", "idle", "aborted"}
                 /\ pc'[t] \notin {"run", "done", "idle", "aborted"}
    PROVE  /\ BatchHolder' /\ WorkAccounted' /\ VerdictSoFar'
           /\ RoundClosed' /\ ResultSound'
<1> USE DEF IInv
<1>1. Outstanding' = Outstanding
  BY DEF Outstanding
<1>2. BatchHolder' /\ WorkAccounted' /\ ResultSound'
  BY <1>1 DEF BatchHolder, WorkAccounted, ResultSound
<1>3. pc'[Master] \in {"idle", "aborted"} <=> pc[Master] \in {"idle", "aborted"}
  BY DEF Threads
<1>4. RoundClosed'
  BY <1>1, <1>3 DEF RoundClosed
<1>5. \A t \in Threads : pc'[t] \in {"run", "done"} => pc'[t] = pc[t]
  OBVIOUS
<1>6. VerdictSoFar'
  BY <1>1, <1>3, <1>5 DEF VerdictSoFar
<1> QED BY <1>2, <1>4, <1>6

\* It survives the master's call of Wait.
LEMMA CallWaitIInv ==
    ASSUME IInv, NEW drop \in BOOLEAN, CallWait(drop)
    PROVE  IInv'
<1> USE DEF IInv, CallWait, queueVars
<1>1. TypeOK'
  BY DEF TypeOK, Threads, WorkerPc, MasterPc
<1>2. MutexOwner' /\ ThrownEnded'
  BY ThreadsAssumption DEF TypeOK, MutexOwner, ThrownEnded, Threads
<1>3. \A t \in Threads : pc'[t] = pc[t]
         \/ /\ pc[t] \notin {"run", "done", "idle", "aborted"}
            /\ pc'[t] \notin {"run", "done", "idle", "aborted"}
  BY DEF TypeOK
<1>4. Sleeping' = Sleeping /\ InLoop' = InLoop /\ Thrown' = Thrown
  BY DEF Sleeping, InLoop, Thrown, TypeOK
<1>5. CountersExact'
  BY <1>4 DEF CountersExact
<1> QED BY <1>1, <1>2, <1>3, <1>5, QuietStep

\* It survives a thread that enters Loop.
LEMMA EnterFirstIInv ==
    ASSUME IInv, NEW t \in Threads, EnterFirst(t)
    PROVE  IInv'
<1> USE DEF IInv, EnterFirst, roundVars
<1>1. TypeOK'
  BY DEF TypeOK, Threads, WorkerPc, MasterPc
<1>2. MutexOwner' /\ ThrownEnded'
  BY ThreadsAssumption DEF TypeOK, MutexOwner, ThrownEnded, Threads
<1>3. \A u \in Threads : pc'[u] = pc[u]
         \/ /\ pc[u] \notin {"run", "done", "idle", "aborted"}
            /\ pc'[u] \notin {"run", "done", "idle", "aborted"}
  BY DEF TypeOK
<1>4. Sleeping' = Sleeping /\ Thrown' = Thrown
  BY DEF Sleeping, Thrown, TypeOK
<1>5. t \notin InLoop /\ InLoop' = InLoop \union {t}
  BY DEF InLoop, TypeOK
<1>6. Cardinality(InLoop') = Cardinality(InLoop) + 1
  BY <1>5, OneThread, Counted
<1>7. CountersExact'
  BY <1>4, <1>6, Counted DEF CountersExact
<1> QED BY <1>1, <1>2, <1>3, <1>7, QuietStep

\* It survives a thread that finds nothing to do.
LEMMA SleepIInv ==
    ASSUME IInv, NEW t \in Threads, Sleep(t)
    PROVE  IInv'
<1> USE DEF IInv, Sleep, roundVars
<1>1. TypeOK'
  BY DEF TypeOK, Threads, WorkerPc, MasterPc, IdleBeforeWait
<1>2. MutexOwner' /\ ThrownEnded'
  BY ThreadsAssumption DEF TypeOK, MutexOwner, ThrownEnded, Threads
<1>3. \A u \in Threads : pc'[u] = pc[u]
         \/ /\ pc[u] \notin {"run", "done", "idle", "aborted"}
            /\ pc'[u] \notin {"run", "done", "idle", "aborted"}
  BY DEF TypeOK
<1>4. InLoop' = InLoop /\ Thrown' = Thrown
  BY DEF InLoop, Thrown, TypeOK
<1>5. t \notin Sleeping /\ Sleeping' = Sleeping \union {t}
  BY DEF Sleeping, TypeOK
<1>6. Cardinality(Sleeping') = Cardinality(Sleeping) + 1
  BY <1>5, OneThread, Counted
<1>7. CountersExact'
  BY <1>4, <1>6, Counted DEF CountersExact, IdleBeforeWait
<1> QED BY <1>1, <1>2, <1>3, <1>7, QuietStep

\* It survives a wake-up that nobody asked for.
LEMMA SpuriousWakeIInv ==
    ASSUME IInv, NEW t \in Threads, SpuriousWake(t)
    PROVE  IInv'
<1> USE DEF IInv, SpuriousWake, queueVars, roundVars
<1>1. TypeOK'
  BY DEF TypeOK, Threads, WorkerPc, MasterPc
<1>2. MutexOwner' /\ ThrownEnded'
  BY ThreadsAssumption DEF TypeOK, MutexOwner, ThrownEnded, Threads
<1>3. \A u \in Threads : pc'[u] = pc[u]
         \/ /\ pc[u] \notin {"run", "done", "idle", "aborted"}
            /\ pc'[u] \notin {"run", "done", "idle", "aborted"}
  BY DEF TypeOK
<1>4. Sleeping' = Sleeping /\ InLoop' = InLoop /\ Thrown' = Thrown
  BY DEF Sleeping, InLoop, Thrown, TypeOK
<1>5. CountersExact'
  BY <1>4 DEF CountersExact
<1> QED BY <1>1, <1>2, <1>3, <1>5, QuietStep

\* It survives a thread that wakes up and takes the mutex again.
LEMMA WakeIInv ==
    ASSUME IInv, NEW t \in Threads, Wake(t)
    PROVE  IInv'
<1> USE DEF IInv, Wake, roundVars
<1>4. InLoop' = InLoop /\ Thrown' = Thrown
  BY DEF InLoop, Thrown, TypeOK
<1>5. t \in Sleeping /\ Sleeping' = Sleeping \ {t}
  BY DEF Sleeping, TypeOK
<1>6. Cardinality(Sleeping') = Cardinality(Sleeping) - 1 /\ Cardinality(Sleeping') \in Nat
  BY <1>5, OneThread, Counted, Sizes
<1>7. CountersExact'
  BY <1>4, <1>6, Counted DEF CountersExact, IdleAfterWait
<1>8. nIdle' \in Nat
  BY <1>4, <1>6, <1>7, Counted DEF CountersExact
<1>1. TypeOK'
  BY <1>8 DEF TypeOK, Threads, WorkerPc, MasterPc
<1>2. MutexOwner' /\ ThrownEnded'
  BY ThreadsAssumption DEF TypeOK, MutexOwner, ThrownEnded, Threads
<1>3. \A u \in Threads : pc'[u] = pc[u]
         \/ /\ pc[u] \notin {"run", "done", "idle", "aborted"}
            /\ pc'[u] \notin {"run", "done", "idle", "aborted"}
  BY DEF TypeOK
<1> QED BY <1>1, <1>2, <1>3, <1>7, QuietStep

\* It survives the interruption of the workers.
LEMMA InterruptIInv ==
    ASSUME IInv, Interrupt
    PROVE  IInv'
<1> USE DEF IInv, Interrupt, queueVars, roundVars
<1>1. TypeOK'
  BY DEF TypeOK
<1>2. MutexOwner' /\ ThrownEnded'
  BY DEF TypeOK, MutexOwner, ThrownEnded, Threads
<1>3. Sleeping' = Sleeping /\ InLoop' = InLoop /\ Thrown' = Thrown
  BY DEF Sleeping, InLoop, Thrown, TypeOK
<1>4. CountersExact'
  BY <1>3 DEF CountersExact
<1> QED BY <1>1, <1>2, <1>4, QuietStep

\* cond.wait throws: the thread leaves the sleepers and Loop(), and nIdle and
\* nTotal go on counting it among the threads that threw.
LEMMA WaitThrowsIInv ==
    ASSUME IInv, NEW t \in Threads, WaitThrows(t)
    PROVE  IInv'
<1> USE DEF IInv, WaitThrows, queueVars
<1>1. TypeOK'
  BY DEF TypeOK, Threads, WorkerPc, MasterPc
<1>2. MutexOwner' /\ ThrownEnded'
  BY ThreadsAssumption DEF TypeOK, MutexOwner, ThrownEnded, Threads, WorkerPc
<1>3. \A u \in Threads : pc'[u] = pc[u]
         \/ /\ pc[u] \notin {"run", "done", "idle", "aborted"}
            /\ pc'[u] \notin {"run", "done", "idle", "aborted"}
  BY DEF TypeOK
<1>4. t \in Sleeping /\ t \in InLoop /\ t \notin Thrown
  BY DEF Sleeping, InLoop, Thrown
<1>5. /\ Sleeping' = Sleeping \ {t}
      /\ InLoop' = InLoop \ {t}
      /\ Thrown' = Thrown \union {t}
  BY DEF Sleeping, InLoop, Thrown, TypeOK
<1>6. /\ Cardinality(Sleeping') = Cardinality(Sleeping) - 1
      /\ Cardinality(InLoop') = Cardinality(InLoop) - 1
      /\ Cardinality(Thrown') = Cardinality(Thrown) + 1
  BY <1>4, <1>5, OneThread, Counted
<1>7. CountersExact'
  BY <1>6, Counted DEF CountersExact
<1> QED BY <1>1, <1>2, <1>3, <1>7, QuietStep

\* Add: the new checks are outstanding and were not before.
LEMMA AddIInv ==
    ASSUME IInv, NEW S \in SUBSET Checks, Add(S)
    PROVE  IInv'
<1> USE DEF IInv, Add
<1>1. PICK W \in WorkersWoken(S) :
         pc' = [t \in Threads |-> IF t \in W THEN "woken" ELSE pc[t]]
  OBVIOUS
<1>2. W \subseteq {w \in Workers : pc[w] = "wait"}
  BY <1>1 DEF WorkersWoken
<1>3. /\ \A t \in Threads : pc'[t] = pc[t] \/ (pc[t] = "wait" /\ pc'[t] = "woken")
      /\ pc'[Master] = "adding"
  BY <1>1, <1>2, ThreadsAssumption DEF Threads
<1>4. Cardinality(S) \in Nat
  BY Sizes
<1>5. TypeOK'
  BY <1>1, <1>2, <1>3, <1>4 DEF TypeOK, Threads, WorkerPc, MasterPc
<1>6. MutexOwner' /\ BatchHolder' /\ ThrownEnded'
  <2>1. MutexOwner'
    BY <1>3 DEF MutexOwner, Threads
  <2>2. BatchHolder'
    BY <1>3 DEF BatchHolder, Threads
  <2>3. ThrownEnded'
    BY <1>3 DEF TypeOK, ThrownEnded, Threads
  <2> QED BY <2>1, <2>2, <2>3
<1>7. Outstanding' = Outstanding \union S /\ Outstanding \cap S = {}
  BY DEF Outstanding, VerdictSoFar
<1>8. WorkAccounted'
  <2>1. nTodo' = Cardinality(Outstanding')
    BY <1>7, SomeChecks, Counted DEF WorkAccounted
  <2>2. \A t \in Threads : batch[t] \cap S = {}
    BY <1>7 DEF Outstanding
  <2> QED BY <2>1, <2>2 DEF WorkAccounted
<1>9. VerdictSoFar'
  <2>1. added' \ Outstanding' \subseteq added \ Outstanding
    BY <1>7
  <2>2. \A t \in Threads : pc'[t] \in {"run", "done"} => pc'[t] = pc[t]
    BY <1>3
  <2> QED BY <1>3, <1>7, <2>1, <2>2 DEF VerdictSoFar
<1>10. RoundClosed' /\ ResultSound'
  BY <1>3 DEF RoundClosed, ResultSound
<1>11. Sleeping' = Sleeping /\ InLoop' = InLoop /\ Thrown' = Thrown
  BY <1>3 DEF Sleeping, InLoop, Thrown
<1>12. CountersExact'
  BY <1>11 DEF CountersExact
<1> QED BY <1>5, <1>6, <1>8, <1>9, <1>10, <1>12

\* Cleanup: the batch of the thread leaves the outstanding checks, and its fOk
\* goes into fAllOk.
LEMMA CleanupIInv ==
    ASSUME IInv, NEW t \in Threads, Cleanup(t)
    PROVE  IInv'
<1> USE DEF IInv, Cleanup, roundVars
<1>1. /\ pc'[t] = "loop"
      /\ \A u \in Threads \ {t} :
            pc'[u] = pc[u] \/ (u = Master /\ pc[u] = "wait" /\ pc'[u] = "woken")
  BY DEF TypeOK, NotifyMaster, Threads
<1>2. pc' \in [Threads -> WorkerPc \union MasterPc]
  BY DEF TypeOK, Threads, WorkerPc, MasterPc
<1>3. batch[t] \in SUBSET Checks /\ batch[t] \subseteq Outstanding
  BY DEF TypeOK, Outstanding
<1>4. Outstanding' = Outstanding \ batch[t]
  BY DEF Outstanding, TypeOK, WorkAccounted
<1>5. /\ Cardinality(Outstanding') = Cardinality(Outstanding) - Cardinality(batch[t])
      /\ Cardinality(Outstanding') \in Nat
  BY <1>3, <1>4, SomeChecks, Counted, Sizes
<1>6. nTodo' = Cardinality(Outstanding')
  BY <1>5 DEF WorkAccounted, TodoAfter
<1>7. TypeOK'
  <2>1. pc'[Master] \in MasterPc /\ \A w \in Workers : pc'[w] \in WorkerPc
    BY <1>1 DEF TypeOK, Threads, WorkerPc, MasterPc
  <2>2. nTodo' \in Nat
    BY <1>5, <1>6
  <2>3. fAllOk' \in BOOLEAN
    BY DEF AllOkAfter, TypeOK
  <2> QED BY <1>2, <2>1, <2>2, <2>3 DEF TypeOK
<1>8. MutexOwner' /\ ThrownEnded'
  BY <1>1, ThreadsAssumption DEF TypeOK, MutexOwner, ThrownEnded, Threads
<1>9. BatchHolder'
  BY <1>1 DEF BatchHolder, TypeOK
<1>10. WorkAccounted'
  BY <1>6 DEF WorkAccounted, TypeOK
<1>11. pc[Master] \notin {"idle", "aborted"}
  BY <1>3 DEF BatchHolder, RoundClosed
<1>12. pc'[Master] \notin {"idle", "aborted"}
  BY <1>1, <1>11 DEF Threads
<1>13. VerdictSoFar'
  <2>1. ASSUME fAllOk', NEW c \in added' \ Outstanding'
        PROVE  verdict'[c]
    <3>1. fAllOk /\ fOk[t]
      BY <2>1 DEF AllOkAfter
    <3>2. CASE c \in batch[t]
      BY <3>1, <3>2 DEF VerdictSoFar
    <3>3. CASE c \notin batch[t]
      BY <1>4, <1>11, <2>1, <3>1, <3>3 DEF VerdictSoFar
    <3> QED BY <3>2, <3>3
  <2>2. ASSUME ~ fAllOk' PROVE \E c \in added' : ~ verdict'[c]
    BY <2>2 DEF AllOkAfter, VerdictSoFar
  <2>3. \A u \in Threads : pc'[u] \in {"run", "done"} =>
           pc'[u] = pc[u] /\ u # t /\ batch'[u] = batch[u]
    BY <1>1 DEF TypeOK
  <2>4. Outstanding' \subseteq added'
    BY <1>4 DEF VerdictSoFar
  <2> QED BY <2>1, <2>2, <2>3, <2>4 DEF VerdictSoFar
<1>14. RoundClosed' /\ ResultSound'
  BY <1>11, <1>12 DEF RoundClosed, ResultSound
<1>15. Sleeping' = Sleeping /\ InLoop' = InLoop /\ Thrown' = Thrown
  BY <1>1 DEF Sleeping, InLoop, Thrown
<1>16. CountersExact'
  BY <1>15 DEF CountersExact
<1> QED BY <1>7, <1>8, <1>9, <1>10, <1>13, <1>14, <1>16

\* Return: nothing is outstanding, so the verdict so far is the final one.
LEMMA ReturnIInv ==
    ASSUME IInv, NEW t \in Threads, Return(t)
    PROVE  IInv'
<1> USE DEF IInv, Return
<1>1. t = Master
  BY DEF MayReturn
<1>2. Outstanding = {} /\ Outstanding' = {}
  <2>1. Cardinality(Outstanding) = 0
    BY DEF MayReturn, WorkAccounted
  <2>2. Outstanding = {}
    BY <2>1, SomeChecks, Counted
  <2> QED BY <2>2 DEF Outstanding
<1>3. InLoop' = InLoop \ {t} /\ t \in InLoop /\ Sleeping' = Sleeping /\ Thrown' = Thrown
  BY DEF InLoop, Sleeping, Thrown, TypeOK
<1>4. Cardinality(InLoop') = Cardinality(InLoop) - 1 /\ Cardinality(InLoop') \in Nat
  BY <1>3, OneThread, Counted, Sizes
<1>5. CountersExact'
  BY <1>3, <1>4, Counted DEF CountersExact
<1>6. nTotal' \in Nat
  BY <1>3, <1>4, <1>5, Counted DEF CountersExact
<1>7. TypeOK'
  BY <1>1, <1>6, ThreadsAssumption DEF TypeOK, Threads, WorkerPc, MasterPc
<1>8. MutexOwner' /\ BatchHolder' /\ ThrownEnded'
  BY <1>1, ThreadsAssumption DEF TypeOK, MutexOwner, BatchHolder, ThrownEnded, Threads
<1>9. WorkAccounted'
  BY <1>2 DEF WorkAccounted
<1>10. fAllOk => \A c \in added : verdict[c]
  BY <1>1, <1>2 DEF VerdictSoFar
<1>11. ~ fAllOk => \E c \in added : ~ verdict[c]
  BY DEF VerdictSoFar
<1>12. VerdictSoFar'
  <2>1. \A u \in Threads : pc'[u] \in {"run", "done"} => pc'[u] = pc[u]
    BY DEF TypeOK
  <2>2. pc'[Master] = "idle"
    BY <1>1 DEF TypeOK, Threads
  <2> QED BY <1>2, <2>1, <2>2 DEF VerdictSoFar
<1>13. RoundClosed' /\ ResultSound'
  BY <1>1, <1>2, <1>10, <1>11 DEF RoundClosed, ResultSound, TypeOK, Threads
<1> QED BY <1>5, <1>7, <1>8, <1>9, <1>12, <1>13

\* TakeBatch: checks move from the queue to a batch and stay outstanding.
LEMMA TakeBatchIInv ==
    ASSUME IInv, NEW t \in Threads, TakeBatch(t)
    PROVE  IInv'
<1> USE DEF IInv, TakeBatch, roundVars
<1>1. PICK S \in SUBSET queue :
         /\ S # {}
         /\ batch' = [batch EXCEPT ![t] = S]
         /\ queue' = queue \ S
  OBVIOUS
<1>2. batch[t] = {} /\ pc[t] = "loop"
  BY DEF BatchHolder
<1>3. pc'[t] = "run" /\ \A u \in Threads \ {t} : pc'[u] = pc[u] /\ batch'[u] = batch[u]
  BY <1>1 DEF TypeOK
<1>4. TypeOK'
  BY <1>1, ThreadsAssumption DEF TypeOK, Threads, WorkerPc, MasterPc
<1>5. MutexOwner' /\ ThrownEnded'
  BY <1>3, ThreadsAssumption DEF TypeOK, MutexOwner, ThrownEnded, Threads
<1>6. BatchHolder'
  BY <1>1, <1>3 DEF BatchHolder, TypeOK
<1>7. Outstanding' = Outstanding
  BY <1>1, <1>2, <1>3 DEF Outstanding, TypeOK
<1>8. WorkAccounted'
  BY <1>1, <1>3, <1>7 DEF WorkAccounted, TypeOK
<1>9. pc'[Master] \in {"idle", "aborted"} <=> pc[Master] \in {"idle", "aborted"}
  BY <1>2, <1>3 DEF Threads
<1>10. VerdictSoFar'
  <2>1. \A u \in Threads : pc'[u] = "done" => u # t /\ pc[u] = "done"
    BY <1>3
  <2>2. \A u \in Threads : pc'[u] \in {"run", "done"} => u = t \/ pc[u] = pc'[u]
    BY <1>3
  <2>3. fOk'[t] = fAllOk /\ \A u \in Threads \ {t} : fOk'[u] = fOk[u]
    BY DEF TypeOK
  <2>4. \A u \in Threads : pc'[u] = "done" =>
          (fOk'[u] => \A c \in batch'[u] : verdict'[c])
    BY <1>3, <2>1, <2>3 DEF VerdictSoFar
  <2>5. \A u \in Threads : pc'[u] \in {"run", "done"} =>
          (~ fOk'[u] => \E c \in added' : ~ verdict'[c])
    BY <2>2, <2>3 DEF VerdictSoFar
  <2> QED BY <1>7, <1>9, <2>4, <2>5 DEF VerdictSoFar
<1>11. RoundClosed' /\ ResultSound'
  BY <1>7, <1>9 DEF RoundClosed, ResultSound
<1>12. Sleeping' = Sleeping /\ InLoop' = InLoop /\ Thrown' = Thrown
  BY <1>2, <1>3 DEF Sleeping, InLoop, Thrown
<1>13. CountersExact'
  BY <1>12 DEF CountersExact
<1> QED BY <1>4, <1>5, <1>6, <1>8, <1>10, <1>11, <1>13

\* Execute: the local fOk becomes the verdict on the batch.
LEMMA ExecuteIInv ==
    ASSUME IInv, NEW t \in Threads, Execute(t)
    PROVE  IInv'
<1> USE DEF IInv, Execute, queueVars, roundVars
<1>1. pc'[t] = "done" /\ \A u \in Threads \ {t} : pc'[u] = pc[u] /\ fOk'[u] = fOk[u]
  BY DEF TypeOK
<1>2. TypeOK'
  BY DEF TypeOK, Threads, WorkerPc, MasterPc
<1>3. MutexOwner' /\ BatchHolder' /\ ThrownEnded'
  BY <1>1 DEF TypeOK, MutexOwner, BatchHolder, ThrownEnded, Threads
<1>4. Outstanding' = Outstanding /\ batch[t] \subseteq Outstanding
  BY DEF Outstanding
<1>5. WorkAccounted'
  BY <1>4 DEF WorkAccounted
<1>6. pc'[Master] \in {"idle", "aborted"} <=> pc[Master] \in {"idle", "aborted"}
  BY <1>1 DEF Threads
<1>7. VerdictSoFar'
  <2>1. fOk'[t] = (fOk[t] /\ \A c \in batch[t] : verdict[c])
    BY DEF TypeOK
  <2>2. ~ fOk'[t] => \E c \in added' : ~ verdict'[c]
    BY <1>4, <2>1 DEF VerdictSoFar
  <2>3. fOk'[t] => \A c \in batch'[t] : verdict'[c]
    BY <2>1
  <2>4. \A u \in Threads : pc'[u] = "done" =>
          (fOk'[u] => \A c \in batch'[u] : verdict'[c])
    BY <1>1, <2>3 DEF VerdictSoFar
  <2>5. \A u \in Threads : pc'[u] \in {"run", "done"} =>
          (~ fOk'[u] => \E c \in added' : ~ verdict'[c])
    BY <1>1, <2>2 DEF VerdictSoFar
  <2> QED BY <1>4, <1>6, <2>4, <2>5 DEF VerdictSoFar
<1>8. RoundClosed' /\ ResultSound'
  BY <1>4, <1>6 DEF RoundClosed, ResultSound
<1>9. Sleeping' = Sleeping /\ InLoop' = InLoop /\ Thrown' = Thrown
  BY <1>1 DEF Sleeping, InLoop, Thrown
<1>10. CountersExact'
  BY <1>9 DEF CountersExact
<1> QED BY <1>2, <1>3, <1>5, <1>7, <1>8, <1>10

-----------------------------------------------------------------------------
(* The theorems.                                                           *)

\* Every step of CheckQueue, and every stuttering step, keeps the invariant.
LEMMA NextIInv == IInv /\ [Next]_vars => IInv'
<1> SUFFICES ASSUME IInv, [Next]_vars PROVE IInv'
  OBVIOUS
<1>1. CASE MasterStep
  BY <1>1, ConstructIInv, AddIInv, CallWaitIInv DEF MasterStep
<1>2. CASE Interrupt
  BY <1>2, InterruptIInv
<1>3. ASSUME NEW t \in Threads, LoopStep(t) PROVE IInv'
  BY <1>3, EnterFirstIInv, CleanupIInv, ReturnIInv, SleepIInv, WakeIInv,
     TakeBatchIInv, ExecuteIInv, WaitThrowsIInv DEF LoopStep
<1>4. ASSUME NEW t \in Threads, SpuriousWake(t) PROVE IInv'
  BY <1>4, SpuriousWakeIInv
<1>5. CASE UNCHANGED vars
  <2> USE <1>5 DEF IInv, vars
  <2>1. Outstanding' = Outstanding
    BY DEF Outstanding
  <2>2. Sleeping' = Sleeping /\ InLoop' = InLoop /\ Thrown' = Thrown
    BY DEF Sleeping, InLoop, Thrown
  <2>3. TypeOK' /\ MutexOwner' /\ BatchHolder' /\ ThrownEnded'
    BY DEF TypeOK, MutexOwner, BatchHolder, ThrownEnded
  <2>4. WorkAccounted' /\ VerdictSoFar' /\ RoundClosed' /\ ResultSound'
    BY <2>1 DEF WorkAccounted, VerdictSoFar, RoundClosed, ResultSound
  <2>5. CountersExact'
    BY <2>2 DEF CountersExact
  <2> QED BY <2>3, <2>4, <2>5
<1> QED BY <1>1, <1>2, <1>3, <1>4, <1>5 DEF Next

\* The inductive invariant holds in every reachable state of the pool.
THEOREM IInvAlways == Spec => []IInv
BY InitIInv, NextIInv, PTL DEF Spec

\* The variables of CCheckQueue keep their types; in particular the unsigned
\* nTodo never wraps below zero and nIdle never goes negative.
THEOREM QueueTypeCorrect == Spec => []TypeOK
<1>1. IInv => TypeOK
  BY DEF IInv
<1> QED BY <1>1, IInvAlways, PTL

\* nTodo counts the queue and every batch, whatever the interleaving.
THEOREM QueueAccounted == Spec => []WorkAccounted
<1>1. IInv => WorkAccounted
  BY DEF IInv
<1> QED BY <1>1, IInvAlways, PTL

\* Wait() returns true exactly when every check of the block is true.
THEOREM WaitResultSound == Spec => []ResultSound
<1>1. IInv => ResultSound
  BY DEF IInv
<1> QED BY <1>1, IInvAlways, PTL

\* No check is queued, held or unaccounted once ConnectBlock has returned.
THEOREM RoundLeavesNothing == Spec => []NoCheckOutlivesRound
<1>1. IInv => NoCheckOutlivesRound
  BY FS_EmptySet DEF IInv, RoundClosed, NoCheckOutlivesRound, WorkAccounted
<1> QED BY <1>1, IInvAlways, PTL

\* nIdle and nTotal are exact, interrupted threads included.
THEOREM QueueCountersExact == Spec => []CountersExact
<1>1. IInv => CountersExact
  BY DEF IInv
<1> QED BY <1>1, IInvAlways, PTL

\* A step of a thread inside Loop() that does not return is invisible.
LEMMA LoopInvisible ==
    ASSUME IInv, NEW t \in Threads,
           \/ EnterFirst(t) \/ Cleanup(t) \/ Sleep(t) \/ Wake(t)
           \/ TakeBatch(t) \/ Execute(t) \/ WaitThrows(t) \/ SpuriousWake(t)
    PROVE  UNCHANGED Round!roundVars
<1> DEFINE Waiting == {"start", "loop", "wait", "woken", "run", "done"}
<1>1. UNCHANGED <<added, verdict, result>>
  BY DEF EnterFirst, Cleanup, Sleep, Wake, TakeBatch, Execute, WaitThrows,
         SpuriousWake, roundVars
<1>2. pc'[Master] = pc[Master] \/ (pc[Master] \in Waiting /\ pc'[Master] \in Waiting)
  BY DEF IInv, TypeOK, Threads, EnterFirst, Cleanup, NotifyMaster, Sleep, Wake,
         TakeBatch, Execute, WaitThrows, SpuriousWake
<1>3. RoundPhase' = RoundPhase
  BY <1>2 DEF RoundPhase
<1> QED BY <1>1, <1>3 DEF Round!roundVars

\* Every step of the pool opens, extends, waits for or answers a round, or is
\* invisible: the pool implements module CheckRound, fairness apart.
THEOREM PoolImplementsRound == Spec => RoundSteps
<1>1. Init => Round!Init
  BY DEF Init, Round!Init, RoundPhase, Threads
<1>2. ASSUME IInv, [Next]_vars PROVE [Round!Next]_(Round!roundVars)
  <2> USE <1>2 DEF IInv
  <2>1. CASE Construct
    <3>1. CASE ControlAsserts
      <4>1. RoundPhase = "idle" /\ RoundPhase' = "adding"
        BY <2>1, <3>1 DEF Construct, RoundPhase, TypeOK, Threads
      <4> QED BY <2>1, <3>1, <4>1 DEF Construct, Round!Open, Round!Next
    <3>2. CASE ~ ControlAsserts
      <4>1. RoundPhase = "idle" /\ RoundPhase' = "idle"
        BY <2>1, <3>2 DEF Construct, RoundPhase, TypeOK, Threads
      <4> QED BY <2>1, <3>2, <4>1 DEF Construct, roundVars, Round!roundVars
    <3> QED BY <3>1, <3>2
  <2>2. ASSUME NEW S \in SUBSET Checks, Add(S) PROVE Round!Next
    <3>1. pc'[Master] = "adding"
      BY <2>2, ThreadsAssumption DEF Add, WorkersWoken, Threads
    <3>2. RoundPhase = "adding" /\ RoundPhase' = "adding"
      BY <2>2, <3>1 DEF Add, RoundPhase
    <3> QED BY <2>2, <3>2 DEF Add, Round!Add, Round!Next
  <2>3. ASSUME NEW drop \in BOOLEAN, CallWait(drop) PROVE Round!Next
    <3>1. RoundPhase = "adding" /\ RoundPhase' = "waiting"
      BY <2>3 DEF CallWait, RoundPhase, TypeOK, Threads
    <3> QED BY <2>3, <3>1 DEF CallWait, Round!StartWait, Round!Next
  <2>4. CASE Interrupt
    <3>1. RoundPhase' = RoundPhase
      BY <2>4 DEF Interrupt, RoundPhase
    <3> QED BY <2>4, <3>1 DEF Interrupt, roundVars, Round!roundVars
  <2>5. ASSUME NEW t \in Threads, Return(t) PROVE Round!Next
    <3>1. RoundPhase = "waiting" /\ RoundPhase' = "idle"
      BY <2>5 DEF Return, MayReturn, RoundPhase, TypeOK, Threads
    <3>2. pc[Master] = "loop" /\ Outstanding = {}
      BY <2>5, SomeChecks, Counted DEF Return, MayReturn, WorkAccounted
    <3>3. fAllOk => \A c \in added : verdict[c]
      BY <3>2 DEF VerdictSoFar
    <3>4. ~ fAllOk => \E c \in added : ~ verdict[c]
      BY DEF VerdictSoFar
    <3>5. result' \in {IF Round!AllTrue(added) THEN "ok" ELSE "bad", "dropped"}
      BY <2>5, <3>3, <3>4 DEF Return, Round!AllTrue
    <3> QED BY <2>5, <3>1, <3>5 DEF Return, Round!Answer, Round!Next
  <2>6. ASSUME NEW t \in Threads, LoopStep(t) PROVE [Round!Next]_(Round!roundVars)
    BY <2>5, <2>6, LoopInvisible DEF LoopStep
  <2>7. ASSUME NEW t \in Threads, SpuriousWake(t) PROVE UNCHANGED Round!roundVars
    BY <2>7, LoopInvisible
  <2>8. CASE UNCHANGED vars
    BY <2>8 DEF vars, RoundPhase, Round!roundVars
  <2> QED BY <2>1, <2>2, <2>3, <2>4, <2>6, <2>7, <2>8 DEF Next, MasterStep
<1> QED BY <1>1, <1>2, IInvAlways, PTL DEF Spec, RoundSteps
=============================================================================
