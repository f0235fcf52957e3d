----------------------------- MODULE CheckQueue -----------------------------
(***************************************************************************)
(* CCheckQueue and CCheckQueueControl (checkqueue.h): the pool of script   *)
(* verification threads that ConnectBlock shares with its own thread, the  *)
(* master.  One critical section of Loop() is two or three steps here,     *)
(* because the constructor of the control reads the counters without       *)
(* taking the mutex and so sees the states in the middle of one.           *)
(***************************************************************************)
EXTENDS Integers, FiniteSets

CONSTANTS
    Workers,        \* the threads that run ThreadScriptCheck
    Master,         \* the thread that holds cs_main and connects a block
    Checks,         \* the CScriptCheck objects a block may need
    nBatchSize,     \* CCheckQueue(nBatchSizeIn); 128 in main.cpp
    NoThread        \* the mutex is free

Threads == Workers \union {Master}

ASSUME ThreadsAssumption ==
    /\ IsFiniteSet(Workers)
    /\ Master \notin Workers
    /\ NoThread \notin Workers \union {Master}
ASSUME ChecksAssumption == IsFiniteSet(Checks)
ASSUME BatchAssumption == nBatchSize \in Nat \ {0}

VARIABLES
    mutex,      \* the thread inside the critical section, or NoThread
    queue,      \* a set: "the order of booleans doesn't matter"
    nIdle, nTotal, fAllOk, nTodo,
    batch,      \* vChecks of each thread, kept until nNow is subtracted
    fOk,        \* the local fOk of each thread
    pc,         \* where each thread is
    intr,       \* boost interruption: "no", "pending" or "thrown"
    leaving,    \* the master is in ~CCheckQueueControl: the result is dropped
    added, verdict, result  \* the round seen from outside (module CheckRound)

queueVars == <<queue, nIdle, nTotal, fAllOk, nTodo>>
roundVars == <<leaving, added, verdict, result>>
vars == <<mutex, queue, nIdle, nTotal, fAllOk, nTodo, batch, fOk, pc, intr,
          leaving, added, verdict, result>>

WorkerPc == {"start", "loop", "wait", "woken", "run", "done", "dead"}
MasterPc == {"idle", "adding", "aborted",
             "start", "loop", "wait", "woken", "run", "done"}

TypeOK ==
    /\ mutex \in Threads \union {NoThread}
    /\ queue \in SUBSET Checks
    /\ nIdle \in Nat /\ nTotal \in Nat /\ nTodo \in Nat
    /\ fAllOk \in BOOLEAN
    /\ batch \in [Threads -> SUBSET Checks]
    /\ fOk \in [Threads -> BOOLEAN]
    /\ pc \in [Threads -> WorkerPc \union MasterPc]
    /\ pc[Master] \in MasterPc
    /\ \A w \in Workers : pc[w] \in WorkerPc
    /\ intr \in [Threads -> {"no", "pending", "thrown"}]
    /\ leaving \in BOOLEAN
    /\ added \in SUBSET Checks
    /\ verdict \in [Checks -> BOOLEAN]
    /\ result \in {"none", "ok", "bad", "dropped"}

Init ==
    /\ mutex = NoThread
    /\ queue = {}
    /\ nIdle = 0 /\ nTotal = 0 /\ nTodo = 0
    /\ fAllOk = TRUE
    /\ batch = [t \in Threads |-> {}]
    /\ fOk = [t \in Threads |-> TRUE]
    /\ pc = [t \in Threads |-> IF t = Master THEN "idle" ELSE "start"]
    /\ intr = [t \in Threads |-> "no"]
    /\ leaving = FALSE
    /\ added = {}
    /\ verdict \in [Checks -> BOOLEAN]
    /\ result = "none"

\* A failed assert ends the process: no thread takes another step.
Running == pc[Master] # "aborted"

-----------------------------------------------------------------------------
(* The master's side: CCheckQueueControl.                                  *)

\* "passed queue is supposed to be unused": the three asserts, read unlocked.
ControlAsserts == nTotal = nIdle /\ nTodo = 0 /\ fAllOk

Construct ==
    /\ pc[Master] = "idle"
    /\ IF ControlAsserts
         THEN /\ pc' = [pc EXCEPT ![Master] = "adding"]
              /\ added' = {}
              /\ verdict' \in [Checks -> BOOLEAN]
              /\ result' = "none"
              /\ leaving' = FALSE
         ELSE /\ pc' = [pc EXCEPT ![Master] = "aborted"]
              /\ UNCHANGED roundVars
    /\ UNCHANGED <<mutex, queueVars, batch, fOk, intr>>

\* condWorker.notify_one() for one check, notify_all() for more.
WorkersWoken(S) ==
    LET sleeping == {w \in Workers : pc[w] = "wait"}
    IN  IF Cardinality(S) = 1 /\ sleeping # {}
          THEN {{w} : w \in sleeping}
          ELSE {sleeping}

\* Add(vChecks); an empty vector changes nothing and is left out.
Add(S) ==
    /\ pc[Master] = "adding"
    /\ mutex = NoThread
    /\ S # {}
    /\ S \subseteq Checks \ added
    /\ queue' = queue \union S
    /\ nTodo' = nTodo + Cardinality(S)
    /\ added' = added \union S
    /\ \E W \in WorkersWoken(S) :
          pc' = [t \in Threads |-> IF t \in W THEN "woken" ELSE pc[t]]
    /\ UNCHANGED <<mutex, nIdle, nTotal, fAllOk, batch, fOk, intr,
                   leaving, verdict, result>>

\* control.Wait() at the end of the block's transactions, or an early return
\* of ConnectBlock (drop) whose control is destroyed with fDone = false.
CallWaitUnlessDropped(drop) ==
    /\ pc[Master] = "adding"
    /\ pc' = [pc EXCEPT ![Master] = IF drop THEN "idle" ELSE "start"]
    /\ leaving' = drop
    /\ UNCHANGED <<mutex, queueVars, batch, fOk, intr, added, verdict, result>>
CallWait(drop) ==
    /\ pc[Master] = "adding"
    /\ pc' = [pc EXCEPT ![Master] = "start"]
    /\ leaving' = drop
    /\ UNCHANGED <<mutex, queueVars, batch, fOk, intr, added, verdict, result>>

-----------------------------------------------------------------------------
(* Loop(), run by every worker and, inside Wait(), by the master.          *)

\* The parts of Loop() that are easy to get wrong, each preceded by the slip
\* it guards against.

\* if ((fMaster || fQuit) && nTodo == 0): fQuit is never set, so a worker
\* never leaves this way.
MayReturnIgnoringBatches(t) == t = Master
MayReturn(t) == t = Master /\ nTodo = 0

\* fAllOk &= fOk
AllOkOverwritten(t) == fOk[t]
AllOkAfter(t) == fAllOk /\ fOk[t]

\* nTodo -= nNow
TodoAfterSuccess(t) == IF fOk[t] THEN nTodo - Cardinality(batch[t]) ELSE nTodo
TodoAfter(t) == nTodo - Cardinality(batch[t])

\* if (nTodo == 0 && !fMaster) condMaster.notify_one()
NotifyMasterNever(t) == FALSE
NotifyMaster(t) == TodoAfter(t) = 0 /\ t # Master /\ pc[Master] = "wait"

\* nIdle++ before cond.wait, nIdle-- after it
IdleNotCounted == nIdle
IdleBeforeWait == nIdle + 1
IdleNotReleased == nIdle
IdleAfterWait == nIdle - 1

\* First iteration: nNow is 0.
EnterFirst(t) ==
    /\ pc[t] = "start"
    /\ mutex = NoThread
    /\ mutex' = t
    /\ nTotal' = nTotal + 1
    /\ pc' = [pc EXCEPT ![t] = "loop"]
    /\ UNCHANGED <<queue, nIdle, fAllOk, nTodo, batch, fOk, intr, roundVars>>

\* Clean-up of the previous iteration; the last element wakes the master.
Cleanup(t) ==
    /\ pc[t] = "done"
    /\ mutex = NoThread
    /\ mutex' = t
    /\ fAllOk' = AllOkAfter(t)
    /\ nTodo' = TodoAfter(t)
    /\ batch' = [batch EXCEPT ![t] = {}]
    /\ pc' = IF NotifyMaster(t)
               THEN [pc EXCEPT ![t] = "loop", ![Master] = "woken"]
               ELSE [pc EXCEPT ![t] = "loop"]
    /\ UNCHANGED <<queue, nIdle, nTotal, fOk, intr, roundVars>>

\* The master finds the queue empty and nothing outstanding: Wait() returns.
Return(t) ==
    /\ pc[t] = "loop"
    /\ queue = {}
    /\ MayReturn(t)
    /\ mutex' = NoThread
    /\ nTotal' = nTotal - 1
    /\ fAllOk' = TRUE
    /\ result' = IF leaving THEN "dropped" ELSE IF fAllOk THEN "ok" ELSE "bad"
    /\ pc' = [pc EXCEPT ![t] = "idle"]
    /\ UNCHANGED <<queue, nIdle, nTodo, batch, fOk, intr, leaving, added, verdict>>

\* nIdle++; cond.wait(lock) releases the mutex.
Sleep(t) ==
    /\ pc[t] = "loop"
    /\ queue = {}
    /\ ~ MayReturn(t)
    /\ nIdle' = IdleBeforeWait
    /\ mutex' = NoThread
    /\ pc' = [pc EXCEPT ![t] = "wait"]
    /\ UNCHANGED <<queue, nTotal, fAllOk, nTodo, batch, fOk, intr, roundVars>>

\* cond.wait may return without a notification.
SpuriousWake(t) ==
    /\ Running
    /\ pc[t] = "wait"
    /\ pc' = [pc EXCEPT ![t] = "woken"]
    /\ UNCHANGED <<mutex, queueVars, batch, fOk, intr, roundVars>>

\* cond.wait returns with the mutex taken again; nIdle--.
Wake(t) ==
    /\ pc[t] = "woken"
    /\ mutex = NoThread
    /\ intr[t] # "pending"
    /\ mutex' = t
    /\ nIdle' = IdleAfterWait
    /\ pc' = [pc EXCEPT ![t] = "loop"]
    /\ UNCHANGED <<queue, nTotal, fAllOk, nTodo, batch, fOk, intr, roundVars>>

\* max(1, min(nBatchSize, queue.size() / (nTotal + nIdle + 1)))
BatchLen ==
    LET share == Cardinality(queue) \div (nTotal + nIdle + 1)
        capped == IF share < nBatchSize THEN share ELSE nBatchSize
    IN  IF capped < 1 THEN 1 ELSE capped

TakeBatch(t) ==
    /\ pc[t] = "loop"
    /\ \E S \in SUBSET queue :
          /\ S # {}
          /\ Cardinality(S) = BatchLen
          /\ batch' = [batch EXCEPT ![t] = S]
          /\ queue' = queue \ S
    /\ fOk' = [fOk EXCEPT ![t] = fAllOk]
    /\ mutex' = NoThread
    /\ pc' = [pc EXCEPT ![t] = "run"]
    /\ UNCHANGED <<nIdle, nTotal, fAllOk, nTodo, intr, roundVars>>

\* Outside the mutex: the batch is executed up to its first failure.
Execute(t) ==
    /\ pc[t] = "run"
    /\ fOk' = [fOk EXCEPT ![t] = fOk[t] /\ \A c \in batch[t] : verdict[c]]
    /\ pc' = [pc EXCEPT ![t] = "done"]
    /\ UNCHANGED <<mutex, queueVars, batch, intr, roundVars>>

-----------------------------------------------------------------------------
(* Shutdown: threadGroup.interrupt_all().                                  *)

Interrupt ==
    /\ Running
    /\ \A t \in Threads : intr[t] = "no"
    /\ intr' = [t \in Threads |-> "pending"]
    /\ UNCHANGED <<mutex, queueVars, batch, fOk, pc, roundVars>>

\* cond.wait throws thread_interrupted (with the mutex taken, which unwinding
\* releases): nIdle and nTotal keep counting the thread.  A worker ends; the
\* master unwinds into the destructor of its control, which waits again.
WaitThrows(t) ==
    /\ pc[t] \in {"wait", "woken"}
    /\ mutex = NoThread
    /\ intr[t] = "pending"
    /\ intr' = [intr EXCEPT ![t] = "thrown"]
    /\ pc' = [pc EXCEPT ![t] = IF t = Master THEN "start" ELSE "dead"]
    /\ leaving' = (leaving \/ t = Master)
    /\ UNCHANGED <<mutex, queueVars, batch, fOk, added, verdict, result>>

-----------------------------------------------------------------------------
LoopStep(t) ==
    /\ Running
    /\ \/ EnterFirst(t) \/ Cleanup(t) \/ Return(t) \/ Sleep(t) \/ Wake(t)
       \/ TakeBatch(t) \/ Execute(t) \/ WaitThrows(t)

MasterStep ==
    \/ Construct
    \/ \E S \in SUBSET Checks : Add(S)
    \/ \E drop \in BOOLEAN : CallWait(drop)

Next ==
    \/ MasterStep
    \/ Interrupt
    \/ \E t \in Threads : LoopStep(t) \/ SpuriousWake(t)

\* Every thread that can step for ever in the end does, and condition
\* variables do not wake up for nothing for ever.  Nothing is said of which
\* thread gets the mutex, nor that a block ever starts to be connected.
Fairness ==
    /\ \A t \in Threads : WF_vars(LoopStep(t))
    /\ <>[][~ \E t \in Threads : SpuriousWake(t)]_vars

Spec == Init /\ [][Next]_vars
FairSpec == Spec /\ Fairness

-----------------------------------------------------------------------------
(* Properties.                                                             *)

\* The checks that were added and that no thread has accounted for yet.
Outstanding == queue \union UNION {batch[t] : t \in Threads}

\* nTodo is the "number of verifications that haven't completed yet",
\* including "elements that are not anymore in queue, but still in worker's
\* own batches", and no check is in two places.
WorkAccounted ==
    /\ nTodo = Cardinality(Outstanding)
    /\ \A t \in Threads : batch[t] \cap queue = {}
    /\ \A t, u \in Threads : t # u => batch[t] \cap batch[u] = {}

\* What Wait() returns is the conjunction of every check of the round,
\* whichever threads executed them and whatever was interrupted.
ResultSound ==
    /\ result = "ok" => \A c \in added : verdict[c]
    /\ result = "bad" => \E c \in added : ~ verdict[c]

\* ConnectBlock does not return, by any path, while a thread still holds a
\* check: each one points into the block and the coins of that call.
NoCheckOutlivesRound ==
    pc[Master] = "idle" => Outstanding = {} /\ fAllOk /\ nTodo = 0

Sleeping == {t \in Threads : pc[t] \in {"wait", "woken"}}
InLoop == {t \in Threads : pc[t] \in {"loop", "wait", "woken", "run", "done"}}
Thrown == {t \in Threads : intr[t] = "thrown"}

\* nIdle and nTotal count the sleepers and the threads inside Loop(), plus
\* one for every thread that cond.wait threw out of Loop(), so the divisor of
\* the batch size is right and nTotal - nIdle is the number of busy threads.
CountersExact ==
    /\ nIdle = Cardinality(Sleeping) + Cardinality(Thrown)
    /\ nTotal = Cardinality(InLoop) + Cardinality(Thrown)

\* No lost wake-up: a Wait() that was called returns.
WaitReturns == pc[Master] = "start" ~> pc[Master] = "idle"

RoundPhase ==
    CASE pc[Master] \in {"idle", "aborted"} -> "idle"
      [] pc[Master] = "adding" -> "adding"
      [] OTHER -> "waiting"

Round == INSTANCE CheckRound WITH phase <- RoundPhase

\* The thread pool implements the one-step round of module CheckRound.
RoundRefined == Round!Spec

\* Its safety part: every step of the pool is a step of the round or none.
RoundSteps == Round!Init /\ [][Round!Next]_(Round!roundVars)
=============================================================================
