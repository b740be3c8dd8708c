----------------------------- MODULE CheckQueue -----------------------------
(***************************************************************************)
(* The script check queue (src/checkqueue.h): while a block is connected a *)
(* master thread adds batches of checks, worker threads execute them, and  *)
(* Wait() makes the master one of the workers until all are done.  Every   *)
(* action is one critical section of the mutex, or the work between two    *)
(* of them.  A check is its result.                                        *)
(***************************************************************************)
EXTENDS Integers, Sequences, FiniteSets, FiniteSetsExt

CONSTANTS
  Workers, Master,
  nBatchSize,
  MaxChecks,       \* bound: checks outstanding at once
  MaxInterrupts    \* bound: how often interrupt_all() hits the master

Threads == Workers \cup {Master}

ASSUME ThreadsAssumption ==
  /\ Master \notin Workers /\ IsFiniteSet(Workers)
  /\ nBatchSize \in Nat \ {0} /\ MaxChecks \in Nat /\ MaxInterrupts \in Nat

VARIABLES
  queue,           \* checks that nobody has taken; used as a stack
  nIdle, nTotal, fAllOk, nTodo,
  pc,              \* of the master: "out", "adding" and then as a worker:
                   \* "lock", "waiting", "woken", "work"; an interrupted
                   \* worker is "dead"
  vChecks, nNow, fOk,    \* local to Loop
  interrupted,     \* threads with a pending boost interruption
  nInterrupts,     \* how often the master was interrupted
  allValid,        \* (history) every check of this block is valid
  fRet             \* (history) what the last Wait() returned

counters == <<nIdle, nTotal, nTodo>>
locals == <<vChecks, nNow, fOk>>
history == <<allValid, fRet>>
vars == <<queue, counters, fAllOk, pc, locals, interrupted, nInterrupts, history>>

\* Mutant: a thread takes all there is.
WholeQueue(total, idle) == Len(queue)

\* max(1, min(nBatchSize, queue.size() / (nTotal + nIdle + 1)))
BatchSize(total, idle) ==
  Max({1, Min({nBatchSize, Len(queue) \div (total + idle + 1)})})

-----------------------------------------------------------------------------
(* The master between two blocks and in ConnectBlock *)

\* IsIdle, asserted by the constructor of CCheckQueueControl.
IsIdle == nTotal = nIdle /\ nTodo = 0 /\ fAllOk

NewControl ==
  /\ pc[Master] = "out" /\ IsIdle
  /\ pc' = [pc EXCEPT ![Master] = "adding"]
  /\ allValid' = TRUE
  /\ UNCHANGED <<queue, counters, fAllOk, locals, interrupted, nInterrupts, fRet>>

\* notify_one wakes one of the threads that wait, notify_all every one.
Woken(p, W) == [t \in Threads |-> IF t \in W THEN "woken" ELSE p[t]]
WaitingWorkers == {w \in Workers : pc[w] = "waiting"}
Notified(n) ==
  CASE n = 0 -> {{}}
    [] n = 1 -> IF WaitingWorkers = {} THEN {{}} ELSE {{w} : w \in WaitingWorkers}
    [] n > 1 -> {WaitingWorkers}

Add(checks) ==
  /\ pc[Master] = "adding" /\ nTodo + Len(checks) <= MaxChecks
  /\ queue' = queue \o checks /\ nTodo' = nTodo + Len(checks)
  /\ \E W \in Notified(Len(checks)) : pc' = Woken(pc, W)
  /\ allValid' = (allValid /\ \A i \in DOMAIN checks : checks[i])
  /\ UNCHANGED <<nIdle, nTotal, fAllOk, locals, interrupted, nInterrupts, fRet>>

\* control.Wait(), or the destructor of a control that ConnectBlock abandons.
Wait ==
  /\ pc[Master] = "adding"
  /\ pc' = [pc EXCEPT ![Master] = "lock"]
  /\ nNow' = [nNow EXCEPT ![Master] = 0] /\ fOk' = [fOk EXCEPT ![Master] = TRUE]
  /\ UNCHANGED <<queue, counters, fAllOk, vChecks, interrupted, nInterrupts, history>>

-----------------------------------------------------------------------------
(* Loop *)

\* Mutant: the status of this block is left to the next.
ReturnKeepsStatus(t, total, todo, ok, p) ==
  /\ queue = <<>> /\ t = Master /\ todo = 0
  /\ nTotal' = total - 1 /\ nTodo' = todo /\ fAllOk' = ok
  /\ pc' = [p EXCEPT ![t] = "out"]
  /\ fRet' = ok
  /\ UNCHANGED <<queue, locals>>

\* The part of the critical section from "while (queue.empty())" on, where the
\* part before it has left these values.
Return(t, total, todo, ok, p) ==
  /\ queue = <<>> /\ t = Master /\ todo = 0
  /\ nTotal' = total - 1 /\ nTodo' = todo /\ fAllOk' = TRUE
  /\ pc' = [p EXCEPT ![t] = "out"]
  /\ fRet' = ok
  /\ UNCHANGED <<queue, locals>>

Sleep(t, total, idle, todo, ok, p) ==
  /\ queue = <<>> /\ (t = Master => todo # 0)
  /\ nTotal' = total /\ nIdle' = idle + 1 /\ nTodo' = todo /\ fAllOk' = ok
  /\ pc' = [p EXCEPT ![t] = "waiting"]
  /\ UNCHANGED <<queue, locals, fRet>>

Take(t, total, idle, todo, ok, p) ==
  LET n == BatchSize(total, idle) IN
  /\ queue # <<>>
  /\ nTotal' = total /\ nIdle' = idle /\ nTodo' = todo /\ fAllOk' = ok
  /\ vChecks' = [vChecks EXCEPT ![t] = SubSeq(queue, Len(queue) - n + 1, Len(queue))]
  /\ queue' = SubSeq(queue, 1, Len(queue) - n)
  /\ nNow' = [nNow EXCEPT ![t] = n] /\ fOk' = [fOk EXCEPT ![t] = ok]
  /\ pc' = [p EXCEPT ![t] = "work"]
  /\ UNCHANGED fRet

LoopBody(t, total, idle, todo, ok, p) ==
  /\ \/ Return(t, total, todo, ok, p) /\ nIdle' = idle
     \/ Sleep(t, total, idle, todo, ok, p)
     \/ Take(t, total, idle, todo, ok, p)
  /\ UNCHANGED <<interrupted, nInterrupts, allValid>>

\* Mutant: the result of the last batch replaces the earlier ones.
OkWithLastBatch(t) == IF nNow[t] > 0 THEN fOk[t] ELSE fAllOk

\* Mutant: the master is never told.
NotifyNobody(t) == pc

\* Mutant: a batch is forgotten when its checks have failed.
CountValidOnly(t) == IF fOk[t] THEN nTodo - nNow[t] ELSE nTodo

\* nTodo -= nNow
TodoAfterBatch(t) == nTodo - nNow[t]

\* fAllOk &= fOk
OkWithBatch(t) == fAllOk /\ (nNow[t] > 0 => fOk[t])

\* The worker that has finished the last check wakes the master.
NotifyMaster(t) ==
  IF nNow[t] > 0 /\ nTodo = nNow[t] /\ t # Master /\ pc[Master] = "waiting"
  THEN [pc EXCEPT ![Master] = "woken"] ELSE pc

\* The first iteration counts the thread, later ones clean up the last batch.
Lock(t) ==
  /\ pc[t] = "lock"
  /\ LoopBody(t, IF nNow[t] = 0 THEN nTotal + 1 ELSE nTotal, nIdle,
              TodoAfterBatch(t), OkWithBatch(t), NotifyMaster(t))

\* Mutant: the thread is still counted as idle.
WakeUpIdle(t) ==
  /\ pc[t] = "woken" /\ t \notin interrupted
  /\ LoopBody(t, nTotal, nIdle, nTodo, fAllOk, pc)

\* cond.wait returns.
WakeUp(t) ==
  /\ pc[t] = "woken" /\ t \notin interrupted
  /\ LoopBody(t, nTotal, nIdle - 1, nTodo, fAllOk, pc)

\* Execute the batch; after a failure the rest is skipped.
Execute(t) ==
  /\ pc[t] = "work"
  /\ fOk' = [fOk EXCEPT ![t] = @ /\ \A i \in DOMAIN vChecks[t] : vChecks[t][i]]
  /\ vChecks' = [vChecks EXCEPT ![t] = <<>>]
  /\ pc' = [pc EXCEPT ![t] = "lock"]
  /\ UNCHANGED <<queue, counters, fAllOk, nNow, interrupted, nInterrupts, history>>

-----------------------------------------------------------------------------
(* Wake-ups and interruptions *)

SpuriousWakeUp(t) ==
  /\ pc[t] = "waiting"
  /\ pc' = [pc EXCEPT ![t] = "woken"]
  /\ UNCHANGED <<queue, counters, fAllOk, locals, interrupted, nInterrupts, history>>

\* threadGroup.interrupt_all() of Interrupt() in src/init.cpp for the workers;
\* the miner's threads, one of which may be the master, have their own.
InterruptAll(T) ==
  /\ \/ T = Workers /\ interrupted \cap Workers = {} /\ UNCHANGED nInterrupts
     \/ /\ T = {Master} /\ Master \notin interrupted /\ nInterrupts < MaxInterrupts
        /\ nInterrupts' = nInterrupts + 1
  /\ interrupted' = interrupted \cup T
  /\ UNCHANGED <<queue, counters, fAllOk, pc, locals, history>>

\* cond.wait throws: a worker ends; the master leaves ConnectBlock, and the
\* destructor of its control calls Wait() again.
Interrupted(t) ==
  /\ t \in interrupted /\ pc[t] \in {"waiting", "woken"}
  /\ IF t = Master
     THEN /\ pc' = [pc EXCEPT ![t] = "lock"] /\ interrupted' = interrupted \ {t}
          /\ nNow' = [nNow EXCEPT ![t] = 0] /\ fOk' = [fOk EXCEPT ![t] = TRUE]
     ELSE pc' = [pc EXCEPT ![t] = "dead"] /\ UNCHANGED <<interrupted, nNow, fOk>>
  /\ UNCHANGED <<queue, counters, fAllOk, vChecks, nInterrupts, history>>

-----------------------------------------------------------------------------
Init ==
  /\ queue = <<>> /\ nIdle = 0 /\ nTotal = 0 /\ fAllOk = TRUE /\ nTodo = 0
  /\ pc = [t \in Threads |-> IF t = Master THEN "out" ELSE "lock"]
  /\ vChecks = [t \in Threads |-> <<>>] /\ nNow = [t \in Threads |-> 0]
  /\ fOk = [t \in Threads |-> TRUE]
  /\ interrupted = {} /\ nInterrupts = 0
  /\ allValid = TRUE /\ fRet = TRUE

\* A thread in Loop goes on.
Run(t) == Lock(t) \/ WakeUp(t) \/ Execute(t) \/ Interrupted(t)

Next ==
  \/ NewControl \/ Wait
  \/ \E n \in 0..MaxChecks : \E checks \in [1..n -> BOOLEAN] : Add(checks)
  \/ \E t \in Threads : Run(t) \/ SpuriousWakeUp(t)
  \/ \E T \in {Workers, {Master}} : InterruptAll(T)

\* The system runs every thread that is not blocked.
Spec == Init /\ [][Next]_vars /\ \A t \in Threads : WF_vars(Run(t))

-----------------------------------------------------------------------------
(* Properties *)

Labels == {"out", "adding", "lock", "waiting", "woken", "work", "dead"}

\* The type of the queue and of the locals of Loop; no batch is larger than
\* nBatchSize.
TypeOK ==
  /\ queue \in Seq(BOOLEAN) /\ {nIdle, nTotal, nTodo} \subseteq Int
  /\ fAllOk \in BOOLEAN /\ pc \in [Threads -> Labels]
  /\ vChecks \in [Threads -> Seq(BOOLEAN)] /\ nNow \in [Threads -> 0..nBatchSize]
  /\ fOk \in [Threads -> BOOLEAN] /\ interrupted \subseteq Threads
  /\ nInterrupts \in 0..MaxInterrupts
  /\ allValid \in BOOLEAN /\ fRet \in BOOLEAN

\* The checks a thread has taken and not reported yet, one pair for each.
InBatches ==
  {b \in Threads \X (1..nBatchSize) :
     pc[b[1]] \in {"work", "lock"} /\ b[2] <= nNow[b[1]]}

\* "Number of verifications that haven't completed yet.  This includes elements
\* that are no longer queued, but still in the worker's own batches" (nTodo in
\* src/checkqueue.h), whoever was interrupted.
TodoExact == nTodo = Len(queue) + Cardinality(InBatches)

\* nTotal and nIdle differ by the threads that hold a batch.  A thread that
\* cond.wait throws out of stays in both, which is why Loop may leave them as
\* they are.
ActiveCounted ==
  nTotal - nIdle =
    Cardinality({t \in Threads : pc[t] = "work" \/ (pc[t] = "lock" /\ nNow[t] > 0)})

\* assert(isIdle) in the constructor of CCheckQueueControl never fails: the
\* next block finds the queue as if it were new, also after an interruption.
IdleBetweenBlocks == pc[Master] = "out" => IsIdle /\ queue = <<>>

\* "Wait until execution finishes, and return whether all evaluations were
\* successful" (Wait in src/checkqueue.h): never the result of fewer checks
\* than were added, and never one left over from an earlier block.
ResultRight == pc[Master] = "out" => fRet = allValid

\* The master never sleeps in condMaster.wait when nobody is left to wake it: a
\* worker holds a batch it has not reported ("We processed the last element;
\* inform the master it can exit and return the result").
SleepingMasterAwaited ==
  pc[Master] = "waiting" =>
    \E w \in Workers : pc[w] \in {"work", "lock"} /\ nNow[w] > 0

\* Wait() returns: the notification of the last check is never lost, even when
\* a worker is interrupted after it was notified.
WaitReturns == pc[Master] = "lock" ~> pc[Master] = "out"

=============================================================================
