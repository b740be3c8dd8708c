-------------------------- MODULE CheckQueueProofs --------------------------
(***************************************************************************)
(* For any number of worker threads, batch size and interruptions: the     *)
(* counters of the check queue are exact, the next block finds it idle,    *)
(* and Wait() returns whether every check of the block is valid.           *)
(***************************************************************************)
EXTENDS CheckQueue, FiniteSetTheorems, SequenceTheorems, TLAPS

-----------------------------------------------------------------------------
(* The inductive invariant *)

\* The threads of T that hold a batch, those that cond.wait keeps or kept, and
\* the checks in the batches of T.
Active(p, now, T) ==
  {t \in T : p[t] = "work" \/ (p[t] = "lock" /\ now[t] > 0)}
Parked(p, T) == {t \in T : p[t] \in {"waiting", "woken", "dead"}}
Batches(p, now, T) ==
  {b \in T \X (1..nBatchSize) : p[b[1]] \in {"work", "lock"} /\ b[2] <= now[b[1]]}

Valid(checks) == \A i \in DOMAIN checks : checks[i]

\* Nothing that thread t has executed, or is about to, has failed.
BatchOk(t) == fOk[t] /\ Valid(vChecks[t])

\* Only the master leaves Loop, only workers end, and a thread has checks to
\* execute exactly while it works.
RolesInv ==
  /\ \A w \in Workers : pc[w] \notin {"out", "adding"}
  /\ pc[Master] # "dead"
  /\ \A t \in Threads : pc[t] = "work" => nNow[t] > 0
  /\ \A t \in Threads : pc[t] # "work" => vChecks[t] = <<>>

\* Who waits is counted as idle; a thread that was thrown out of cond.wait may
\* be counted once more.
IdleInv == Cardinality(Parked(pc, Threads)) <= nIdle

\* Between two blocks nothing is left and the result was right; in a block the
\* result so far, the queue and the batches tell together whether all checks
\* are valid.
ResultInv ==
  /\ pc[Master] = "out" => nTodo = 0 /\ fAllOk /\ fRet = allValid
  /\ pc[Master] # "out" =>
       (allValid <=> /\ fAllOk /\ Valid(queue)
                     /\ \A t \in Active(pc, nNow, Threads) : BatchOk(t))

QInv ==
  TypeOK /\ RolesInv /\ TodoExact /\ ActiveCounted /\ IdleInv /\ ResultInv

-----------------------------------------------------------------------------
(* Counting *)

LEMMA ThreadsFinite == IsFiniteSet(Threads) /\ Master \in Threads
<1>1. IsFiniteSet(Workers \cup {Master})
  BY FS_AddElement, ThreadsAssumption
<1> QED
  BY <1>1 DEF Threads

\* One thread more or less that holds a batch.
LEMMA ActiveSplit ==
  ASSUME NEW p, NEW now, NEW t \in Threads
  PROVE  LET others == Active(p, now, Threads \ {t})
             a == p[t] = "work" \/ (p[t] = "lock" /\ now[t] > 0)
         IN  /\ IsFiniteSet(others) /\ Cardinality(others) \in Nat
             /\ Active(p, now, Threads) = IF a THEN others \cup {t} ELSE others
             /\ Cardinality(Active(p, now, Threads)) =
                  Cardinality(others) + IF a THEN 1 ELSE 0
<1> DEFINE others == Active(p, now, Threads \ {t})
           a == p[t] = "work" \/ (p[t] = "lock" /\ now[t] > 0)
<1>1. Active(p, now, Threads) = IF a THEN others \cup {t} ELSE others
  BY Zenon DEF Active
<1>2. others \in SUBSET Threads /\ t \notin others
  BY DEF Active
<1>3. IsFiniteSet(others) /\ Cardinality(others) \in Nat
  BY <1>2, ThreadsFinite, FS_Subset, FS_CardinalityType, Zenon
<1>4. Cardinality(others \cup {t}) = Cardinality(others) + 1
  BY <1>2, <1>3, FS_AddElement, Zenon
<1> HIDE DEF others
<1> QED
  BY <1>1, <1>3, <1>4 DEF others

\* One thread more or less in cond.wait.
LEMMA ParkedSplit ==
  ASSUME NEW p, NEW t \in Threads
  PROVE  LET others == Parked(p, Threads \ {t})
             a == p[t] \in {"waiting", "woken", "dead"}
         IN  /\ Cardinality(others) \in Nat
             /\ Cardinality(Parked(p, Threads)) =
                  Cardinality(others) + IF a THEN 1 ELSE 0
<1> DEFINE others == Parked(p, Threads \ {t})
           a == p[t] \in {"waiting", "woken", "dead"}
<1>1. Parked(p, Threads) = IF a THEN others \cup {t} ELSE others
  BY Zenon DEF Parked
<1>2. others \in SUBSET Threads /\ t \notin others
  BY DEF Parked
<1>3. IsFiniteSet(others) /\ Cardinality(others) \in Nat
  BY <1>2, ThreadsFinite, FS_Subset, FS_CardinalityType, Zenon
<1>4. Cardinality(others \cup {t}) = Cardinality(others) + 1
  BY <1>2, <1>3, FS_AddElement, Zenon
<1> HIDE DEF others
<1> QED
  BY <1>1, <1>3, <1>4 DEF others

LEMMA BatchesFinite ==
  ASSUME NEW p, NEW now, NEW T \in SUBSET Threads
  PROVE  IsFiniteSet(Batches(p, now, T)) /\ Cardinality(Batches(p, now, T)) \in Nat
<1>1. IsFiniteSet(T) /\ IsFiniteSet(1..nBatchSize)
  BY ThreadsFinite, ThreadsAssumption, FS_Subset, FS_Interval
<1>2. IsFiniteSet(T \X (1..nBatchSize))
  BY <1>1, FS_Product, Zenon
<1>3. Batches(p, now, T) \in SUBSET (T \X (1..nBatchSize))
  BY DEF Batches
<1> QED
  BY <1>2, <1>3, FS_Subset, FS_CardinalityType

\* The checks in the batch of thread t are nNow[t].
LEMMA BatchesSplit ==
  ASSUME NEW p, NEW now \in [Threads -> 0..nBatchSize], NEW t \in Threads
  PROVE  LET others == Batches(p, now, Threads \ {t})
         IN  /\ Cardinality(others) \in Nat
             /\ Cardinality(Batches(p, now, Threads)) =
                  Cardinality(others)
                  + IF p[t] \in {"work", "lock"} THEN now[t] ELSE 0
<1> DEFINE others == Batches(p, now, Threads \ {t})
           n == IF p[t] \in {"work", "lock"} THEN now[t] ELSE 0
           mine == {t} \X (1..n)
<1>0. nBatchSize \in Nat /\ n \in 0..nBatchSize
  BY ThreadsAssumption
<1>1. Batches(p, now, Threads) = others \cup mine
  BY <1>0 DEF Batches
<1>2. others \cap mine = {}
  BY DEF Batches
<1>3. IsFiniteSet(others) /\ Cardinality(others) \in Nat
  BY BatchesFinite
<1>4. IsFiniteSet(mine) /\ Cardinality(mine) = n
  <2>1. IsFiniteSet({t}) /\ Cardinality({t}) = 1
    BY FS_Singleton, Zenon
  <2> HIDE DEF n
  <2>2. n \in Int /\ 1 \in Int /\ n >= 0
    BY <1>0
  <2>3. IsFiniteSet(1..n) /\ Cardinality(1..n) = IF 1 > n THEN 0 ELSE n - 1 + 1
    BY Zenon, <2>2, FS_Interval
  <2>4. Cardinality(1..n) = n
    BY <2>2, <2>3
  <2>5. /\ IsFiniteSet({t} \X (1..n))
        /\ Cardinality({t} \X (1..n)) = Cardinality({t}) * Cardinality(1..n)
    BY Zenon, <2>1, <2>3, FS_Product
  <2> QED
    BY <2>1, <2>2, <2>4, <2>5
<1> HIDE DEF others, mine, n
<1>5. Cardinality(others \cup mine) = Cardinality(others) + n - Cardinality({})
  BY <1>2, <1>3, <1>4, FS_Union
<1>6. Cardinality(others \cup mine) = Cardinality(others) + n
  BY <1>0, <1>3, <1>5, FS_EmptySet
<1> QED
  BY <1>1, <1>3, <1>6 DEF others, n

LEMMA MinOfTwo ==
  ASSUME NEW a \in Int, NEW b \in Int
  PROVE  Min({a, b}) = IF a <= b THEN a ELSE b
<1>1. \E x \in {a, b} : \A y \in {a, b} : x <= y
  <2>1. CASE a <= b
    BY <2>1
  <2>2. CASE b <= a
    BY <2>2
  <2> QED
    BY <2>1, <2>2
<1>2. Min({a, b}) \in {a, b} /\ \A y \in {a, b} : Min({a, b}) <= y
  BY Zenon, <1>1 DEF Min
<1> QED
  BY <1>2

\* A batch is never empty, larger than nBatchSize or larger than the queue.
LEMMA BatchSizeFits ==
  ASSUME NEW total \in Int, NEW idle \in Int, total >= 0, idle >= 0,
         queue \in Seq(BOOLEAN), queue # <<>>
  PROVE  BatchSize(total, idle) \in 1..nBatchSize /\ BatchSize(total, idle) <= Len(queue)
<1> DEFINE d == Len(queue) \div (total + idle + 1)
           m == Min({nBatchSize, d})
<1>1. Len(queue) \in Nat /\ Len(queue) >= 1
  OBVIOUS
<1>2. d \in Int /\ d <= Len(queue)
  BY <1>1
<1> HIDE DEF d
<1>3. m \in Int /\ m <= nBatchSize /\ m <= d
  BY <1>2, MinOfTwo, ThreadsAssumption
<1> HIDE DEF m
<1>4. Max({1, m}) = IF m > 1 THEN m ELSE 1
  BY <1>3 DEF Max
<1> QED
  BY <1>1, <1>2, <1>3, <1>4, ThreadsAssumption DEF BatchSize, m, d

\* A notification changes neither who holds a batch nor who waits.
LEMMA SameThreads ==
  ASSUME NEW p, NEW q, NEW now, NEW now2, NEW T \in SUBSET Threads,
         \A t \in T : q[t] = p[t] \/ (p[t] = "waiting" /\ q[t] = "woken"),
         \A t \in T : now2[t] = now[t]
  PROVE  /\ Active(q, now2, T) = Active(p, now, T)
         /\ Parked(q, T) = Parked(p, T)
         /\ Batches(q, now2, T) = Batches(p, now, T)
<1>1. Active(q, now2, T) = Active(p, now, T)
  BY DEF Active
<1>2. Parked(q, T) = Parked(p, T)
  BY DEF Parked
<1>3. ASSUME NEW b \in T \X (1..nBatchSize)
      PROVE  (q[b[1]] \in {"work", "lock"} /\ b[2] <= now2[b[1]])
             <=> (p[b[1]] \in {"work", "lock"} /\ b[2] <= now[b[1]])
  <2>1. b[1] \in T
    OBVIOUS
  <2> QED
    BY <2>1
<1>4. Batches(q, now2, T) = Batches(p, now, T)
  BY Zenon, <1>3 DEF Batches
<1> QED
  BY <1>1, <1>2, <1>4

-----------------------------------------------------------------------------
(* One iteration of Loop *)

USE DEF counters, locals, history, vars

\* Thread t is in the critical section, where it has cleaned up its last batch
\* or returned from cond.wait: it is counted as active and holds nothing.
Entered(t, total, idle, todo, ok, p) ==
  /\ total \in Int /\ idle \in Int /\ todo \in Int /\ ok \in BOOLEAN
  /\ p \in [Threads -> Labels] /\ p[t] \in {"lock", "woken"}
  /\ \A u \in Threads : p[u] = pc[u] \/ (pc[u] = "waiting" /\ p[u] = "woken")
  /\ Cardinality(Parked(p, Threads \ {t})) <= idle
  /\ total - idle = Cardinality(Active(p, nNow, Threads \ {t})) + 1
  /\ todo = Len(queue) + Cardinality(Batches(p, nNow, Threads \ {t}))
  /\ p[Master] = "out" => todo = 0 /\ ok /\ fRet = allValid
  /\ p[Master] # "out" =>
       (allValid <=> /\ ok /\ Valid(queue)
                     /\ \A u \in Active(p, nNow, Threads \ {t}) : BatchOk(u))

\* What remains to be shown of a step that leaves the other threads alone.
LEMMA StepOfThread ==
  ASSUME QInv, NEW t \in Threads, NEW p \in [Threads -> Labels], NEW l \in Labels,
         pc' = [p EXCEPT ![t] = l],
         \A u \in Threads : p[u] = pc[u] \/ (pc[u] = "waiting" /\ p[u] = "woken"),
         nNow' \in [Threads -> 0..nBatchSize],
         \A u \in Threads \ {t} : nNow'[u] = nNow[u]
  PROVE  /\ pc' \in [Threads -> Labels] /\ pc'[t] = l
         /\ \A u \in Threads \ {t} : pc'[u] = p[u]
         /\ Active(pc', nNow', Threads \ {t}) = Active(p, nNow, Threads \ {t})
         /\ Parked(pc', Threads \ {t}) = Parked(p, Threads \ {t})
         /\ Batches(pc', nNow', Threads \ {t}) = Batches(p, nNow, Threads \ {t})
         /\ Active(p, nNow, Threads \ {t}) = Active(pc, nNow, Threads \ {t})
         /\ Parked(p, Threads \ {t}) = Parked(pc, Threads \ {t})
         /\ Batches(p, nNow, Threads \ {t}) = Batches(pc, nNow, Threads \ {t})
<1>1. pc' \in [Threads -> Labels] /\ pc'[t] = l /\ \A u \in Threads \ {t} : pc'[u] = p[u]
  OBVIOUS
<1>2. (Threads \ {t}) \in SUBSET Threads
  OBVIOUS
<1>3. /\ Active(pc', nNow', Threads \ {t}) = Active(p, nNow, Threads \ {t})
      /\ Parked(pc', Threads \ {t}) = Parked(p, Threads \ {t})
      /\ Batches(pc', nNow', Threads \ {t}) = Batches(p, nNow, Threads \ {t})
  <2>1. \A u \in Threads \ {t} : pc'[u] = p[u] \/ (p[u] = "waiting" /\ pc'[u] = "woken")
    BY <1>1
  <2>2. \A u \in Threads \ {t} : nNow'[u] = nNow[u]
    OBVIOUS
  <2> QED
    BY ONLY <1>2, <2>1, <2>2, SameThreads
<1>4. /\ Active(p, nNow, Threads \ {t}) = Active(pc, nNow, Threads \ {t})
      /\ Parked(p, Threads \ {t}) = Parked(pc, Threads \ {t})
      /\ Batches(p, nNow, Threads \ {t}) = Batches(pc, nNow, Threads \ {t})
  BY <1>2, SameThreads, SMTT(30)
<1> QED
  BY <1>1, <1>3, <1>4

\* The counters after such a step, from those of the other threads.
LEMMA CountersOfThread ==
  ASSUME NEW t \in Threads, nNow' \in [Threads -> 0..nBatchSize],
         NEW A, NEW P, NEW B,
         Active(pc', nNow', Threads \ {t}) = A,
         Parked(pc', Threads \ {t}) = P,
         Batches(pc', nNow', Threads \ {t}) = B
  PROVE  /\ Cardinality(A) \in Nat /\ Cardinality(P) \in Nat /\ Cardinality(B) \in Nat
         /\ ActiveCounted' <=> nTotal' - nIdle' =
              Cardinality(A) + IF pc'[t] = "work" \/ (pc'[t] = "lock" /\ nNow'[t] > 0)
                               THEN 1 ELSE 0
         /\ IdleInv' <=>
              Cardinality(P) + (IF pc'[t] \in {"waiting", "woken", "dead"} THEN 1 ELSE 0)
                <= nIdle'
         /\ TodoExact' <=> nTodo' =
              Len(queue') + (Cardinality(B)
                             + IF pc'[t] \in {"work", "lock"} THEN nNow'[t] ELSE 0)
<1>1. Cardinality(A) \in Nat /\ Cardinality(P) \in Nat /\ Cardinality(B) \in Nat
  BY Zenon, ActiveSplit, ParkedSplit, BatchesSplit
<1>2. Cardinality(Active(pc', nNow', Threads)) =
        Cardinality(A) + IF pc'[t] = "work" \/ (pc'[t] = "lock" /\ nNow'[t] > 0)
                         THEN 1 ELSE 0
  BY Zenon, ActiveSplit
<1>3. Cardinality(Parked(pc', Threads)) =
        Cardinality(P) + IF pc'[t] \in {"waiting", "woken", "dead"} THEN 1 ELSE 0
  BY Zenon, ParkedSplit
<1>4. Cardinality(Batches(pc', nNow', Threads)) =
        Cardinality(B) + IF pc'[t] \in {"work", "lock"} THEN nNow'[t] ELSE 0
  BY Zenon, BatchesSplit
<1>5. ActiveCounted' <=> nTotal' - nIdle' = Cardinality(Active(pc', nNow', Threads))
  BY DEF ActiveCounted, Active
<1>6. IdleInv' <=> Cardinality(Parked(pc', Threads)) <= nIdle'
  BY DEF IdleInv, Parked
<1>7. TodoExact' <=> nTodo' = Len(queue') + Cardinality(Batches(pc', nNow', Threads))
  BY DEF TodoExact, InBatches, Batches
<1> QED
  BY Zenon, <1>1, <1>2, <1>3, <1>4, <1>5, <1>6, <1>7

\* Wait() returns: nothing is left in the queue or in a batch.
LEMMA ReturnQInv ==
  ASSUME QInv, NEW t \in Threads, NEW total, NEW idle, NEW todo, NEW ok, NEW p,
         Entered(t, total, idle, todo, ok, p), Return(t, total, todo, ok, p),
         nIdle' = idle, UNCHANGED <<interrupted, nInterrupts, allValid>>
  PROVE  QInv'
<1> DEFINE A == Active(p, nNow, Threads \ {t})
           P == Parked(p, Threads \ {t})
           B == Batches(p, nNow, Threads \ {t})
<1>1. /\ pc' = [p EXCEPT ![t] = "out"] /\ UNCHANGED <<queue, vChecks, nNow, fOk>>
      /\ t = Master /\ queue = <<>> /\ todo = 0 /\ fAllOk' = TRUE /\ fRet' = ok
      /\ nTotal' = total - 1 /\ nTodo' = 0
  BY DEF Return
<1>2. nNow' \in [Threads -> 0..nBatchSize]
  BY <1>1 DEF QInv, TypeOK
<1>3. /\ pc' \in [Threads -> Labels] /\ pc'[t] = "out"
      /\ \A u \in Threads \ {t} : pc'[u] = p[u]
      /\ Active(pc', nNow', Threads \ {t}) = A
      /\ Parked(pc', Threads \ {t}) = P
      /\ Batches(pc', nNow', Threads \ {t}) = B
  <2>1. /\ p \in [Threads -> Labels] /\ "out" \in Labels
        /\ \A u \in Threads : p[u] = pc[u] \/ (pc[u] = "waiting" /\ p[u] = "woken")
        /\ \A u \in Threads \ {t} : nNow'[u] = nNow[u]
    BY <1>1 DEF Entered, Labels
  <2> QED
    BY ONLY QInv, t \in Threads, <1>1, <1>2, <2>1, StepOfThread, Zenon
<1>4. /\ Cardinality(A) \in Nat /\ Cardinality(P) \in Nat /\ Cardinality(B) \in Nat
      /\ ActiveCounted' <=> nTotal' - nIdle' = Cardinality(A) + 0
      /\ IdleInv' <=> Cardinality(P) + 0 <= nIdle'
      /\ TodoExact' <=> nTodo' = Len(queue') + (Cardinality(B) + 0)
  <2> HIDE DEF A, P, B
  <2> QED
    BY ONLY Zenon, t \in Threads, <1>2, <1>3, CountersOfThread
<1>5. Cardinality(B) = 0
  BY <1>1, <1>4 DEF Entered
<1>6. A = {}
  <2>1. B = {}
    BY <1>5, BatchesFinite, FS_EmptySet
  <2>2. ASSUME NEW u \in A PROVE FALSE
    <3>1. u \in Threads \ {t} /\ p[u] \in {"work", "lock"} /\ nNow[u] > 0
      BY DEF Active, Entered, QInv, RolesInv
    <3>2. nNow[u] \in Nat /\ nBatchSize \in Nat /\ 1 <= nBatchSize
      BY <3>1, ThreadsAssumption DEF QInv, TypeOK
    <3>3. <<u, 1>> \in B
      BY <3>1, <3>2 DEF Batches
    <3> QED
      BY <2>1, <3>3
  <2> QED
    BY <2>2
<1>7. p[Master] # "out"
  BY <1>1 DEF Entered
<1>8. fRet' = allValid'
  <2>1. allValid <=> ok /\ Valid(queue) /\ \A u \in A : BatchOk(u)
    BY Zenon, <1>7 DEF Entered
  <2>2. Valid(queue)
    BY <1>1 DEF Valid
  <2>3. allValid <=> ok
    BY Zenon, <1>6, <2>1, <2>2
  <2>4. allValid \in BOOLEAN /\ ok \in BOOLEAN
    BY Zenon DEF Entered, QInv, TypeOK
  <2>5. allValid = ok
    BY Zenon, <2>3, <2>4
  <2> QED
    BY Zenon, <1>1, <2>5
<1>9. TypeOK'
  BY <1>1, <1>3, ThreadsAssumption, SMTT(30) DEF QInv, TypeOK, Entered
<1>10. RolesInv'
  BY <1>1, <1>3, ThreadsAssumption DEF QInv, RolesInv, Entered, Threads
<1>11. TodoExact' /\ ActiveCounted' /\ IdleInv'
  <2> HIDE DEF A, P, B
  <2>1. Cardinality(P) <= idle /\ total - idle = Cardinality(A) + 1 /\ idle \in Int /\ total \in Int
    BY DEF Entered, A, P
  <2> QED
    BY <1>1, <1>4, <1>5, <2>1
<1>12. ResultInv'
  BY <1>1, <1>3, <1>8 DEF ResultInv
<1> QED
  BY <1>9, <1>10, <1>11, <1>12 DEF QInv

\* The thread finds nothing to do and waits.
LEMMA SleepQInv ==
  ASSUME QInv, NEW t \in Threads, NEW total, NEW idle, NEW todo, NEW ok, NEW p,
         Entered(t, total, idle, todo, ok, p), Sleep(t, total, idle, todo, ok, p),
         UNCHANGED <<interrupted, nInterrupts, allValid>>
  PROVE  QInv'
<1> DEFINE A == Active(p, nNow, Threads \ {t})
           P == Parked(p, Threads \ {t})
           B == Batches(p, nNow, Threads \ {t})
<1>1. /\ pc' = [p EXCEPT ![t] = "waiting"] /\ UNCHANGED <<queue, vChecks, nNow, fOk, fRet>>
      /\ nTotal' = total /\ nIdle' = idle + 1 /\ nTodo' = todo /\ fAllOk' = ok
  BY DEF Sleep
<1>2. nNow' \in [Threads -> 0..nBatchSize]
  BY <1>1 DEF QInv, TypeOK
<1>3. /\ pc' \in [Threads -> Labels] /\ pc'[t] = "waiting"
      /\ \A u \in Threads \ {t} : pc'[u] = p[u]
      /\ Active(pc', nNow', Threads \ {t}) = A
      /\ Parked(pc', Threads \ {t}) = P
      /\ Batches(pc', nNow', Threads \ {t}) = B
  <2>1. /\ p \in [Threads -> Labels] /\ "waiting" \in Labels
        /\ \A u \in Threads : p[u] = pc[u] \/ (pc[u] = "waiting" /\ p[u] = "woken")
        /\ \A u \in Threads \ {t} : nNow'[u] = nNow[u]
    BY <1>1 DEF Entered, Labels
  <2> QED
    BY ONLY QInv, t \in Threads, <1>1, <1>2, <2>1, StepOfThread, Zenon
<1>4. /\ Cardinality(A) \in Nat /\ Cardinality(P) \in Nat /\ Cardinality(B) \in Nat
      /\ ActiveCounted' <=> nTotal' - nIdle' = Cardinality(A) + 0
      /\ IdleInv' <=> Cardinality(P) + 1 <= nIdle'
      /\ TodoExact' <=> nTodo' = Len(queue') + (Cardinality(B) + 0)
  <2> HIDE DEF A, P, B
  <2> QED
    BY ONLY Zenon, t \in Threads, <1>2, <1>3, CountersOfThread
<1>5. TypeOK'
  BY <1>1, <1>3, ThreadsAssumption DEF QInv, TypeOK, Entered
<1>6. RolesInv'
  BY <1>1, <1>3, ThreadsAssumption DEF QInv, RolesInv, Entered, Threads
<1>7. TodoExact' /\ ActiveCounted' /\ IdleInv'
  <2> HIDE DEF A, P, B
  <2>1. /\ Cardinality(P) <= idle /\ total - idle = Cardinality(A) + 1
        /\ todo = Len(queue) + Cardinality(B) /\ idle \in Int /\ total \in Int
    BY DEF Entered, A, P, B
  <2> QED
    BY SMT, SMTT(30), <1>1, <1>4, <2>1
<1>8. pc'[Master] = "out" <=> p[Master] = "out"
  BY <1>3, ThreadsFinite DEF Entered
<1>9. Active(pc', nNow', Threads) = A
  BY <1>3, ActiveSplit
<1>10. ResultInv'
  <2>1. \A u \in A : BatchOk(u)' <=> BatchOk(u)
    BY <1>1 DEF BatchOk, Valid
  <2>2. Valid(queue)' <=> Valid(queue)
    BY <1>1 DEF Valid
  <2> QED
    BY Zenon, <1>1, <1>8, <1>9, <2>1, <2>2 DEF ResultInv, Entered
<1> QED
  BY <1>5, <1>6, <1>7, <1>10 DEF QInv

\* A part of the queue, and whether its checks are valid.
LEMMA PartOfQueue ==
  ASSUME NEW q \in Seq(BOOLEAN), NEW a \in Nat, NEW b \in Nat,
         1 <= a, a <= b + 1, b <= Len(q)
  PROVE  /\ SubSeq(q, a, b) \in Seq(BOOLEAN) /\ Len(SubSeq(q, a, b)) = b - a + 1
         /\ Valid(SubSeq(q, a, b)) <=> \A i \in a..b : q[i]
<1> DEFINE part == SubSeq(q, a, b)
<1>1. \A i \in a..b : q[i] \in BOOLEAN
  OBVIOUS
<1>2. /\ part \in Seq(BOOLEAN) /\ Len(part) = b - a + 1
      /\ \A i \in 1..(b - a + 1) : part[i] = q[a + i - 1]
  BY <1>1, SubSeqProperties
<1> HIDE DEF part
<1>3. DOMAIN part = 1..(b - a + 1)
  BY <1>2
<1>4. ASSUME Valid(part), NEW i \in a..b PROVE q[i]
  <2>1. i - a + 1 \in 1..(b - a + 1) /\ a + (i - a + 1) - 1 = i
    OBVIOUS
  <2>2. part[i - a + 1] = q[i]
    BY <1>2, <2>1
  <2> QED
    BY Zenon, <1>3, <1>4, <2>1, <2>2 DEF Valid
<1>5. ASSUME \A i \in a..b : q[i], NEW i \in 1..(b - a + 1) PROVE part[i]
  <2>1. a + i - 1 \in a..b
    OBVIOUS
  <2> QED
    BY Zenon, <1>2, <1>5, <2>1
<1> QED
  BY Zenon, <1>2, <1>3, <1>4, <1>5 DEF Valid, part

\* Taking the last n checks loses none and repeats none.
LEMMA QueueSplit ==
  ASSUME NEW q \in Seq(BOOLEAN), NEW n \in Nat, n <= Len(q)
  PROVE  LET kept == SubSeq(q, 1, Len(q) - n)
             taken == SubSeq(q, Len(q) - n + 1, Len(q))
         IN  /\ kept \in Seq(BOOLEAN) /\ taken \in Seq(BOOLEAN)
             /\ Len(kept) = Len(q) - n
             /\ Valid(q) <=> Valid(kept) /\ Valid(taken)
<1> DEFINE k == Len(q) - n
<1>1. /\ Len(q) \in Nat /\ k \in Nat /\ k + 1 \in Nat /\ 1 \in Nat /\ k <= Len(q)
      /\ 1 <= k + 1 /\ k + 1 <= Len(q) + 1 /\ DOMAIN q = 1..Len(q) /\ k - 1 + 1 = k
      /\ 1 <= 1 /\ Len(q) <= Len(q)
  OBVIOUS
<1> HIDE DEF k
<1>2. /\ SubSeq(q, 1, k) \in Seq(BOOLEAN) /\ Len(SubSeq(q, 1, k)) = k
      /\ Valid(SubSeq(q, 1, k)) <=> \A i \in 1..k : q[i]
  BY Zenon, <1>1, PartOfQueue
<1>3. /\ SubSeq(q, k + 1, Len(q)) \in Seq(BOOLEAN)
      /\ Valid(SubSeq(q, k + 1, Len(q))) <=> \A i \in (k + 1)..Len(q) : q[i]
  BY Zenon, <1>1, PartOfQueue
<1>4. 1..Len(q) = (1..k) \cup ((k + 1)..Len(q))
  BY <1>1
<1>5. Valid(q) <=> (\A i \in 1..k : q[i]) /\ \A i \in (k + 1)..Len(q) : q[i]
  BY Zenon, <1>1, <1>4 DEF Valid
<1> QED
  BY Zenon, <1>2, <1>3, <1>5 DEF k

\* The thread takes a batch from the end of the queue.
LEMMA TakeQInv ==
  ASSUME QInv, NEW t \in Threads, NEW total, NEW idle, NEW todo, NEW ok, NEW p,
         Entered(t, total, idle, todo, ok, p), Take(t, total, idle, todo, ok, p),
         UNCHANGED <<interrupted, nInterrupts, allValid>>
  PROVE  QInv'
<1> DEFINE A == Active(p, nNow, Threads \ {t})
           P == Parked(p, Threads \ {t})
           B == Batches(p, nNow, Threads \ {t})
           n == BatchSize(total, idle)
<1>0. /\ Cardinality(P) <= idle /\ total - idle = Cardinality(A) + 1
      /\ todo = Len(queue) + Cardinality(B) /\ idle \in Int /\ total \in Int
      /\ Cardinality(A) \in Nat /\ Cardinality(P) \in Nat /\ Cardinality(B) \in Nat
  BY Zenon, ActiveSplit, ParkedSplit, BatchesFinite DEF Entered
<1>1. /\ pc' = [p EXCEPT ![t] = "work"]
      /\ queue # <<>> /\ queue' = SubSeq(queue, 1, Len(queue) - n)
      /\ vChecks' = [vChecks EXCEPT ![t] = SubSeq(queue, Len(queue) - n + 1, Len(queue))]
      /\ nNow' = [nNow EXCEPT ![t] = n] /\ fOk' = [fOk EXCEPT ![t] = ok]
      /\ nTotal' = total /\ nIdle' = idle /\ nTodo' = todo /\ fAllOk' = ok
      /\ UNCHANGED fRet
  BY DEF Take
<1>2. queue \in Seq(BOOLEAN) /\ Len(queue) \in Nat
  BY DEF QInv, TypeOK
<1>3. n \in 1..nBatchSize /\ n <= Len(queue) /\ n \in Nat /\ n > 0
  <2>1. total >= 0 /\ idle >= 0
    <3> HIDE DEF A, P, B
    <3> QED
      BY <1>0
  <2>2. n \in 1..nBatchSize /\ n <= Len(queue)
    BY <1>0, <1>1, <1>2, <2>1, BatchSizeFits
  <2> QED
    BY <2>2, ThreadsAssumption
<1> HIDE DEF n
<1>4. /\ queue' \in Seq(BOOLEAN) /\ Len(queue') = Len(queue) - n
      /\ vChecks' \in [Threads -> Seq(BOOLEAN)]
      /\ \A u \in Threads \ {t} : vChecks'[u] = vChecks[u]
      /\ Valid(queue) <=> Valid(queue') /\ Valid(vChecks'[t])
  <2> DEFINE taken == SubSeq(queue, Len(queue) - n + 1, Len(queue))
  <2>1. /\ queue' \in Seq(BOOLEAN) /\ Len(queue') = Len(queue) - n
        /\ taken \in Seq(BOOLEAN)
        /\ Valid(queue) <=> Valid(queue') /\ Valid(taken)
    BY Zenon, <1>1, <1>2, <1>3, QueueSplit
  <2> HIDE DEF taken
  <2>2. vChecks' = [vChecks EXCEPT ![t] = taken] /\ vChecks \in [Threads -> Seq(BOOLEAN)]
    BY Zenon, <1>1 DEF taken, QInv, TypeOK
  <2>3. vChecks'[t] = taken
    BY Zenon, <2>2
  <2> QED
    BY Zenon, <2>1, <2>2, <2>3
<1>5. /\ nNow' \in [Threads -> 0..nBatchSize] /\ nNow'[t] = n
      /\ \A u \in Threads \ {t} : nNow'[u] = nNow[u]
  BY <1>1, <1>3 DEF QInv, TypeOK
<1>6. /\ pc' \in [Threads -> Labels] /\ pc'[t] = "work"
      /\ \A u \in Threads \ {t} : pc'[u] = p[u]
      /\ Active(pc', nNow', Threads \ {t}) = A
      /\ Parked(pc', Threads \ {t}) = P
      /\ Batches(pc', nNow', Threads \ {t}) = B
  <2>1. /\ p \in [Threads -> Labels] /\ "work" \in Labels
        /\ \A u \in Threads : p[u] = pc[u] \/ (pc[u] = "waiting" /\ p[u] = "woken")
    BY DEF Entered, Labels
  <2> QED
    BY ONLY ZenonT(30), QInv, t \in Threads, <1>1, <1>5, <2>1, StepOfThread
<1>7. /\ ActiveCounted' <=> nTotal' - nIdle' = Cardinality(A) + 1
      /\ IdleInv' <=> Cardinality(P) + 0 <= nIdle'
      /\ TodoExact' <=> nTodo' = Len(queue') + (Cardinality(B) + n)
  <2> HIDE DEF A, P, B
  <2> QED
    BY ONLY ZenonT(30), SMTT(30), t \in Threads, <1>5, <1>6, CountersOfThread
<1>8. TypeOK'
  <2>1. fOk' \in [Threads -> BOOLEAN]
    BY <1>1 DEF QInv, TypeOK, Entered
  <2> QED
    BY Zenon, <1>1, <1>4, <1>5, <1>6, <2>1 DEF QInv, TypeOK, Entered
<1>9. RolesInv'
  <2>1. /\ \A w \in Workers : p[w] \notin {"out", "adding"}
        /\ p[Master] # "dead"
        /\ \A u \in Threads : p[u] = "work" => nNow[u] > 0
        /\ \A u \in Threads : p[u] # "work" => vChecks[u] = <<>>
    BY ThreadsFinite DEF QInv, RolesInv, Entered, Threads
  <2> QED
    BY ZenonT(30), <1>3, <1>4, <1>5, <1>6, <2>1, ThreadsFinite DEF RolesInv, Threads
<1>10. TodoExact' /\ ActiveCounted' /\ IdleInv'
  <2> HIDE DEF A, P, B
  <2> QED
    BY <1>0, <1>1, <1>2, <1>3, <1>4, <1>7, SMTT(30)
<1>11. pc'[Master] # "out" /\ p[Master] # "out"
  <2>1. ASSUME p[Master] = "out" PROVE FALSE
    <3> HIDE DEF A, P, B
    <3>1. todo = 0
      BY <2>1 DEF Entered
    <3> QED
      BY <1>0, <1>1, <1>2, <3>1, SMTT(30)
  <2> QED
    BY <1>6, <2>1, ThreadsFinite
<1>12. ResultInv'
  <2>1. Active(pc', nNow', Threads) = A \cup {t}
    BY ONLY <1>6, ActiveSplit, t \in Threads
  <2>2. \A u \in A : BatchOk(u)' <=> BatchOk(u)
    <3>1. A \subseteq Threads \ {t}
      BY DEF Active
    <3>2. \A u \in Threads \ {t} : fOk'[u] = fOk[u]
      BY <1>1 DEF QInv, TypeOK
    <3> QED
      BY Zenon, <1>4, <3>1, <3>2 DEF BatchOk, Valid
  <2>3. BatchOk(t)' <=> ok /\ Valid(vChecks'[t])
    <3>1. fOk'[t] = ok
      BY <1>1 DEF QInv, TypeOK
    <3> QED
      BY Zenon, <3>1 DEF BatchOk, Valid
  <2>4. allValid <=> ok /\ Valid(queue) /\ \A u \in A : BatchOk(u)
    BY Zenon, <1>11 DEF Entered
  <2> HIDE DEF A
  <2>5. allValid <=> /\ ok /\ Valid(queue')
                     /\ \A u \in Active(pc', nNow', Threads) : BatchOk(u)'
    BY Zenon, <1>4, <2>1, <2>2, <2>3, <2>4
  <2> QED
    BY Zenon, <1>1, <1>11, <2>5 DEF ResultInv, Valid, Active
<1> QED
  BY <1>8, <1>9, <1>10, <1>12 DEF QInv

LEMMA LoopBodyQInv ==
  ASSUME QInv, NEW t \in Threads, NEW total, NEW idle, NEW todo, NEW ok, NEW p,
         Entered(t, total, idle, todo, ok, p), LoopBody(t, total, idle, todo, ok, p)
  PROVE  QInv'
BY ReturnQInv, SleepQInv, TakeQInv DEF LoopBody

\* What the counters say of one thread and of the others.
LEMMA CountersNow ==
  ASSUME QInv, NEW t \in Threads
  PROVE  /\ Cardinality(Active(pc, nNow, Threads \ {t})) \in Nat
         /\ Cardinality(Parked(pc, Threads \ {t})) \in Nat
         /\ Cardinality(Batches(pc, nNow, Threads \ {t})) \in Nat
         /\ nTotal - nIdle = Cardinality(Active(pc, nNow, Threads \ {t}))
              + IF pc[t] = "work" \/ (pc[t] = "lock" /\ nNow[t] > 0) THEN 1 ELSE 0
         /\ Cardinality(Parked(pc, Threads \ {t}))
              + (IF pc[t] \in {"waiting", "woken", "dead"} THEN 1 ELSE 0) <= nIdle
         /\ nTodo = Len(queue) + (Cardinality(Batches(pc, nNow, Threads \ {t}))
              + IF pc[t] \in {"work", "lock"} THEN nNow[t] ELSE 0)
<1>1. nNow \in [Threads -> 0..nBatchSize]
  BY DEF QInv, TypeOK
<1>2. nTotal - nIdle = Cardinality(Active(pc, nNow, Threads))
  BY DEF QInv, ActiveCounted, Active
<1>3. Cardinality(Parked(pc, Threads)) <= nIdle
  BY DEF QInv, IdleInv
<1>4. nTodo = Len(queue) + Cardinality(Batches(pc, nNow, Threads))
  BY DEF QInv, TodoExact, InBatches, Batches
<1> QED
  BY ZenonT(30), <1>1, <1>2, <1>3, <1>4, ActiveSplit, ParkedSplit, BatchesSplit

\* The first iteration, or the clean-up after a batch.
LEMMA LockEntered ==
  ASSUME QInv, NEW t \in Threads, pc[t] = "lock"
  PROVE  Entered(t, IF nNow[t] = 0 THEN nTotal + 1 ELSE nTotal, nIdle,
                 TodoAfterBatch(t), OkWithBatch(t), NotifyMaster(t))
<1> DEFINE p == NotifyMaster(t)
           total == IF nNow[t] = 0 THEN nTotal + 1 ELSE nTotal
           A == Active(pc, nNow, Threads \ {t})
           B == Batches(pc, nNow, Threads \ {t})
<1>1. /\ p \in [Threads -> Labels] /\ p[t] = "lock"
      /\ \A u \in Threads : p[u] = pc[u] \/ (pc[u] = "waiting" /\ p[u] = "woken")
  BY ThreadsFinite, SMTT(30) DEF NotifyMaster, QInv, TypeOK, Labels
<1>2. /\ Active(p, nNow, Threads \ {t}) = A
      /\ Parked(p, Threads \ {t}) = Parked(pc, Threads \ {t})
      /\ Batches(p, nNow, Threads \ {t}) = B
  <2>1. (Threads \ {t}) \in SUBSET Threads
    OBVIOUS
  <2> HIDE DEF p
  <2> QED
    BY ONLY <1>1, <2>1, SameThreads
<1>3. /\ nTotal \in Int /\ nIdle \in Int /\ nTodo \in Int /\ nNow[t] \in Nat
      /\ Len(queue) \in Nat /\ fAllOk \in BOOLEAN /\ fOk[t] \in BOOLEAN
  BY ThreadsAssumption DEF QInv, TypeOK
<1>4. /\ Cardinality(A) \in Nat /\ Cardinality(B) \in Nat
      /\ nTotal - nIdle = Cardinality(A) + IF nNow[t] > 0 THEN 1 ELSE 0
      /\ Cardinality(Parked(pc, Threads \ {t})) + 0 <= nIdle
      /\ nTodo = Len(queue) + (Cardinality(B) + nNow[t])
  BY Zenon, CountersNow
<1>5. Cardinality(Parked(pc, Threads \ {t})) \in Nat
  BY Zenon, CountersNow
<1> HIDE DEF p, A, B
<1>6. total \in Int /\ total - nIdle = Cardinality(A) + 1
  BY SMT, SMTT(30), <1>3, <1>4
<1>7. TodoAfterBatch(t) \in Int /\ TodoAfterBatch(t) = Len(queue) + Cardinality(B)
  BY SMT, SMTT(30), <1>3, <1>4 DEF TodoAfterBatch
<1>8. OkWithBatch(t) \in BOOLEAN
  BY Zenon, <1>3 DEF OkWithBatch
<1>9. p[Master] = "out" <=> pc[Master] = "out"
  BY <1>1, ThreadsFinite
<1>10. ASSUME pc[Master] = "out"
       PROVE  TodoAfterBatch(t) = 0 /\ OkWithBatch(t) /\ fRet = allValid
  <2>1. nTodo = 0 /\ fAllOk /\ fRet = allValid
    BY <1>10 DEF QInv, ResultInv
  <2>2. nNow[t] = 0
    BY <1>3, <1>4, <2>1
  <2> QED
    BY <2>1, <2>2 DEF OkWithBatch, TodoAfterBatch
<1>11. ASSUME pc[Master] # "out"
       PROVE  allValid <=> OkWithBatch(t) /\ Valid(queue) /\ \A u \in A : BatchOk(u)
  <2>1. allValid <=> /\ fAllOk /\ Valid(queue)
                     /\ \A u \in Active(pc, nNow, Threads) : BatchOk(u)
    BY Zenon, <1>11 DEF QInv, ResultInv
  <2>2. Active(pc, nNow, Threads) = IF nNow[t] > 0 THEN A \cup {t} ELSE A
    BY Zenon, ActiveSplit DEF A
  <2>3. BatchOk(t) <=> fOk[t]
    BY DEF QInv, RolesInv, BatchOk, Valid
  <2> QED
    BY Zenon, <2>1, <2>2, <2>3 DEF OkWithBatch
<1>12. Cardinality(Parked(pc, Threads \ {t})) <= nIdle
  BY <1>3, <1>4, <1>5
<1> QED
  BY Zenon, <1>1, <1>2, <1>3, <1>6, <1>7, <1>8, <1>9, <1>10, <1>11, <1>12
  DEF Entered, p

\* cond.wait returns.
LEMMA WakeUpEntered ==
  ASSUME QInv, NEW t \in Threads, pc[t] = "woken"
  PROVE  Entered(t, nTotal, nIdle - 1, nTodo, fAllOk, pc)
<1> DEFINE A == Active(pc, nNow, Threads \ {t})
           P == Parked(pc, Threads \ {t})
           B == Batches(pc, nNow, Threads \ {t})
<1>1. /\ Cardinality(A) \in Nat /\ Cardinality(B) \in Nat /\ Cardinality(P) \in Nat
      /\ nTotal - nIdle = Cardinality(A) + 0
      /\ Cardinality(P) + 1 <= nIdle
      /\ nTodo = Len(queue) + (Cardinality(B) + 0)
  BY Zenon, CountersNow
<1>2. nTotal \in Int /\ nIdle \in Int /\ nTodo \in Int /\ Len(queue) \in Nat
  BY DEF QInv, TypeOK
<1>3. Active(pc, nNow, Threads) = A
  BY Zenon, ActiveSplit
<1>4. /\ pc[Master] = "out" => nTodo = 0 /\ fAllOk /\ fRet = allValid
      /\ pc[Master] # "out" =>
           (allValid <=> fAllOk /\ Valid(queue) /\ \A u \in A : BatchOk(u))
  BY Zenon, <1>3 DEF QInv, ResultInv
<1>5. pc \in [Threads -> Labels] /\ fAllOk \in BOOLEAN
  BY DEF QInv, TypeOK
<1> HIDE DEF A, P, B
<1>6. /\ Cardinality(P) <= nIdle - 1 /\ nTotal - (nIdle - 1) = Cardinality(A) + 1
      /\ nTodo = Len(queue) + Cardinality(B) /\ nIdle - 1 \in Int
  BY <1>1, <1>2
<1> QED
  BY Zenon, <1>2, <1>4, <1>5, <1>6 DEF Entered, A, P, B

-----------------------------------------------------------------------------
(* The other actions *)

LEMMA InitQInv == Init => QInv
<1> SUFFICES ASSUME Init PROVE QInv
  OBVIOUS
<1>1. Active(pc, nNow, Threads) = {} /\ Parked(pc, Threads) = {}
      /\ Batches(pc, nNow, Threads) = {}
  <2>1. \A t \in Threads : nNow[t] = 0 /\ pc[t] \in {"out", "lock"}
    BY DEF Init
  <2>2. Active(pc, nNow, Threads) = {} /\ Parked(pc, Threads) = {}
    BY <2>1 DEF Active, Parked
  <2>3. ASSUME NEW b \in Batches(pc, nNow, Threads) PROVE FALSE
    <3>1. b[1] \in Threads /\ b[2] \in 1..nBatchSize /\ b[2] <= nNow[b[1]]
      BY DEF Batches
    <3> QED
      BY <2>1, <3>1, ThreadsAssumption
  <2> QED
    BY <2>2, <2>3
<1>2. Cardinality({}) = 0
  BY FS_EmptySet
<1>3. TodoExact /\ ActiveCounted /\ IdleInv
  <2>1. /\ TodoExact <=> nTodo = Len(queue) + Cardinality(Batches(pc, nNow, Threads))
        /\ ActiveCounted <=> nTotal - nIdle = Cardinality(Active(pc, nNow, Threads))
        /\ IdleInv <=> Cardinality(Parked(pc, Threads)) <= nIdle
    BY DEF TodoExact, ActiveCounted, IdleInv, InBatches, Batches, Active
  <2>2. queue = <<>> /\ nIdle = 0 /\ nTotal = 0 /\ nTodo = 0
    BY DEF Init
  <2> QED
    BY <1>1, <1>2, <2>1, <2>2
<1>4. TypeOK
  BY ThreadsAssumption DEF Init, TypeOK, Labels
<1>5. RolesInv
  BY ThreadsAssumption DEF Init, RolesInv, Threads
<1>6. ResultInv
  BY ThreadsFinite DEF Init, ResultInv
<1> QED
  BY <1>3, <1>4, <1>5, <1>6 DEF QInv

\* A step of thread t outside of the critical section keeps the counters true
\* when t holds as much as before.
LEMMA CountersKept ==
  ASSUME QInv, NEW t \in Threads, NEW l \in Labels, pc' = [pc EXCEPT ![t] = l],
         nNow' \in [Threads -> 0..nBatchSize],
         \A u \in Threads \ {t} : nNow'[u] = nNow[u],
         UNCHANGED <<queue, nIdle, nTotal, nTodo>>,
         (l = "work" \/ (l = "lock" /\ nNow'[t] > 0))
           <=> (pc[t] = "work" \/ (pc[t] = "lock" /\ nNow[t] > 0)),
         l \in {"waiting", "woken", "dead"} => pc[t] \in {"waiting", "woken", "dead"},
         (IF l \in {"work", "lock"} THEN nNow'[t] ELSE 0)
           = (IF pc[t] \in {"work", "lock"} THEN nNow[t] ELSE 0)
  PROVE  /\ TodoExact' /\ ActiveCounted' /\ IdleInv'
         /\ Active(pc', nNow', Threads) = Active(pc, nNow, Threads)
         /\ pc' \in [Threads -> Labels] /\ pc'[t] = l
         /\ \A u \in Threads \ {t} : pc'[u] = pc[u]
<1> DEFINE A == Active(pc, nNow, Threads \ {t})
           P == Parked(pc, Threads \ {t})
           B == Batches(pc, nNow, Threads \ {t})
<1>0. pc \in [Threads -> Labels]
  BY DEF QInv, TypeOK
<1>1. /\ pc' \in [Threads -> Labels] /\ pc'[t] = l
      /\ \A u \in Threads \ {t} : pc'[u] = pc[u]
      /\ Active(pc', nNow', Threads \ {t}) = A
      /\ Parked(pc', Threads \ {t}) = P
      /\ Batches(pc', nNow', Threads \ {t}) = B
  <2>1. \A u \in Threads : pc[u] = pc[u] \/ (pc[u] = "waiting" /\ pc[u] = "woken")
    OBVIOUS
  <2> QED
    BY Zenon, <1>0, <2>1, StepOfThread
<1>2. /\ ActiveCounted' <=> nTotal' - nIdle' = Cardinality(A)
            + IF l = "work" \/ (l = "lock" /\ nNow'[t] > 0) THEN 1 ELSE 0
      /\ IdleInv' <=>
            Cardinality(P) + (IF l \in {"waiting", "woken", "dead"} THEN 1 ELSE 0) <= nIdle'
      /\ TodoExact' <=> nTodo' = Len(queue') + (Cardinality(B)
            + IF l \in {"work", "lock"} THEN nNow'[t] ELSE 0)
  <2>1. nNow' \in [Threads -> 0..nBatchSize]
    OBVIOUS
  <2> HIDE DEF A, P, B
  <2> QED
    BY ONLY ZenonT(30), SMTT(30), t \in Threads, <1>1, <2>1, CountersOfThread
<1>3. /\ Cardinality(P) \in Nat
      /\ nTotal - nIdle = Cardinality(A)
            + IF pc[t] = "work" \/ (pc[t] = "lock" /\ nNow[t] > 0) THEN 1 ELSE 0
      /\ Cardinality(P) + (IF pc[t] \in {"waiting", "woken", "dead"} THEN 1 ELSE 0) <= nIdle
      /\ nTodo = Len(queue) + (Cardinality(B)
            + IF pc[t] \in {"work", "lock"} THEN nNow[t] ELSE 0)
  BY Zenon, CountersNow
<1> HIDE DEF A, P, B
<1>4. TodoExact' /\ ActiveCounted'
  BY Zenon, <1>2, <1>3
<1>5. IdleInv'
  <2>1. nIdle \in Int
    BY DEF QInv, TypeOK
  <2> QED
    BY <1>2, <1>3, <2>1, SMTT(30)
<1>6. Active(pc', nNow', Threads) = Active(pc, nNow, Threads)
  <2>1. Active(pc', nNow', Threads) =
          IF l = "work" \/ (l = "lock" /\ nNow'[t] > 0) THEN A \cup {t} ELSE A
    BY ONLY <1>1, ActiveSplit, t \in Threads, SMTT(30)
  <2>2. Active(pc, nNow, Threads) =
          IF pc[t] = "work" \/ (pc[t] = "lock" /\ nNow[t] > 0) THEN A \cup {t} ELSE A
    BY ONLY ActiveSplit, t \in Threads, Zenon DEF A
  <2> QED
    BY Zenon, <2>1, <2>2
<1> QED
  BY <1>1, <1>4, <1>5, <1>6, SMTT(30)

\* The result so far is as it was when nobody's batch changed.
LEMMA ResultKept ==
  ASSUME QInv, UNCHANGED <<queue, fAllOk, allValid, fRet, nTodo>>,
         pc'[Master] = "out" <=> pc[Master] = "out",
         Active(pc', nNow', Threads) = Active(pc, nNow, Threads),
         \A u \in Active(pc, nNow, Threads) : BatchOk(u)' <=> BatchOk(u)
  PROVE  ResultInv'
<1>1. Valid(queue)' <=> Valid(queue)
  BY DEF Valid
<1> QED
  BY Zenon, <1>1 DEF QInv, ResultInv, Active

LEMMA NewControlQInv == ASSUME QInv, NewControl PROVE QInv'
<1>0. Master \in Threads /\ Master \notin Workers /\ "adding" \in Labels
  BY ThreadsFinite, ThreadsAssumption DEF Labels
<1>1. /\ pc' = [pc EXCEPT ![Master] = "adding"] /\ pc[Master] = "out" /\ allValid' = TRUE
      /\ UNCHANGED <<queue, nIdle, nTotal, nTodo, fAllOk, vChecks, nNow, fOk, interrupted,
                     nInterrupts, fRet>>
  BY DEF NewControl
<1>2. nNow' \in [Threads -> 0..nBatchSize] /\ \A u \in Threads \ {Master} : nNow'[u] = nNow[u]
  BY <1>1 DEF QInv, TypeOK
<1>3. /\ TodoExact' /\ ActiveCounted' /\ IdleInv'
      /\ Active(pc', nNow', Threads) = Active(pc, nNow, Threads)
      /\ pc' \in [Threads -> Labels] /\ pc'[Master] = "adding"
      /\ \A u \in Threads \ {Master} : pc'[u] = pc[u]
  BY <1>0, <1>1, <1>2, CountersKept, Zenon
<1>4. TypeOK'
  BY <1>1, <1>3 DEF QInv, TypeOK
<1>5. RolesInv'
  BY <1>0, <1>1, <1>3 DEF QInv, RolesInv, Threads
<1>6. fAllOk /\ queue = <<>> /\ Active(pc, nNow, Threads) = {}
  <2>1. nTodo = 0 /\ fAllOk /\ nTotal = nIdle
    BY DEF NewControl, IsIdle
  <2>2. nTotal - nIdle = Cardinality(Active(pc, nNow, Threads)) /\ nIdle \in Int
    BY DEF QInv, ActiveCounted, Active, TypeOK
  <2>3. IsFiniteSet(Active(pc, nNow, Threads))
    <3>1. Active(pc, nNow, Threads) \in SUBSET Threads
      BY DEF Active
    <3> QED
      BY <3>1, ThreadsFinite, FS_Subset
  <2>4. nTodo = Len(queue) + Cardinality(Batches(pc, nNow, Threads))
        /\ Cardinality(Batches(pc, nNow, Threads)) \in Nat /\ queue \in Seq(BOOLEAN)
    <3>1. nTodo = Len(queue) + Cardinality(Batches(pc, nNow, Threads))
      BY DEF QInv, TodoExact, InBatches, Batches
    <3>2. Cardinality(Batches(pc, nNow, Threads)) \in Nat
      BY BatchesFinite
    <3> QED
      BY <3>1, <3>2 DEF QInv, TypeOK
  <2>5. Cardinality(Active(pc, nNow, Threads)) = 0
    BY <2>1, <2>2
  <2>6. Active(pc, nNow, Threads) = {}
    BY Zenon, <2>3, <2>5, FS_EmptySet
  <2>7. queue = <<>>
    BY <2>1, <2>4
  <2> QED
    BY <2>1, <2>6, <2>7
<1>7. ResultInv'
  <2>1. Valid(queue')
    BY <1>1, <1>6 DEF Valid
  <2>2. Active(pc', nNow', Threads) = {} /\ fAllOk' /\ allValid' = TRUE /\ pc'[Master] # "out"
    BY <1>1, <1>3, <1>6, Zenon
  <2> QED
    BY Zenon, <2>1, <2>2 DEF ResultInv, Active, Valid
<1> QED
  BY <1>3, <1>4, <1>5, <1>7 DEF QInv

LEMMA WaitQInv == ASSUME QInv, Wait PROVE QInv'
<1>0. Master \in Threads /\ Master \notin Workers /\ "lock" \in Labels
  BY ThreadsFinite, ThreadsAssumption DEF Labels
<1>1. /\ pc' = [pc EXCEPT ![Master] = "lock"] /\ pc[Master] = "adding"
      /\ nNow' = [nNow EXCEPT ![Master] = 0] /\ fOk' = [fOk EXCEPT ![Master] = TRUE]
      /\ UNCHANGED <<queue, nIdle, nTotal, nTodo, fAllOk, vChecks, interrupted,
                     nInterrupts, allValid, fRet>>
  BY DEF Wait
<1>2. /\ nNow' \in [Threads -> 0..nBatchSize] /\ nNow'[Master] = 0
      /\ \A u \in Threads \ {Master} : nNow'[u] = nNow[u]
  BY <1>0, <1>1, ThreadsAssumption DEF QInv, TypeOK
<1>3. /\ TodoExact' /\ ActiveCounted' /\ IdleInv'
      /\ Active(pc', nNow', Threads) = Active(pc, nNow, Threads)
      /\ pc' \in [Threads -> Labels] /\ pc'[Master] = "lock"
      /\ \A u \in Threads \ {Master} : pc'[u] = pc[u]
  <2>1. /\ (("lock" = "work") \/ ("lock" = "lock" /\ nNow'[Master] > 0))
             <=> (pc[Master] = "work" \/ (pc[Master] = "lock" /\ nNow[Master] > 0))
        /\ (IF "lock" \in {"work", "lock"} THEN nNow'[Master] ELSE 0)
             = (IF pc[Master] \in {"work", "lock"} THEN nNow[Master] ELSE 0)
        /\ "lock" \notin {"waiting", "woken", "dead"}
    BY <1>1, <1>2
  <2> QED
    BY ONLY Zenon, QInv, <1>0, <1>1, <1>2, <2>1, CountersKept
<1>4. TypeOK'
  <2>1. fOk' \in [Threads -> BOOLEAN]
    BY <1>1, Zenon DEF QInv, TypeOK
  <2> QED
    BY Zenon, <1>1, <1>2, <1>3, <2>1 DEF QInv, TypeOK
<1>5. RolesInv'
  BY <1>0, <1>1, <1>2, <1>3 DEF QInv, RolesInv, Threads
<1>6. \A u \in Active(pc, nNow, Threads) : BatchOk(u)' <=> BatchOk(u)
  BY <1>1 DEF Active, BatchOk, Valid, QInv, TypeOK
<1>7. ResultInv'
  BY <1>1, <1>3, <1>6, ResultKept
<1> QED
  BY <1>3, <1>4, <1>5, <1>7 DEF QInv

LEMMA ExecuteQInv == ASSUME QInv, NEW t \in Threads, Execute(t) PROVE QInv'
<1>0. "lock" \in Labels /\ Master \in Threads
  BY ThreadsFinite DEF Labels
<1>1. /\ pc' = [pc EXCEPT ![t] = "lock"] /\ pc[t] = "work"
      /\ vChecks' = [vChecks EXCEPT ![t] = <<>>]
      /\ fOk' = [fOk EXCEPT ![t] = @ /\ Valid(vChecks[t])]
      /\ UNCHANGED <<queue, nIdle, nTotal, nTodo, fAllOk, nNow, interrupted,
                     nInterrupts, allValid, fRet>>
  BY DEF Execute, Valid
<1>2. /\ nNow' \in [Threads -> 0..nBatchSize] /\ nNow'[t] > 0 /\ nNow[t] > 0
      /\ \A u \in Threads \ {t} : nNow'[u] = nNow[u]
  BY <1>1, SMTT(30) DEF QInv, TypeOK, RolesInv
<1>3. /\ TodoExact' /\ ActiveCounted' /\ IdleInv'
      /\ Active(pc', nNow', Threads) = Active(pc, nNow, Threads)
      /\ pc' \in [Threads -> Labels] /\ pc'[t] = "lock"
      /\ \A u \in Threads \ {t} : pc'[u] = pc[u]
  BY <1>0, <1>1, <1>2, CountersKept, Zenon
<1>4. /\ fOk' \in [Threads -> BOOLEAN] /\ vChecks' \in [Threads -> Seq(BOOLEAN)]
      /\ fOk'[t] = (fOk[t] /\ Valid(vChecks[t])) /\ vChecks'[t] = <<>>
      /\ \A u \in Threads \ {t} : fOk'[u] = fOk[u] /\ vChecks'[u] = vChecks[u]
  <2>1. fOk \in [Threads -> BOOLEAN] /\ vChecks \in [Threads -> Seq(BOOLEAN)]
    BY DEF QInv, TypeOK
  <2>2. <<>> \in Seq(BOOLEAN)
    OBVIOUS
  <2>3. (fOk[t] /\ Valid(vChecks[t])) \in BOOLEAN
    OBVIOUS
  <2> QED
    BY Zenon, <1>1, <2>1, <2>2, <2>3
<1>5. TypeOK'
  BY Zenon, <1>1, <1>2, <1>3, <1>4 DEF QInv, TypeOK
<1>6. RolesInv'
  BY ZenonT(30), <1>0, <1>1, <1>2, <1>3, <1>4 DEF QInv, RolesInv, Threads
<1>7. \A u \in Active(pc, nNow, Threads) : BatchOk(u)' <=> BatchOk(u)
  <2>1. BatchOk(t)' <=> BatchOk(t)
    BY <1>4 DEF BatchOk, Valid
  <2>2. \A u \in Threads \ {t} : BatchOk(u)' <=> BatchOk(u)
    BY Zenon, <1>4 DEF BatchOk, Valid
  <2> QED
    BY <2>1, <2>2 DEF Active
<1>8. pc'[Master] = "out" <=> pc[Master] = "out"
  BY <1>0, <1>1, <1>3, SMTT(30)
<1>9. ResultInv'
  BY <1>1, <1>3, <1>7, <1>8, ResultKept, SMTT(30)
<1> QED
  BY <1>3, <1>5, <1>6, <1>9 DEF QInv

LEMMA SpuriousWakeUpQInv == ASSUME QInv, NEW t \in Threads, SpuriousWakeUp(t) PROVE QInv'
<1>0. "woken" \in Labels /\ Master \in Threads
  BY ThreadsFinite DEF Labels
<1>1. /\ pc' = [pc EXCEPT ![t] = "woken"] /\ pc[t] = "waiting"
      /\ UNCHANGED <<queue, nIdle, nTotal, nTodo, fAllOk, vChecks, nNow, fOk, interrupted,
                     nInterrupts, allValid, fRet>>
  BY DEF SpuriousWakeUp
<1>2. nNow' \in [Threads -> 0..nBatchSize] /\ \A u \in Threads \ {t} : nNow'[u] = nNow[u]
  BY <1>1 DEF QInv, TypeOK
<1>3. /\ TodoExact' /\ ActiveCounted' /\ IdleInv'
      /\ Active(pc', nNow', Threads) = Active(pc, nNow, Threads)
      /\ pc' \in [Threads -> Labels] /\ pc'[t] = "woken"
      /\ \A u \in Threads \ {t} : pc'[u] = pc[u]
  BY <1>0, <1>1, <1>2, CountersKept, Zenon
<1>4. TypeOK'
  BY <1>1, <1>2, <1>3 DEF QInv, TypeOK
<1>5. RolesInv'
  BY <1>0, <1>1, <1>2, <1>3 DEF QInv, RolesInv, Threads
<1>6. \A u \in Active(pc, nNow, Threads) : BatchOk(u)' <=> BatchOk(u)
  BY <1>1 DEF BatchOk, Valid
<1>7. pc'[Master] = "out" <=> pc[Master] = "out"
  BY <1>0, <1>1, <1>3, SMTT(30)
<1>8. ResultInv'
  BY <1>1, <1>3, <1>6, <1>7, ResultKept, SMTT(30)
<1> QED
  BY <1>3, <1>4, <1>5, <1>8 DEF QInv

LEMMA InterruptedQInv == ASSUME QInv, NEW t \in Threads, Interrupted(t) PROVE QInv'
<1>0. /\ "lock" \in Labels /\ "dead" \in Labels /\ Master \in Threads /\ Master \notin Workers
      /\ pc[t] \in {"waiting", "woken"} /\ vChecks[t] = <<>>
      /\ UNCHANGED <<queue, nIdle, nTotal, nTodo, fAllOk, vChecks, nInterrupts, allValid, fRet>>
  BY SMT, ZenonT(30), ThreadsFinite, ThreadsAssumption DEF Interrupted, QInv, RolesInv, Labels
<1>1. CASE t = Master
  <2>1. /\ pc' = [pc EXCEPT ![t] = "lock"] /\ nNow' = [nNow EXCEPT ![t] = 0]
        /\ fOk' = [fOk EXCEPT ![t] = TRUE] /\ interrupted' \subseteq Threads
    BY <1>1 DEF Interrupted, QInv, TypeOK
  <2>2. /\ nNow' \in [Threads -> 0..nBatchSize] /\ nNow'[t] = 0
        /\ \A u \in Threads \ {t} : nNow'[u] = nNow[u]
    BY <2>1, ThreadsAssumption DEF QInv, TypeOK
  <2>3. /\ TodoExact' /\ ActiveCounted' /\ IdleInv'
        /\ Active(pc', nNow', Threads) = Active(pc, nNow, Threads)
        /\ pc' \in [Threads -> Labels] /\ pc'[t] = "lock"
        /\ \A u \in Threads \ {t} : pc'[u] = pc[u]
    <3>1. /\ (("lock" = "work") \/ ("lock" = "lock" /\ nNow'[t] > 0))
               <=> (pc[t] = "work" \/ (pc[t] = "lock" /\ nNow[t] > 0))
          /\ (IF "lock" \in {"work", "lock"} THEN nNow'[t] ELSE 0)
               = (IF pc[t] \in {"work", "lock"} THEN nNow[t] ELSE 0)
          /\ "lock" \notin {"waiting", "woken", "dead"}
      BY <1>0, <2>2
    <3> QED
      BY ONLY ZenonT(30), QInv, t \in Threads, <1>0, <2>1, <2>2, <3>1, CountersKept
  <2>4. TypeOK'
    <3>1. fOk' \in [Threads -> BOOLEAN]
      BY <2>1, SMTT(30) DEF QInv, TypeOK
    <3> QED
      BY Zenon, <1>0, <2>1, <2>2, <2>3, <3>1 DEF QInv, TypeOK
  <2>5. RolesInv'
    BY SMT, ZenonT(30), <1>0, <1>1, <2>2, <2>3 DEF QInv, RolesInv, Threads
  <2>6. \A u \in Active(pc, nNow, Threads) : BatchOk(u)' <=> BatchOk(u)
    BY <1>0, <2>1, SMTT(30) DEF Active, BatchOk, Valid, QInv, TypeOK
  <2>7. ResultInv'
    BY <1>0, <1>1, <2>3, <2>6, ResultKept, SMTT(30)
  <2> QED
    BY <2>3, <2>4, <2>5, <2>7 DEF QInv
<1>2. CASE t # Master
  <2>1. pc' = [pc EXCEPT ![t] = "dead"] /\ UNCHANGED <<interrupted, nNow, fOk>>
    BY <1>2 DEF Interrupted
  <2>2. nNow' \in [Threads -> 0..nBatchSize] /\ \A u \in Threads \ {t} : nNow'[u] = nNow[u]
    BY <2>1, SMTT(30) DEF QInv, TypeOK
  <2>3. /\ TodoExact' /\ ActiveCounted' /\ IdleInv'
        /\ Active(pc', nNow', Threads) = Active(pc, nNow, Threads)
        /\ pc' \in [Threads -> Labels] /\ pc'[t] = "dead"
        /\ \A u \in Threads \ {t} : pc'[u] = pc[u]
    BY <1>0, <2>1, <2>2, CountersKept, ZenonT(30)
  <2>4. TypeOK'
    BY Zenon, <1>0, <2>1, <2>2, <2>3 DEF QInv, TypeOK
  <2>5. RolesInv'
    BY <1>0, <1>2, <2>1, <2>3 DEF QInv, RolesInv, Threads
  <2>6. \A u \in Active(pc, nNow, Threads) : BatchOk(u)' <=> BatchOk(u)
    BY <1>0, <2>1, SMTT(30) DEF BatchOk, Valid
  <2>7. pc'[Master] = "out" <=> pc[Master] = "out"
    BY SMT, ZenonT(30), <1>0, <1>2, <2>3
  <2>8. ResultInv'
    BY <1>0, <2>3, <2>6, <2>7, ResultKept, SMTT(30)
  <2> QED
    BY <2>3, <2>4, <2>5, <2>8, SMTT(30) DEF QInv
<1> QED
  BY <1>1, <1>2, SMTT(30)

LEMMA InterruptAllQInv == ASSUME QInv, NEW T \in SUBSET Threads, InterruptAll(T) PROVE QInv'
<1>1. /\ UNCHANGED <<queue, nIdle, nTotal, nTodo, fAllOk, pc, vChecks, nNow, fOk, allValid, fRet>>
      /\ interrupted' \subseteq Threads /\ nInterrupts' \in 0..MaxInterrupts
  BY ThreadsAssumption DEF InterruptAll, QInv, TypeOK
<1>2. TypeOK' /\ RolesInv' /\ TodoExact' /\ ActiveCounted'
  BY Zenon, <1>1 DEF QInv, TypeOK, RolesInv, TodoExact, InBatches, ActiveCounted
<1>3. IdleInv'
  BY Zenon, <1>1 DEF QInv, IdleInv, Parked
<1>4. ResultInv'
  BY Zenon, <1>1 DEF QInv, ResultInv, Active, BatchOk, Valid
<1> QED
  BY <1>2, <1>3, <1>4, SMTT(30) DEF QInv

\* What Add() appends is a sequence; the longer queue is valid when both are.
LEMMA QueueLonger ==
  ASSUME NEW q \in Seq(BOOLEAN), NEW n \in Nat, NEW checks \in [1..n -> BOOLEAN]
  PROVE  /\ q \o checks \in Seq(BOOLEAN) /\ Len(checks) = n
         /\ Len(q \o checks) = Len(q) + n
         /\ Valid(q \o checks) <=> Valid(q) /\ Valid(checks)
<1> DEFINE s == q \o checks
<1>1. checks \in Seq(BOOLEAN) /\ Len(checks) = n /\ Len(q) \in Nat /\ DOMAIN q = 1..Len(q)
  OBVIOUS
<1>2. /\ s \in Seq(BOOLEAN) /\ Len(s) = Len(q) + n /\ DOMAIN s = 1..(Len(q) + n)
      /\ \A i \in 1..(Len(q) + n) : s[i] = IF i <= Len(q) THEN q[i] ELSE checks[i - Len(q)]
  BY <1>1
<1> HIDE DEF s
<1>3. ASSUME Valid(s) PROVE Valid(q) /\ Valid(checks)
  <2>1. ASSUME NEW i \in 1..Len(q) PROVE q[i]
    BY SMT, SMTT(30), <1>1, <1>2, <1>3, <2>1 DEF Valid
  <2>2. ASSUME NEW i \in 1..n PROVE checks[i]
    <3>1. i + Len(q) \in 1..(Len(q) + n) /\ i + Len(q) > Len(q) /\ i + Len(q) - Len(q) = i
      BY <1>1
    <3>2. s[i + Len(q)] = checks[i]
      BY <1>1, <1>2, <3>1
    <3> QED
      BY <1>2, <1>3, <3>1, <3>2, Zenon DEF Valid
  <2> QED
    BY <1>1, <2>1, <2>2 DEF Valid
<1>4. ASSUME Valid(q), Valid(checks) PROVE Valid(s)
  <2>1. ASSUME NEW i \in 1..(Len(q) + n) PROVE s[i]
    <3>1. CASE i <= Len(q)
      BY <1>1, <1>2, <1>4, <3>1, SMTT(30) DEF Valid
    <3>2. CASE i > Len(q)
      <4>1. i - Len(q) \in 1..n
        BY <1>1, <3>2
      <4> QED
        BY <1>1, <1>2, <1>4, <3>2, <4>1, SMTT(30) DEF Valid
    <3> QED
      BY <1>1, <3>1, <3>2
  <2> QED
    BY <1>2, <2>1 DEF Valid
<1> QED
  BY <1>1, <1>2, <1>3, <1>4 DEF s

LEMMA AddQInv ==
  ASSUME QInv, NEW n \in Nat, NEW checks \in [1..n -> BOOLEAN], Add(checks)
  PROVE  QInv'
<1>0. /\ Master \in Threads /\ Master \notin Workers /\ pc[Master] = "adding"
      /\ pc \in [Threads -> Labels] /\ queue \in Seq(BOOLEAN)
  BY ThreadsFinite, ThreadsAssumption DEF Add, QInv, TypeOK
<1>1. /\ UNCHANGED <<nIdle, nTotal, fAllOk, vChecks, nNow, fOk, interrupted, nInterrupts, fRet>>
      /\ queue' = queue \o checks /\ nTodo' = nTodo + Len(checks)
      /\ allValid' = (allValid /\ Valid(checks))
  BY DEF Add, Valid
<1>2. /\ queue' \in Seq(BOOLEAN) /\ Len(checks) = n /\ Len(queue') = Len(queue) + n
      /\ Valid(queue') <=> Valid(queue) /\ Valid(checks)
  BY Zenon, <1>0, <1>1, QueueLonger
<1>3. PICK W \in SUBSET WaitingWorkers : pc' = Woken(pc, W)
  <2>1. PICK W \in Notified(Len(checks)) : pc' = Woken(pc, W)
    BY DEF Add
  <2>2. W \subseteq WaitingWorkers
    <3>1. Len(checks) \in Nat
      BY <1>2
    <3>2. Len(checks) = 0 \/ Len(checks) = 1 \/ Len(checks) > 1
      BY <3>1
    <3> QED
      BY <3>1, <3>2 DEF Notified
  <2> QED
    BY <2>1, <2>2
<1>4. /\ pc' \in [Threads -> Labels] /\ pc'[Master] = "adding"
      /\ \A u \in Threads : pc'[u] = pc[u] \/ (pc[u] = "waiting" /\ pc'[u] = "woken")
  BY <1>0, <1>3, SMTT(30) DEF Woken, WaitingWorkers, Labels
<1>5. /\ Active(pc', nNow', Threads) = Active(pc, nNow, Threads)
      /\ Parked(pc', Threads) = Parked(pc, Threads)
      /\ Batches(pc', nNow', Threads) = Batches(pc, nNow, Threads)
  <2>1. Threads \in SUBSET Threads /\ \A u \in Threads : nNow'[u] = nNow[u]
    BY <1>1
  <2> QED
    BY ONLY <1>4, <2>1, SameThreads
<1>6. TypeOK'
  <2>1. allValid' \in BOOLEAN
    BY <1>1
  <2>2. nTodo' \in Int
    BY <1>1, <1>2, SMTT(30) DEF QInv, TypeOK
  <2>3. {nIdle', nTotal', nTodo'} \subseteq Int
    BY <1>1, <2>2, SMTT(30) DEF QInv, TypeOK
  <2> QED
    BY Zenon, <1>1, <1>2, <1>4, <2>1, <2>3 DEF QInv, TypeOK
<1>7. RolesInv'
  BY <1>0, <1>1, <1>4 DEF QInv, RolesInv, Threads
<1>8. TodoExact' /\ ActiveCounted' /\ IdleInv'
  <2>1. ActiveCounted' /\ IdleInv'
    BY Zenon, <1>1, <1>5 DEF QInv, ActiveCounted, IdleInv, Active
  <2>2. TodoExact' <=> nTodo' = Len(queue') + Cardinality(Batches(pc, nNow, Threads))
    BY Zenon, <1>5 DEF TodoExact, InBatches, Batches
  <2>3. nTodo = Len(queue) + Cardinality(Batches(pc, nNow, Threads))
    BY DEF QInv, TodoExact, InBatches, Batches
  <2>4. Cardinality(Batches(pc, nNow, Threads)) \in Nat
    BY BatchesFinite
  <2>5. nTodo' = Len(queue') + Cardinality(Batches(pc, nNow, Threads))
    BY <1>0, <1>1, <1>2, <2>3, <2>4, SMTT(30)
  <2> QED
    BY <2>1, <2>2, <2>5
<1>9. ResultInv'
  <2>1. \A u \in Threads : BatchOk(u)' <=> BatchOk(u)
    BY <1>1 DEF BatchOk, Valid
  <2>2. allValid <=> /\ fAllOk /\ Valid(queue)
                     /\ \A u \in Active(pc, nNow, Threads) : BatchOk(u)
    BY <1>0, SMTT(30) DEF QInv, ResultInv
  <2>3. \A u \in Active(pc, nNow, Threads) : u \in Threads
    BY DEF Active
  <2>4. allValid' <=> /\ fAllOk' /\ Valid(queue')
                      /\ \A u \in Active(pc, nNow, Threads) : BatchOk(u)'
    BY Zenon, <1>1, <1>2, <2>1, <2>2, <2>3
  <2>5. pc'[Master] # "out"
    BY <1>4
  <2> QED
    BY Zenon, <1>5, <2>4, <2>5 DEF ResultInv, Active, Valid
<1> QED
  BY <1>6, <1>7, <1>8, <1>9, SMTT(30) DEF QInv

-----------------------------------------------------------------------------
LEMMA NextQInv == QInv /\ [Next]_vars => QInv'
<1> SUFFICES ASSUME QInv, [Next]_vars PROVE QInv'
  OBVIOUS
<1>1. CASE NewControl
  BY <1>1, NewControlQInv
<1>2. CASE Wait
  BY <1>2, WaitQInv, SMTT(30)
<1>3. CASE \E n \in 0..MaxChecks : \E checks \in [1..n -> BOOLEAN] : Add(checks)
  <2>1. PICK n \in 0..MaxChecks : \E checks \in [1..n -> BOOLEAN] : Add(checks)
    BY <1>3
  <2>2. n \in Nat
    OBVIOUS
  <2> QED
    BY <2>1, <2>2, AddQInv, SMTT(30)
<1>4. ASSUME NEW t \in Threads, Run(t) \/ SpuriousWakeUp(t) PROVE QInv'
  <2>1. CASE Lock(t)
    <3>1. pc[t] = "lock"
      BY <2>1 DEF Lock
    <3> QED
      BY ZenonT(30), <2>1, <3>1, LockEntered, LoopBodyQInv DEF Lock
  <2>2. CASE WakeUp(t)
    <3>1. pc[t] = "woken"
      BY <2>2 DEF WakeUp
    <3> QED
      BY Zenon, <2>2, <3>1, WakeUpEntered, LoopBodyQInv DEF WakeUp
  <2> QED
    BY <1>4, <2>1, <2>2, ExecuteQInv, InterruptedQInv, SpuriousWakeUpQInv, SMTT(30) DEF Run
<1>5. ASSUME NEW T \in {Workers, {Master}}, InterruptAll(T) PROVE QInv'
  <2>1. T \in SUBSET Threads
    BY DEF Threads
  <2> QED
    BY <1>5, <2>1, InterruptAllQInv, SMTT(30)
<1>6. CASE UNCHANGED vars
  <2>1. TypeOK' /\ RolesInv' /\ TodoExact' /\ ActiveCounted'
    BY Zenon, <1>6 DEF QInv, TypeOK, RolesInv, TodoExact, InBatches, ActiveCounted
  <2>2. IdleInv'
    BY Zenon, <1>6 DEF QInv, IdleInv, Parked
  <2>3. ResultInv'
    BY Zenon, <1>6 DEF QInv, ResultInv, Active, BatchOk, Valid
  <2> QED
    BY <2>1, <2>2, <2>3, SMTT(30) DEF QInv
<1> QED
  BY <1>1, <1>2, <1>3, <1>4, <1>5, <1>6, SMTT(30) DEF Next

LEMMA QInvAlways == Spec => []QInv
<1>1. Init => QInv
  BY InitQInv, SMTT(30)
<1>2. QInv /\ [Next]_vars => QInv'
  BY NextQInv
<1> QED
  BY <1>1, <1>2, PTL DEF Spec

-----------------------------------------------------------------------------
(* What the queue promises *)

\* The queue and the locals of Loop have their types, and the batch a thread
\* takes is never larger than nBatchSize.
THEOREM QueueTyped == Spec => []TypeOK
<1>1. QInv => TypeOK
  BY SMTT(30) DEF QInv
<1> QED
  BY <1>1, QInvAlways, PTL

\* nTodo is the number of checks that are in the queue or in somebody's batch,
\* whoever is interrupted or notified when.
THEOREM TodoAlwaysExact == Spec => []TodoExact
<1>1. QInv => TodoExact
  BY SMTT(30) DEF QInv
<1> QED
  BY <1>1, QInvAlways, PTL

\* nTotal - nIdle is the number of threads that hold a batch, although a thread
\* that cond.wait throws out of Loop() leaves both counters as they are.
THEOREM ActiveAlwaysCounted == Spec => []ActiveCounted
<1>1. QInv => ActiveCounted
  BY SMTT(30) DEF QInv
<1> QED
  BY <1>1, QInvAlways, PTL

\* When Wait() has returned nothing is queued, no thread holds a batch and the
\* status is reset: assert(isIdle) of the next CCheckQueueControl holds.
THEOREM AlwaysIdleBetweenBlocks == Spec => []IdleBetweenBlocks
<1>1. ASSUME QInv, pc[Master] = "out" PROVE IsIdle /\ queue = <<>>
  <2> DEFINE B == Batches(pc, nNow, Threads)
             A == Active(pc, nNow, Threads)
  <2>1. nTodo = 0 /\ fAllOk = TRUE
    BY <1>1, SMTT(30) DEF QInv, ResultInv, TypeOK
  <2>2. nTodo = Len(queue) + Cardinality(B) /\ nTotal - nIdle = Cardinality(A)
    BY <1>1 DEF QInv, TodoExact, InBatches, ActiveCounted, Batches, Active
  <2>3. IsFiniteSet(B) /\ Cardinality(B) \in Nat
    BY BatchesFinite
  <2>4. Len(queue) = 0 /\ Cardinality(B) = 0
    <3>1. Len(queue) \in Nat
      BY <1>1, SMTT(30) DEF QInv, TypeOK
    <3> HIDE DEF B
    <3> QED
      BY <2>1, <2>2, <2>3, <3>1, SMTT(30)
  <2>5. B = {}
    BY <2>3, <2>4, FS_EmptySet, SMTT(30)
  <2>6. ASSUME NEW t \in A PROVE FALSE
    <3>1. t \in Threads /\ pc[t] \in {"work", "lock"} /\ nNow[t] > 0
      BY <1>1, SMTT(30) DEF Active, QInv, RolesInv
    <3>2. 1 \in 1..nBatchSize /\ 1 <= nNow[t]
      BY <1>1, <3>1, ThreadsAssumption, SMTT(30) DEF QInv, TypeOK
    <3>3. <<t, 1>> \in B
      BY <3>1, <3>2, SMTT(30) DEF Batches
    <3> QED
      BY <2>5, <3>3, SMTT(30)
  <2>7. A = {} /\ Cardinality(A) = 0
    BY <2>6, FS_EmptySet
  <2>8. nTotal = nIdle
    <3>1. nTotal \in Int /\ nIdle \in Int
      BY <1>1, SMTT(30) DEF QInv, TypeOK
    <3> HIDE DEF A
    <3> QED
      BY <2>2, <2>7, <3>1, SMTT(30)
  <2>9. queue = <<>>
    BY <1>1, <2>4, SMTT(30) DEF QInv, TypeOK
  <2> QED
    BY <2>1, <2>8, <2>9, SMTT(30) DEF IsIdle
<1>2. QInv => IdleBetweenBlocks
  BY <1>1, SMTT(30) DEF IdleBetweenBlocks
<1> QED
  BY <1>2, QInvAlways, PTL

\* Wait() returns whether every check that was added for this block is valid:
\* no batch is missed, counted twice or left over from an earlier block.
THEOREM WaitResultRight == Spec => []ResultRight
<1>1. QInv => ResultRight
  BY DEF QInv, ResultInv, ResultRight
<1> QED
  BY <1>1, QInvAlways, PTL

-----------------------------------------------------------------------------
(* The master is not forgotten *)

\* The master sleeps only while nothing is queued and something is not reported.
\* Nobody but the master adds checks, and who reports the last ones wakes it.
SleepInv == pc[Master] = "waiting" => queue = <<>> /\ nTodo # 0

\* From a state where the master sleeps with the given pc and nTodo, a thread
\* that goes through the rest of its critical section keeps SleepInv.
LEMMA LoopBodySleep ==
  ASSUME NEW t \in Threads, NEW total, NEW idle, NEW todo, NEW ok, NEW p \in [Threads -> Labels],
         LoopBody(t, total, idle, todo, ok, p),
         t # Master /\ p[Master] = "waiting" => queue = <<>> /\ todo # 0
  PROVE  SleepInv'
<1> SUFFICES ASSUME pc'[Master] = "waiting" PROVE queue' = <<>> /\ nTodo' # 0
  BY DEF SleepInv
<1>0. Master \in Threads
  BY DEF Threads
<1>1. CASE Return(t, total, todo, ok, p)
  BY Zenon, <1>0, <1>1 DEF Return
<1>2. CASE Sleep(t, total, idle, todo, ok, p)
  BY <1>0, <1>2 DEF Sleep
<1>3. CASE Take(t, total, idle, todo, ok, p)
  <2>1. queue # <<>> /\ pc' = [p EXCEPT ![t] = "work"]
    BY Zenon, <1>3 DEF Take
  <2> QED
    BY <1>0, <2>1
<1> QED
  BY Zenon, <1>1, <1>2, <1>3 DEF LoopBody

LEMMA LockSleep ==
  ASSUME QInv, SleepInv, NEW t \in Threads, Lock(t) PROVE SleepInv'
<1> DEFINE p == NotifyMaster(t)
           todo == TodoAfterBatch(t)
<1>1. pc \in [Threads -> Labels] /\ nNow[t] \in Nat /\ nTodo \in Int /\ Master \in Threads
  BY ThreadsAssumption DEF QInv, TypeOK, Threads
<1>2. p \in [Threads -> Labels]
  BY <1>1 DEF NotifyMaster, Labels
<1>3. ASSUME t # Master, p[Master] = "waiting" PROVE queue = <<>> /\ todo # 0
  <2>1. pc[Master] = "waiting" /\ ~(nNow[t] > 0 /\ nTodo = nNow[t])
    BY <1>1, <1>3 DEF NotifyMaster
  <2>2. queue = <<>> /\ nTodo # 0
    BY <2>1 DEF SleepInv
  <2> QED
    BY <1>1, <2>1, <2>2 DEF TodoAfterBatch
<1> HIDE DEF p, todo
<1>4. PICK total : LoopBody(t, total, nIdle, todo, OkWithBatch(t), p)
  BY Zenon DEF Lock, p, todo
<1> QED
  BY Zenon, <1>2, <1>3, <1>4, LoopBodySleep

LEMMA NextSleep == QInv /\ SleepInv /\ [Next]_vars => SleepInv'
<1> SUFFICES ASSUME QInv, SleepInv, [Next]_vars PROVE SleepInv'
  OBVIOUS
<1>0. pc \in [Threads -> Labels] /\ Master \in Threads /\ Master \notin Workers
  BY ThreadsAssumption DEF QInv, TypeOK, Threads
<1>1. ASSUME pc'[Master] # "waiting" PROVE SleepInv'
  BY <1>1 DEF SleepInv
<1>2. ASSUME pc'[Master] = "waiting" => pc[Master] = "waiting", UNCHANGED <<queue, nTodo>>
      PROVE  SleepInv'
  BY <1>2 DEF SleepInv
<1>3. CASE NewControl \/ Wait
  BY <1>0, <1>1, <1>3 DEF NewControl, Wait
<1>4. ASSUME NEW checks, Add(checks) PROVE SleepInv'
  <2>1. PICK W \in Notified(Len(checks)) : pc' = Woken(pc, W)
    BY Zenon, <1>4 DEF Add
  <2>2. pc'[Master] \in {"adding", "woken"}
    BY <1>0, <1>4, <2>1 DEF Add, Woken
  <2> QED
    BY <1>1, <2>2
<1>5. ASSUME NEW t \in Threads, WakeUp(t) PROVE SleepInv'
  BY Zenon, <1>0, <1>5, LoopBodySleep DEF WakeUp, SleepInv
<1>6. ASSUME NEW t \in Threads, Execute(t) \/ Interrupted(t) \/ SpuriousWakeUp(t)
      PROVE  SleepInv'
  <2>1. \E l \in Labels \ {"waiting"} : pc' = [pc EXCEPT ![t] = l]
    BY <1>6 DEF Execute, Interrupted, SpuriousWakeUp, Labels
  <2>2. pc'[Master] = "waiting" => pc[Master] = "waiting"
    BY <1>0, <2>1
  <2>3. UNCHANGED <<queue, nTodo>>
    BY <1>6 DEF Execute, Interrupted, SpuriousWakeUp, counters
  <2> QED
    BY Zenon, <1>2, <2>2, <2>3
<1>7. ASSUME NEW T, InterruptAll(T) PROVE SleepInv'
  BY <1>2, <1>7 DEF InterruptAll, counters
<1>8. CASE UNCHANGED vars
  BY <1>2, <1>8 DEF vars, counters
<1> QED
  BY Zenon, <1>3, <1>4, <1>5, <1>6, <1>7, <1>8, LockSleep DEF Next, Run

\* While the master sleeps in condMaster.wait some worker holds a batch, whose
\* report will wake it if it is the last one: a notification is never lost, for
\* any number of workers and with interruptions at any time.  This is the safety
\* part of WaitReturns.
THEOREM MasterAlwaysAwaited == Spec => []SleepingMasterAwaited
<1>1. ASSUME QInv, SleepInv, pc[Master] = "waiting"
      PROVE  \E w \in Workers : pc[w] \in {"work", "lock"} /\ nNow[w] > 0
  <2>1. nTodo # 0 /\ nTodo = 0 + Cardinality(InBatches)
    BY <1>1 DEF QInv, TodoExact, SleepInv
  <2>2. InBatches # {}
    BY <2>1, FS_EmptySet
  <2>3. PICK b \in Threads \X (1..nBatchSize) : pc[b[1]] \in {"work", "lock"} /\ b[2] <= nNow[b[1]]
    BY Zenon, <2>2 DEF InBatches
  <2>4. b[1] \in Workers /\ b[2] \in Nat \ {0}
    BY <1>1, <2>3 DEF Threads
  <2>5. nNow[b[1]] \in Nat
    BY <1>1, <2>3, ThreadsAssumption DEF QInv, TypeOK
  <2>6. nNow[b[1]] > 0
    BY <2>3, <2>4, <2>5
  <2> QED
    BY <2>3, <2>4, <2>6
<1>2. QInv /\ SleepInv => SleepingMasterAwaited
  BY Zenon, <1>1 DEF SleepingMasterAwaited
<1>3. Init => SleepInv
  BY ThreadsAssumption DEF Init, SleepInv, Threads
<1>4. QInv /\ SleepInv /\ [Next]_vars => SleepInv'
  BY NextSleep
<1> QED
  BY <1>2, <1>3, <1>4, QInvAlways, PTL DEF Spec

=============================================================================
