--------------------------- MODULE InFlightProofs ---------------------------
(***************************************************************************)
(* Lemmas about the operators of InFlight: what each of them does to the   *)
(* queues, to the index over them, to the workers of thin blocks and to    *)
(* the totals, and what the other changes of the tables leave alone.       *)
(***************************************************************************)
EXTENDS InFlight, FiniteSetTheorems, WellFoundedInduction, TLAPS

\* queuedItem finds an entry for b whenever there is one.
LEMMA QueuedItemFound ==
  ASSUME NEW q \in Seq(QueuedBlock), NEW b, Positions(q, b) # {}
  PROVE  queuedItem(q, b) \in Positions(q, b)
<1> DEFINE T == Positions(q, b)
<1>1. T \subseteq Nat
  BY DEF Positions
<1>2. PICK i \in T : \A j \in T : ~ (<<j, i>> \in OpToRel(<, Nat))
  <2>1. IsWellFoundedOn(OpToRel(<, Nat), Nat)
    BY NatLessThanWellFounded, Zenon
  <2> QED
    BY <2>1, <1>1, WFMin, Zenon
<1>3. \A j \in T : i <= j
  <2> SUFFICES ASSUME NEW j \in T, j < i PROVE FALSE
    BY <1>1
  <2>1. <<j, i>> \in Nat \X Nat
    BY <1>1
  <2>2. <<j, i>> \in OpToRel(<, Nat)
    BY <2>1 DEF OpToRel
  <2> QED
    BY <2>2, <1>2, Zenon
<1> QED
  BY <1>3 DEF queuedItem

Validated(q) == {i \in DOMAIN q : q[i].fValidatedHeaders}

\* What EraseAt does to a queue: one entry less, counted as it was validated.
LEMMA RemovedEntry ==
  ASSUME NEW q \in Seq(QueuedBlock), NEW i \in DOMAIN q
  PROVE  /\ EraseAt(q, i) \in Seq(QueuedBlock)
         /\ Len(EraseAt(q, i)) = Len(q) - 1
         /\ \A k \in 1..Len(q) - 1 : EraseAt(q, i)[k] = IF k < i THEN q[k] ELSE q[k + 1]
<1> DEFINE l == SubSeq(q, 1, i - 1)
           r == SubSeq(q, i + 1, Len(q))
<1>1. i \in 1..Len(q) /\ Len(q) \in Nat
  OBVIOUS
<1>2. l \in Seq(QueuedBlock) /\ Len(l) = i - 1 /\ \A k \in 1..i - 1 : l[k] = q[k]
  BY <1>1
<1>3. r \in Seq(QueuedBlock) /\ Len(r) = Len(q) - i /\ \A k \in 1..Len(q) - i : r[k] = q[k + i]
  BY <1>1
<1> HIDE DEF l, r
<1>4. /\ l \o r \in Seq(QueuedBlock)
      /\ Len(l \o r) = Len(l) + Len(r)
      /\ \A k \in 1..Len(l) + Len(r) : (l \o r)[k] = IF k <= Len(l) THEN l[k] ELSE r[k - Len(l)]
  <2>1. l \in Seq(QueuedBlock) /\ r \in Seq(QueuedBlock)
    BY <1>2, <1>3
  <2> QED
    BY ONLY <2>1
<1>5. ASSUME NEW k \in 1..Len(q) - 1
      PROVE  (l \o r)[k] = IF k < i THEN q[k] ELSE q[k + 1]
  <2>0. i \in Nat /\ k \in Nat /\ 1 <= i /\ i <= Len(q) /\ 1 <= k /\ k <= Len(q) - 1
    BY <1>1
  <2>1. CASE k < i
    <3>1. k \in 1..i - 1 /\ k \in 1..(i - 1) + (Len(q) - i) /\ k <= i - 1
      BY <2>0, <2>1, <1>1
    <3>2. l[k] = q[k]
      BY <3>1, <1>2, Zenon
    <3>3. (l \o r)[k] = l[k]
      BY <3>1, <1>2, <1>3, <1>4, Zenon
    <3> QED
      BY <2>1, <3>2, <3>3, Zenon
  <2>2. CASE ~ (k < i)
    <3>1. /\ k \in 1..(i - 1) + (Len(q) - i) /\ ~ (k <= i - 1)
          /\ k - (i - 1) \in 1..Len(q) - i /\ k - (i - 1) + i = k + 1
      BY <2>0, <2>2, <1>1
    <3>2. (l \o r)[k] = r[k - (i - 1)]
      BY <3>1, <1>2, <1>3, <1>4, Zenon
    <3>3. r[k - (i - 1)] = q[k + 1]
      BY <3>1, <1>3, Zenon
    <3> QED
      BY <2>2, <3>2, <3>3, Zenon
  <2> QED
    BY <2>1, <2>2, Zenon
<1>6. EraseAt(q, i) = l \o r
  BY DEF EraseAt, l, r
<1> QED
  <2>1. l \o r \in Seq(QueuedBlock)
    BY <1>4
  <2>2. Len(l \o r) = Len(q) - 1
    BY <1>1, <1>2, <1>3, <1>4
  <2> QED
    BY <2>1, <2>2, <1>5, <1>6

\* A queue has finitely many validated entries.
LEMMA ValidatedFinite ==
  ASSUME NEW q \in Seq(QueuedBlock)
  PROVE  IsFiniteSet(Validated(q)) /\ Cardinality(Validated(q)) \in Nat
<1>1. IsFiniteSet(1..Len(q))
  BY FS_Interval
<1>2. Validated(q) \subseteq 1..Len(q)
  BY DEF Validated
<1> QED
  BY <1>1, <1>2, FS_Subset, FS_CardinalityType

\* Erasing an entry lowers the count of validated entries by what it counted for.
LEMMA RemovedValidated ==
  ASSUME NEW q \in Seq(QueuedBlock), NEW i \in DOMAIN q
  PROVE  Cardinality(Validated(EraseAt(q, i))) =
           Cardinality(Validated(q)) - One(q[i].fValidatedHeaders)
<1> DEFINE r == EraseAt(q, i)
           A == Validated(q) \ {i}
           f == [k \in Validated(r) |-> IF k < i THEN k ELSE k + 1]
<1>1. /\ r \in Seq(QueuedBlock) /\ Len(r) = Len(q) - 1
      /\ \A k \in 1..Len(q) - 1 : r[k] = IF k < i THEN q[k] ELSE q[k + 1]
      /\ i \in 1..Len(q) /\ Len(q) \in Nat
  BY RemovedEntry
<1> HIDE DEF r
<1>2. f \in [Validated(r) -> A]
  BY <1>1 DEF Validated
<1>3. \A a, b \in Validated(r) : f[a] = f[b] => a = b
  BY <1>1 DEF Validated
<1>4. \A t \in A : \E s \in Validated(r) : f[s] = t
  <2> SUFFICES ASSUME NEW t \in A PROVE \E s \in Validated(r) : f[s] = t
    OBVIOUS
  <2>1. CASE t < i
    <3>1. t \in Validated(r)
      BY <1>1, <2>1 DEF Validated
    <3> QED
      BY <3>1, <2>1
  <2>2. CASE ~ (t < i)
    <3>1. t \in 1..Len(q) /\ t # i /\ q[t].fValidatedHeaders
      BY DEF Validated
    <3>2. t - 1 \in 1..Len(q) - 1 /\ t \in Int /\ ~ (t - 1 < i) /\ t - 1 + 1 = t
      BY <1>1, <2>2, <3>1
    <3>3. r[t - 1] = q[t]
      BY <1>1, <3>2
    <3>4. t - 1 \in Validated(r)
      BY <1>1, <3>1, <3>2, <3>3 DEF Validated
    <3> QED
      BY <3>2, <3>4
  <2> QED
    BY <2>1, <2>2
<1>5. ExistsBijection(Validated(r), A)
  <2>1. f \in Bijection(Validated(r), A)
    <3> DEFINE V == Validated(r)
    <3>1. f \in [V -> A] /\ (\A a, b \in V : f[a] = f[b] => a = b) /\ \A t \in A : \E s \in V : f[s] = t
      BY <1>2, <1>3, <1>4
    <3> HIDE DEF f, A, V
    <3>2. f \in Bijection(V, A)
      BY <3>1 DEF Bijection, Injection, Surjection, IsInjective
    <3> QED
      BY <3>2 DEF V
  <2> QED
    BY <2>1, Zenon DEF ExistsBijection
<1>6. IsFiniteSet(Validated(r)) /\ IsFiniteSet(Validated(q))
  BY <1>1, ValidatedFinite
<1>7. Cardinality(A) = Cardinality(Validated(r))
  BY <1>5, <1>6, FS_Bijection
<1>8. Cardinality(A) = Cardinality(Validated(q)) - One(q[i].fValidatedHeaders)
  <2>1. q[i].fValidatedHeaders <=> i \in Validated(q)
    BY <1>1 DEF Validated
  <2>2. Cardinality(A) = IF i \in Validated(q) THEN Cardinality(Validated(q)) - 1
                         ELSE Cardinality(Validated(q))
    BY <1>6, FS_RemoveElement, Zenon
  <2> QED
    BY <2>1, <2>2, ValidatedFinite DEF One
<1> QED
  BY <1>7, <1>8 DEF r

\* EraseFirst gives a queue.
LEMMA ErasedType ==
  ASSUME NEW q \in Seq(QueuedBlock), NEW b
  PROVE  EraseFirst(q, b) \in Seq(QueuedBlock) /\ FirstValidated(q, b) \in {0, 1}
<1>1. FirstValidated(q, b) \in {0, 1}
  BY DEF FirstValidated, One
<1>2. CASE Positions(q, b) = {}
  BY <1>1, <1>2 DEF EraseFirst
<1>3. CASE Positions(q, b) # {}
  <2>1. queuedItem(q, b) \in DOMAIN q
    BY <1>3, QueuedItemFound DEF Positions
  <2> QED
    BY <1>1, <1>3, <2>1, RemovedEntry DEF EraseFirst
<1> QED
  BY <1>2, <1>3

-----------------------------------------------------------------------------
(* The entries of all queues *)

\* The pairs of a key of f and a member of its set.
Pairs(f) == {e \in (DOMAIN f) \X Nat : e[2] \in f[e[1]]}

\* They are finitely many if the keys and the sets are.
LEMMA PairsFinite ==
  ASSUME NEW Q, IsFiniteSet(Q), NEW f \in [Q -> SUBSET Nat], \A p \in Q : IsFiniteSet(f[p])
  PROVE  IsFiniteSet(Pairs(f))
<1> DEFINE rows == {{p} \X f[p] : p \in Q}
           row == [p \in Q |-> {p} \X f[p]]
<1>1. row \in Surjection(Q, rows)
  BY Zenon DEF Surjection
<1>2. IsFiniteSet(rows)
  <2> HIDE DEF row, rows
  <2> QED
    BY <1>1, FS_Surjection
<1>3. ASSUME NEW T \in rows PROVE IsFiniteSet(T)
  <2>1. PICK p \in Q : T = {p} \X f[p]
    BY Zenon
  <2>2. IsFiniteSet({p}) /\ IsFiniteSet(f[p])
    BY ZenonT(30), FS_Singleton
  <2> QED
    BY <2>1, <2>2, FS_Product
<1>4. Pairs(f) \subseteq UNION rows
  <2> SUFFICES ASSUME NEW e \in Pairs(f) PROVE e \in UNION rows
    OBVIOUS
  <2>1. e \in Q \X Nat /\ e[1] \in Q /\ e[2] \in f[e[1]] /\ e = <<e[1], e[2]>>
    BY DEF Pairs
  <2>2. e \in {e[1]} \X f[e[1]]
    BY <2>1
  <2> QED
    BY <2>1, <2>2
<1>5. IsFiniteSet(UNION rows)
  <2> HIDE DEF rows
  <2> QED
    BY <1>2, <1>3, FS_UNION
<1> QED
  BY <1>4, <1>5, FS_Subset

\* A function from X to Y with an inverse counts X as Y.
LEMMA SameCount ==
  ASSUME NEW X, NEW Y, IsFiniteSet(X), NEW h \in [X -> Y], NEW back \in [Y -> X],
         \A x \in X : back[h[x]] = x, \A y \in Y : h[back[y]] = y
  PROVE  IsFiniteSet(Y) /\ Cardinality(Y) = Cardinality(X)
<1>1. \A a, b \in X : h[a] = h[b] => a = b
  BY Zenon
<1>2. \A y \in Y : \E x \in X : h[x] = y
  OBVIOUS
<1>3. h \in Bijection(X, Y)
  BY <1>1, <1>2 DEF Bijection, Injection, Surjection, IsInjective
<1>4. ExistsBijection(X, Y)
  BY <1>3, Zenon DEF ExistsBijection
<1> QED
  BY <1>4, FS_Bijection

\* In the sets of the peers of H, the members above i[p] move down by one, over i[p],
\* which is a member for the peers of F.
Lowered(f, g, H, i, F) ==
  /\ f \in [Peers -> SUBSET Nat] /\ g \in [Peers -> SUBSET Nat]
  /\ H \in SUBSET Peers /\ i \in [Peers -> Nat] /\ F = {p \in H : i[p] \in f[p]}
  /\ \A p \in Peers \ H : g[p] = f[p]
  /\ \A p \in H, k \in Nat : k \in g[p] <=> IF k < i[p] THEN k \in f[p] ELSE k + 1 \in f[p]

\* Then there are as many pairs less as F has peers.
LEMMA PairsLowered ==
  ASSUME NEW f, NEW g, NEW H, NEW i, NEW F, Lowered(f, g, H, i, F), IsFiniteSet(Pairs(f))
  PROVE  /\ IsFiniteSet(F) /\ IsFiniteSet(Pairs(g))
         /\ Cardinality(Pairs(g)) = Cardinality(Pairs(f)) - Cardinality(F)
<1> DEFINE R == {e \in Pairs(f) : e[1] \in H /\ e[2] = i[e[1]]}
           A == Pairs(f) \ R
           B == Pairs(g)
           spot == [p \in F |-> <<p, i[p]>>]
           at == [e \in R |-> e[1]]
           up == [e \in B |-> IF e[1] \in H /\ ~ (e[2] < i[e[1]]) THEN <<e[1], e[2] + 1>> ELSE e]
           down == [e \in A |-> IF e[1] \in H /\ ~ (e[2] < i[e[1]]) THEN <<e[1], e[2] - 1>> ELSE e]
<1>1. /\ f \in [Peers -> SUBSET Nat] /\ g \in [Peers -> SUBSET Nat] /\ H \in SUBSET Peers
      /\ i \in [Peers -> Nat] /\ F = {p \in H : i[p] \in f[p]}
  BY DEF Lowered
<1>2. /\ \A p \in Peers, k \in Nat : <<p, k>> \in Pairs(f) <=> k \in f[p]
      /\ \A p \in Peers, k \in Nat : <<p, k>> \in Pairs(g) <=> k \in g[p]
      /\ \A e \in Pairs(f) : e \in Peers \X Nat
      /\ \A e \in Pairs(g) : e \in Peers \X Nat
  BY <1>1 DEF Pairs
<1>3. IsFiniteSet(F) /\ IsFiniteSet(R) /\ Cardinality(R) = Cardinality(F)
  <2>1. IsFiniteSet(R)
    BY FS_Subset
  <2>2. at \in [R -> F] /\ spot \in [F -> R]
    BY <1>1, <1>2
  <2>3. (\A e \in R : spot[at[e]] = e) /\ \A p \in F : at[spot[p]] = p
    BY <1>1, <1>2
  <2> HIDE DEF at, spot, R
  <2> QED
    BY <2>1, <2>2, <2>3, SameCount
<1>4. ASSUME NEW p \in Peers, NEW k \in Nat
      PROVE  /\ p \in H => (<<p, k>> \in B <=> IF k < i[p] THEN <<p, k>> \in A ELSE <<p, k + 1>> \in A)
             /\ p \notin H => (<<p, k>> \in B <=> <<p, k>> \in A)
             /\ <<p, k>> \in A => (p \in H => k # i[p])
  BY <1>1, <1>2 DEF Lowered
<1>5. A \subseteq Peers \X Nat /\ B \subseteq Peers \X Nat
  BY <1>1, <1>2
<1> HIDE DEF A, B
<1>6. ASSUME NEW p \in Peers, NEW k \in Nat
      PROVE  /\ <<p, k>> \in B =>
                  up[<<p, k>>] = IF p \in H /\ ~ (k < i[p]) THEN <<p, k + 1>> ELSE <<p, k>>
             /\ <<p, k>> \in A =>
                  down[<<p, k>>] = IF p \in H /\ ~ (k < i[p]) THEN <<p, k - 1>> ELSE <<p, k>>
  OBVIOUS
<1>7. DOMAIN up = B /\ DOMAIN down = A /\ up = [e \in B |-> up[e]] /\ down = [e \in A |-> down[e]]
  BY Zenon
<1> HIDE DEF up, down
<1>8. ASSUME NEW p \in Peers, NEW k \in Nat, <<p, k>> \in B
      PROVE  up[<<p, k>>] \in A /\ down[up[<<p, k>>]] = <<p, k>>
  <2>1. CASE p \in H /\ ~ (k < i[p])
    <3>1. i[p] \in Nat /\ k + 1 \in Nat /\ ~ (k + 1 < i[p]) /\ (k + 1) - 1 = k
      BY <1>1, <2>1
    <3>2. <<p, k + 1>> \in A
      BY <1>4, <1>8, <2>1, Zenon
    <3> QED
      BY <1>6, <1>8, <2>1, <3>1, <3>2, Zenon
  <2>2. CASE ~ (p \in H /\ ~ (k < i[p]))
    <3>1. <<p, k>> \in A
      BY <1>4, <1>8, <2>2, Zenon
    <3> QED
      BY <1>6, <1>8, <2>2, <3>1, Zenon
  <2> QED
    BY <2>1, <2>2, Zenon
<1>9. ASSUME NEW p \in Peers, NEW k \in Nat, <<p, k>> \in A
      PROVE  down[<<p, k>>] \in B /\ up[down[<<p, k>>]] = <<p, k>>
  <2>1. CASE p \in H /\ ~ (k < i[p])
    <3>1. k # i[p]
      BY <1>4, <1>9, <2>1, Zenon
    <3>2. k - 1 \in Nat /\ ~ (k - 1 < i[p]) /\ (k - 1) + 1 = k
      BY <1>1, <2>1, <3>1
    <3>3. <<p, k - 1>> \in B
      BY <1>4, <1>9, <2>1, <3>2, Zenon
    <3> QED
      BY <1>6, <1>9, <2>1, <3>2, <3>3, Zenon
  <2>2. CASE ~ (p \in H /\ ~ (k < i[p]))
    <3>1. <<p, k>> \in B
      BY <1>4, <1>9, <2>2, Zenon
    <3> QED
      BY <1>6, <1>9, <2>2, <3>1, Zenon
  <2> QED
    BY <2>1, <2>2, Zenon
<1>10. /\ \A e \in B : up[e] \in A /\ down[up[e]] = e
      /\ \A e \in A : down[e] \in B /\ up[down[e]] = e
  BY SMT, SMTT(30), <1>5, <1>8, <1>9
<1>11. IsFiniteSet(A) /\ Cardinality(A) = Cardinality(Pairs(f)) - Cardinality(R)
  <2>1. Pairs(f) \cap R = R
    OBVIOUS
  <2> HIDE DEF R
  <2> QED
    BY ZenonT(30), <2>1, FS_Difference DEF A
<1>12. IsFiniteSet(B) /\ Cardinality(B) = Cardinality(A)
  <2>1. up \in [B -> A] /\ down \in [A -> B]
    BY <1>7, <1>10, Zenon
  <2> QED
    BY ONLY <1>10, <1>11, <2>1, SameCount
<1> QED
  BY <1>3, <1>11, <1>12, Zenon DEF B

\* The validated entries of all queues.
Entries(g) == Pairs([p \in Peers |-> Validated(g[p])])

\* There are finitely many.
LEMMA EntriesFinite ==
  ASSUME NEW g \in [Peers -> Seq(QueuedBlock)]
  PROVE  /\ [p \in Peers |-> Validated(g[p])] \in [Peers -> SUBSET Nat]
         /\ IsFiniteSet(Entries(g)) /\ Cardinality(Entries(g)) \in Nat
<1> DEFINE f == [p \in Peers |-> Validated(g[p])]
<1>1. \A p \in Peers : f[p] \in SUBSET Nat /\ IsFiniteSet(f[p])
  <2> SUFFICES ASSUME NEW p \in Peers PROVE f[p] \in SUBSET Nat /\ IsFiniteSet(f[p])
    OBVIOUS
  <2>1. f[p] = Validated(g[p]) /\ g[p] \in Seq(QueuedBlock)
    OBVIOUS
  <2>2. Validated(g[p]) \in SUBSET Nat
    BY <2>1 DEF Validated
  <2> QED
    BY <2>1, <2>2, ValidatedFinite, Zenon
<1>2. f \in [Peers -> SUBSET Nat]
  BY <1>1
<1> HIDE DEF f
<1>3. IsFiniteSet(Pairs(f))
  BY <1>1, <1>2, PairsFinite, PeersAssumption, Zenon
<1> QED
  BY <1>2, <1>3, FS_CardinalityType, Zenon DEF Entries, f

\* What is an entry.
LEMMA EntryOf ==
  ASSUME NEW g \in [Peers -> Seq(QueuedBlock)], NEW p \in Peers, NEW k \in Nat
  PROVE  <<p, k>> \in Entries(g) <=> k \in Validated(g[p])
  BY Zenon DEF Entries, Pairs

\* Each is an entry of a peer.
LEMMA EntryPicked ==
  ASSUME NEW g \in [Peers -> Seq(QueuedBlock)], NEW x \in Entries(g)
  PROVE  \E p \in Peers : \E k \in Validated(g[p]) : x = <<p, k>>
<1>1. x \in Peers \X Nat
  BY Zenon DEF Entries, Pairs
<1>2. PICK p \in Peers, k \in Nat : x = <<p, k>>
  BY <1>1
<1>3. k \in Validated(g[p])
  BY <1>2, EntryOf, Zenon
<1> QED
  BY <1>2, <1>3, Zenon

\* They are those of each peer, taken together.
LEMMA EntriesUnion ==
  ASSUME NEW g \in [Peers -> Seq(QueuedBlock)]
  PROVE  Entries(g) = UNION {{p} \X Validated(g[p]) : p \in Peers}
<1> DEFINE U == UNION {{p} \X Validated(g[p]) : p \in Peers}
<1>1. ASSUME NEW x \in Entries(g) PROVE x \in U
  <2>1. PICK p \in Peers : \E k \in Validated(g[p]) : x = <<p, k>>
    BY EntryPicked, Zenon
  <2>2. x \in {p} \X Validated(g[p])
    BY <2>1
  <2> QED
    BY <2>2, Zenon
<1>2. ASSUME NEW x \in U PROVE x \in Entries(g)
  <2>1. PICK p \in Peers : x \in {p} \X Validated(g[p])
    BY Zenon
  <2>2. Validated(g[p]) \in SUBSET Nat
    BY DEF Validated
  <2>3. PICK k \in Validated(g[p]) : x = <<p, k>>
    BY <2>1
  <2> QED
    BY <2>2, <2>3, EntryOf, Zenon
<1> QED
  BY <1>1, <1>2, Zenon

\* Appending to a queue adds an entry, if it is validated.
LEMMA EntriesAppended ==
  ASSUME NEW g \in [Peers -> Seq(QueuedBlock)], NEW p \in Peers, NEW e \in QueuedBlock,
         NEW h, h = [g EXCEPT ![p] = Append(g[p], e)]
  PROVE  Cardinality(Entries(h)) = Cardinality(Entries(g)) + One(e.fValidatedHeaders)
<1> DEFINE q == g[p]
           n == <<p, Len(q) + 1>>
<1>1. e.fValidatedHeaders \in BOOLEAN
  BY DEF QueuedBlock
<1>2. q \in Seq(QueuedBlock) /\ Len(q) \in Nat
  OBVIOUS
<1>3. \A k \in Nat : k \in Validated(Append(q, e)) <=>
                       k \in Validated(q) \/ (k = Len(q) + 1 /\ e.fValidatedHeaders)
  <2> DEFINE a == Append(q, e)
  <2>1. /\ a \in Seq(QueuedBlock) /\ Len(a) = Len(q) + 1
        /\ \A k \in 1..Len(q) : a[k] = q[k]
        /\ a[Len(q) + 1] = e
    BY <1>2
  <2> HIDE DEF a, q
  <2> QED
    BY <2>1, <1>2 DEF Validated, a
<1>4. Len(q) + 1 \notin Validated(q)
  BY <1>2 DEF Validated
<1>5. h \in [Peers -> Seq(QueuedBlock)] /\ h[p] = Append(q, e) /\ \A r \in Peers : r # p => h[r] = g[r]
  BY <1>2
<1>6. Entries(g) \subseteq Peers \X Nat /\ Entries(h) \subseteq Peers \X Nat
  BY DEF Entries, Pairs
<1> HIDE DEF q
<1>7. ASSUME NEW r \in Peers, NEW k \in Nat
      PROVE  <<r, k>> \in Entries(h) <=>
               <<r, k>> \in Entries(g) \/ (r = p /\ k = Len(q) + 1 /\ e.fValidatedHeaders)
  <2>1. /\ <<r, k>> \in Entries(h) <=> k \in Validated(h[r])
        /\ <<r, k>> \in Entries(g) <=> k \in Validated(g[r])
    BY <1>5, EntryOf, Zenon
  <2> QED
    BY <2>1, <1>3, <1>5, Zenon DEF q
<1>8. ASSUME NEW x
      PROVE  x \in Entries(h) <=> x \in Entries(g) \/ (x = n /\ e.fValidatedHeaders)
  <2>1. n \in Peers \X Nat
    BY <1>2
  <2>2. CASE x \in Peers \X Nat
    <3>1. PICK r \in Peers, k \in Nat : x = <<r, k>>
      BY <2>2
    <3>2. x = n <=> r = p /\ k = Len(q) + 1
      BY <3>1
    <3> QED
      BY <3>1, <3>2, <1>7, Zenon
  <2>3. CASE x \notin Peers \X Nat
    BY <2>1, <2>3, <1>6, Zenon
  <2> QED
    BY <2>2, <2>3, Zenon
<1>9. n \notin Entries(g)
  BY <1>2, <1>4, EntryOf DEF q
<1>10. IsFiniteSet(Entries(g)) /\ Cardinality(Entries(g)) \in Nat
  BY EntriesFinite, Zenon
<1>11. CASE e.fValidatedHeaders
  <2>1. Entries(h) = Entries(g) \cup {n}
    BY <1>8, <1>11, Zenon
  <2> QED
    BY <2>1, <1>9, <1>10, <1>11, FS_AddElement, Zenon DEF One
<1>12. CASE ~ e.fValidatedHeaders
  <2>1. Entries(h) = Entries(g)
    BY <1>8, <1>12, Zenon
  <2> QED
    BY <2>1, <1>10, <1>12 DEF One
<1> QED
  BY <1>1, <1>11, <1>12

\* What EraseAt does to the positions of the validated entries.
LEMMA ShiftedValidated ==
  ASSUME NEW q \in Seq(QueuedBlock), NEW i \in DOMAIN q, NEW k \in Nat
  PROVE  k \in Validated(EraseAt(q, i)) <=>
           IF k < i THEN k \in Validated(q) ELSE k + 1 \in Validated(q)
<1> DEFINE r == EraseAt(q, i)
<1>1. /\ r \in Seq(QueuedBlock) /\ Len(r) = Len(q) - 1
      /\ \A j \in 1..Len(q) - 1 : r[j] = IF j < i THEN q[j] ELSE q[j + 1]
      /\ i \in 1..Len(q) /\ Len(q) \in Nat
  BY RemovedEntry
<1> HIDE DEF r
<1>2. k \in Validated(r) <=> IF k < i THEN k \in Validated(q) ELSE k + 1 \in Validated(q)
  BY <1>1 DEF Validated
<1> QED
  BY <1>2 DEF r

\* The index without the first entry for b of the peers P, and those of them whose
\* entry is validated.
ErasedIndex(g, P, b) == [p \in Peers |-> IF p \in P THEN EraseFirst(g[p], b) ELSE g[p]]
ValidatedBy(g, P, b) == {p \in P : FirstValidated(g[p], b) = 1}

\* Erasing the first entry for b of the peers P takes away the validated ones of them.
LEMMA EntriesErased ==
  ASSUME NEW g \in [Peers -> Seq(QueuedBlock)], NEW P \in SUBSET Peers, NEW b
  PROVE  Cardinality(Entries(ErasedIndex(g, P, b))) =
           Cardinality(Entries(g)) - Cardinality(ValidatedBy(g, P, b))
<1> DEFINE h == [p \in Peers |-> IF p \in P THEN EraseFirst(g[p], b) ELSE g[p]]
           H == {p \in P : Positions(g[p], b) # {}}
           i == [p \in Peers |-> IF p \in H THEN queuedItem(g[p], b) ELSE 0]
           v == [p \in Peers |-> Validated(g[p])]
           w == [p \in Peers |-> Validated(h[p])]
           F == {p \in P : FirstValidated(g[p], b) = 1}
<1>1. h \in [Peers -> Seq(QueuedBlock)]
  <2>1. \A p \in Peers : EraseFirst(g[p], b) \in Seq(QueuedBlock) /\ g[p] \in Seq(QueuedBlock)
    BY ErasedType
  <2> QED
    BY <2>1
<1>2. v \in [Peers -> SUBSET Nat] /\ w \in [Peers -> SUBSET Nat] /\ IsFiniteSet(Entries(g))
  BY <1>1, EntriesFinite, Zenon
<1>3. ASSUME NEW p \in H
      PROVE  /\ p \in Peers /\ i[p] \in DOMAIN g[p] /\ g[p] \in Seq(QueuedBlock) /\ i[p] \in Nat
             /\ h[p] = EraseAt(g[p], i[p])
             /\ FirstValidated(g[p], b) = One(g[p][i[p]].fValidatedHeaders)
  <2>1. p \in Peers /\ i[p] = queuedItem(g[p], b) /\ g[p] \in Seq(QueuedBlock)
    OBVIOUS
  <2>2. queuedItem(g[p], b) \in DOMAIN g[p]
    BY <2>1, QueuedItemFound DEF Positions
  <2>3. DOMAIN g[p] \subseteq Nat
    BY <2>1
  <2>4. h[p] = EraseAt(g[p], queuedItem(g[p], b))
    BY <2>1, Zenon DEF EraseFirst
  <2>5. FirstValidated(g[p], b) = One(g[p][queuedItem(g[p], b)].fValidatedHeaders)
    BY Zenon DEF FirstValidated
  <2> HIDE DEF i
  <2> QED
    BY <2>1, <2>2, <2>3, <2>4, <2>5, Zenon
<1>4. ASSUME NEW p \in Peers \ H PROVE h[p] = g[p] /\ (p \in P => FirstValidated(g[p], b) = 0)
  BY Zenon DEF EraseFirst, FirstValidated
<1>5. i \in [Peers -> Nat]
  <2>1. \A p \in Peers : i[p] \in Nat
    BY <1>3, Zenon
  <2> QED
    BY <2>1
<1> HIDE DEF i, H, h
<1>6. F = {p \in H : i[p] \in v[p]}
  <2>1. ASSUME NEW p \in H PROVE FirstValidated(g[p], b) = 1 <=> i[p] \in v[p]
    <3>1. v[p] = Validated(g[p])
      BY <1>3
    <3>2. i[p] \in Validated(g[p]) <=> g[p][i[p]].fValidatedHeaders
      BY <1>3, Zenon DEF Validated
    <3>3. \A x : One(x) = 1 <=> x
      BY DEF One
    <3> QED
      BY <1>3, <3>1, <3>2, <3>3, Zenon
  <2>2. H \subseteq P
    BY DEF H
  <2>3. ASSUME NEW p \in P PROVE FirstValidated(g[p], b) = 1 <=> p \in H /\ i[p] \in v[p]
    <3>1. CASE p \in H
      BY <2>1, <3>1, Zenon
    <3>2. CASE p \notin H
      <4>1. p \in Peers \ H
        BY <3>2, Zenon
      <4>2. FirstValidated(g[p], b) = 0
        BY <4>1, <1>4, Zenon
      <4> QED
        BY <3>2, <4>2
    <3> QED
      BY <3>1, <3>2, Zenon
  <2> QED
    BY <2>2, <2>3, Zenon
<1>7. H \in SUBSET Peers
  BY DEF H
<1>8. Lowered(v, w, H, i, F)
  <2>1. ASSUME NEW p \in H, NEW k \in Nat
        PROVE  k \in w[p] <=> IF k < i[p] THEN k \in v[p] ELSE k + 1 \in v[p]
    BY <1>3, ShiftedValidated, Zenon
  <2>2. ASSUME NEW p \in Peers \ H PROVE w[p] = v[p]
    BY <1>4
  <2> HIDE DEF v, w, F
  <2> QED
    BY <1>2, <1>5, <1>6, <1>7, <2>1, <2>2, Zenon DEF Lowered
<1> HIDE DEF F, v, w
<1>9. IsFiniteSet(Pairs(v))
  BY <1>2, Zenon DEF Entries, v
<1>10. Cardinality(Pairs(w)) = Cardinality(Pairs(v)) - Cardinality(F)
  BY <1>8, <1>9, PairsLowered, Zenon
<1>11. h = ErasedIndex(g, P, b) /\ F = ValidatedBy(g, P, b)
  BY Zenon DEF h, F, ErasedIndex, ValidatedBy
<1> QED
  BY <1>10, <1>11, Zenon DEF Entries, v, w

\* Taking a queue away leaves no more entries.
LEMMA EntriesDropped ==
  ASSUME NEW g \in [Peers -> Seq(QueuedBlock)], NEW h \in [Peers -> Seq(QueuedBlock)],
         \A r \in Peers : h[r] = g[r] \/ h[r] = <<>>
  PROVE  Cardinality(Entries(h)) <= Cardinality(Entries(g))
<1>1. \A r \in Peers : Validated(h[r]) \subseteq Validated(g[r])
  BY DEF Validated
<1>2. Entries(h) \subseteq Entries(g)
  BY <1>1, Zenon DEF Entries, Pairs
<1> QED
  BY <1>2, EntriesFinite, FS_Subset

\* One element more or less.
LEMMA Recounted ==
  ASSUME NEW X, NEW Y, NEW p, IsFiniteSet(X), X \ {p} = Y \ {p}
  PROVE  Cardinality(Y) = (Cardinality(X) - One(p \in X)) + One(p \in Y)
<1> DEFINE Z == X \ {p}
<1>1. IsFiniteSet(Z) /\ Cardinality(Z) = IF p \in X THEN Cardinality(X) - 1 ELSE Cardinality(X)
  BY FS_RemoveElement, Zenon
<1>2. Cardinality(X) \in Nat
  BY FS_CardinalityType
<1>3. Cardinality(Z) = Cardinality(X) - One(p \in X)
  BY ONLY <1>1, <1>2 DEF One
<1>4. Cardinality(Z) \in Nat
  BY <1>1, FS_CardinalityType, Zenon
<1>5. CASE p \in Y
  <2>1. Y = Z \cup {p} /\ p \notin Z
    BY <1>5
  <2> HIDE DEF Z
  <2>2. Cardinality(Y) = Cardinality(Z) + 1
    BY <1>1, <2>1, FS_AddElement, Zenon
  <2> QED
    BY <1>3, <1>5, <2>2, Zenon DEF One
<1>6. CASE p \notin Y
  <2>1. Y = Z
    BY <1>6
  <2> HIDE DEF Z
  <2>2. Cardinality(Y) = Cardinality(Z) + One(p \in Y)
    BY ONLY <1>4, <1>6, <2>1 DEF One
  <2> QED
    BY <1>3, <2>2, Zenon
<1> QED
  BY <1>5, <1>6, Zenon

-----------------------------------------------------------------------------
(* The tables *)

NodeState ==
  [vBlocksInFlight : Seq(QueuedBlock), nBlocksInFlight : Int,
   nBlocksInFlightValidHeaders : Int, nStallingSince : BOOLEAN,
   pindexBestKnownBlock : Blocks \cup {NULL}, hashLastUnknownBlock : Blocks \cup {NULL},
   pindexLastCommonBlock : Blocks \cup {NULL}, unconnectingHeaders : BOOLEAN,
   fSyncStarted : BOOLEAN, fPreferredDownload : BOOLEAN,
   thinblock : [dummy : BOOLEAN, blocks : SUBSET Blocks]]

Builder == [workers : SUBSET Peers, stub : BOOLEAN]

Tables ==
  [mapNodeState : SUBSET Peers, node : [Peers -> NodeState],
   inFlight : [Peers -> Seq(QueuedBlock)], builders : [Blocks -> Builder \cup {NULL}],
   nQueuedValidatedHeaders : Int, nPreferredDownload : Int, nSyncStarted : Int,
   mapBlockIndex : SUBSET Blocks, haveData : SUBSET Blocks, tip : Blocks, aborted : BOOLEAN]

Counted(n) ==
  /\ n.nBlocksInFlight = Len(n.vBlocksInFlight)
  /\ n.nBlocksInFlightValidHeaders = Cardinality(Validated(n.vBlocksInFlight))

QueuesSound(s) ==
  \A p \in Peers : /\ Counted(s.node[p])
                   /\ s.inFlight[p] = IF p \in s.mapNodeState THEN s.node[p].vBlocksInFlight
                                      ELSE <<>>

\* What nQueuedValidatedHeaders counts besides the validated blocks in flight.
Surplus(s) == s.nQueuedValidatedHeaders - Cardinality(Entries(s.inFlight))

\* The peers that are preferred and those that headers are asked of are counted.
Tallied(s) ==
  /\ s.nPreferredDownload = Cardinality({p \in s.mapNodeState : s.node[p].fPreferredDownload})
  /\ s.nSyncStarted = Cardinality({p \in s.mapNodeState : s.node[p].fSyncStarted})

SameTotals(s, t) == Surplus(t) = Surplus(s) /\ (Tallied(s) => Tallied(t))

SameFlags(n, m) ==
  m.fPreferredDownload = n.fPreferredDownload /\ m.fSyncStarted = n.fSyncStarted

\* The peers are counted as they were if none of them changes its flags.
LEMMA FlagsTallied ==
  ASSUME NEW s, NEW t, s.mapNodeState \subseteq Peers, t.mapNodeState = s.mapNodeState,
         t.nPreferredDownload = s.nPreferredDownload, t.nSyncStarted = s.nSyncStarted,
         \A p \in Peers : SameFlags(s.node[p], t.node[p])
  PROVE  Tallied(s) => Tallied(t)
<1>1. {p \in t.mapNodeState : t.node[p].fPreferredDownload} =
        {p \in s.mapNodeState : s.node[p].fPreferredDownload}
  BY Zenon DEF SameFlags
<1>2. {p \in t.mapNodeState : t.node[p].fSyncStarted} =
        {p \in s.mapNodeState : s.node[p].fSyncStarted}
  BY Zenon DEF SameFlags
<1> QED
  BY <1>1, <1>2, Zenon DEF Tallied

\* What the in-flight tables have nothing to do with is as before, no work is added
\* for a peer without a state, and the totals agree as they did.
SameElsewhere(s, t) ==
  /\ t.mapNodeState = s.mapNodeState /\ t.mapBlockIndex = s.mapBlockIndex
  /\ t.haveData = s.haveData /\ t.tip = s.tip
  /\ \A p \in Peers : t.node[p].pindexLastCommonBlock = s.node[p].pindexLastCommonBlock
  /\ \A p \in Peers \ s.mapNodeState :
       t.node[p].thinblock.blocks \subseteq s.node[p].thinblock.blocks
  /\ SameTotals(s, t)

SameWorkers(s, t) ==
  /\ t.builders = s.builders /\ t.aborted = s.aborted
  /\ \A p \in Peers : t.node[p].thinblock = s.node[p].thinblock

\* Appending one raises it by what it counts for.
LEMMA AppendedValidated ==
  ASSUME NEW q \in Seq(QueuedBlock), NEW e \in QueuedBlock
  PROVE  Cardinality(Validated(Append(q, e))) = Cardinality(Validated(q)) + One(e.fValidatedHeaders)
<1> DEFINE r == Append(q, e)
<1>1. /\ r \in Seq(QueuedBlock) /\ Len(r) = Len(q) + 1 /\ Len(q) \in Nat
      /\ \A k \in 1..Len(q) : r[k] = q[k]
      /\ r[Len(q) + 1] = e
  OBVIOUS
<1> HIDE DEF r
<1>2. e.fValidatedHeaders \in BOOLEAN
  BY DEF QueuedBlock
<1>3. CASE e.fValidatedHeaders
  <2>1. Validated(r) = Validated(q) \cup {Len(q) + 1} /\ Len(q) + 1 \notin Validated(q)
    BY <1>1, <1>3 DEF Validated
  <2> QED
    BY <2>1, <1>3, ValidatedFinite, FS_AddElement, Zenon DEF One, r
<1>4. CASE ~ e.fValidatedHeaders
  <2>1. Validated(r) = Validated(q)
    BY <1>1, <1>4 DEF Validated
  <2> QED
    BY <2>1, <1>4, ValidatedFinite DEF One, r
<1> QED
  BY <1>2, <1>3, <1>4

\* What MarkBlockAsInFlight does to the state of the peer: its counters still agree.
LEMMA EnqueuedState ==
  ASSUME NEW n \in NodeState, NEW e \in QueuedBlock
  PROVE  /\ Enqueued(n, e) \in NodeState
         /\ Enqueued(n, e).vBlocksInFlight = Append(n.vBlocksInFlight, e)
         /\ Enqueued(n, e).thinblock = n.thinblock
         /\ Enqueued(n, e).pindexLastCommonBlock = n.pindexLastCommonBlock
         /\ SameFlags(n, Enqueued(n, e))
         /\ Counted(n) => Counted(Enqueued(n, e))
<1> DEFINE q == Append(n.vBlocksInFlight, e)
           k == n.nBlocksInFlight + 1
           v == n.nBlocksInFlightValidHeaders + One(e.fValidatedHeaders)
           m == [n EXCEPT !.vBlocksInFlight = q, !.nBlocksInFlight = k,
                          !.nBlocksInFlightValidHeaders = v]
<1>1. /\ n.vBlocksInFlight \in Seq(QueuedBlock) /\ n.nBlocksInFlight \in Int
      /\ n.nBlocksInFlightValidHeaders \in Int /\ One(e.fValidatedHeaders) \in Int
  BY DEF NodeState, One
<1>2. q \in Seq(QueuedBlock) /\ k \in Int /\ v \in Int
  BY <1>1
<1>3. Enqueued(n, e) = m
  BY DEF Enqueued
<1> HIDE DEF q, k, v
<1>4. m \in NodeState
  BY <1>2, Zenon DEF NodeState
<1>5. m.vBlocksInFlight = q /\ m.nBlocksInFlight = k /\ m.nBlocksInFlightValidHeaders = v
  BY <1>2 DEF NodeState
<1>6. m.thinblock = n.thinblock /\ m.pindexLastCommonBlock = n.pindexLastCommonBlock
  BY <1>2 DEF NodeState
<1>7. SameFlags(n, m)
  BY <1>2 DEF NodeState, SameFlags
<1> HIDE DEF m
<1>8. ASSUME Counted(n) PROVE Counted(m)
  <2>1. k = Len(q)
    BY <1>1, <1>8 DEF Counted, k, q
  <2>2. v = Cardinality(Validated(q))
    BY <1>1, <1>8, AppendedValidated DEF Counted, v, q
  <2> QED
    BY <2>1, <2>2, <1>5 DEF Counted
<1> QED
  BY <1>3, <1>4, <1>5, <1>6, <1>8, <1>7 DEF q

\* The tables with other node states, another index and another total.
WithRequests(s, c, f, g) ==
  [s EXCEPT !.nQueuedValidatedHeaders = c, !.node = f, !.inFlight = g]

SameRest(s, t) ==
  /\ t.builders = s.builders /\ t.aborted = s.aborted /\ t.mapNodeState = s.mapNodeState
  /\ t.mapBlockIndex = s.mapBlockIndex /\ t.haveData = s.haveData /\ t.tip = s.tip
  /\ t.nPreferredDownload = s.nPreferredDownload /\ t.nSyncStarted = s.nSyncStarted

\* They are tables, and what is not named is as before.
LEMMA PutRequests ==
  ASSUME NEW s \in Tables, NEW f \in [Peers -> NodeState],
         NEW g \in [Peers -> Seq(QueuedBlock)], NEW c \in Int,
         NEW t, t = WithRequests(s, c, f, g)
  PROVE  /\ t \in Tables
         /\ t.node = f /\ t.inFlight = g /\ t.nQueuedValidatedHeaders = c
         /\ SameRest(s, t)
<1>1. t \in Tables
  BY Zenon DEF Tables, WithRequests
<1>2. t.node = f /\ t.inFlight = g /\ t.nQueuedValidatedHeaders = c
  BY DEF Tables, WithRequests
<1>3. t.builders = s.builders /\ t.aborted = s.aborted /\ t.mapNodeState = s.mapNodeState
  BY DEF Tables, WithRequests
<1>4. t.mapBlockIndex = s.mapBlockIndex /\ t.haveData = s.haveData /\ t.tip = s.tip
  BY DEF Tables, WithRequests
<1>5. t.nPreferredDownload = s.nPreferredDownload /\ t.nSyncStarted = s.nSyncStarted
  BY DEF Tables, WithRequests
<1> QED
  BY <1>1, <1>2, <1>3, <1>4, <1>5 DEF SameRest

\* The types of the parts.
LEMMA TableTypes ==
  ASSUME NEW s \in Tables
  PROVE  /\ s.mapNodeState \subseteq Peers /\ s.node \in [Peers -> NodeState]
         /\ s.inFlight \in [Peers -> Seq(QueuedBlock)]
         /\ s.builders \in [Blocks -> Builder \cup {NULL}]
         /\ s.nQueuedValidatedHeaders \in Int /\ s.nPreferredDownload \in Int
         /\ s.nSyncStarted \in Int
         /\ s.mapBlockIndex \subseteq Blocks /\ s.haveData \subseteq Blocks /\ s.tip \in Blocks
         /\ s.aborted \in BOOLEAN
  BY DEF Tables

\* MarkBlockAsInFlight keeps the index equal to the queues.
LEMMA MarkedInFlight ==
  ASSUME NEW s \in Tables, QueuesSound(s), NEW p \in s.mapNodeState,
         NEW b \in Blocks, NEW validated \in BOOLEAN
  PROVE  LET t == MarkBlockAsInFlight(s, p, b, validated) IN
         t \in Tables /\ QueuesSound(t) /\ SameElsewhere(s, t) /\ SameWorkers(s, t)
<1> DEFINE t == MarkBlockAsInFlight(s, p, b, validated)
           e == [hash |-> b, fValidatedHeaders |-> validated]
           c == s.nQueuedValidatedHeaders + One(validated)
           f == [s.node EXCEPT ![p] = Enqueued(s.node[p], e)]
           g == [s.inFlight EXCEPT ![p] = Append(s.inFlight[p], e)]
<1>1. /\ p \in Peers /\ s.node \in [Peers -> NodeState]
      /\ s.inFlight \in [Peers -> Seq(QueuedBlock)] /\ s.nQueuedValidatedHeaders \in Int
  BY TableTypes
<1>2. e \in QueuedBlock
  BY DEF QueuedBlock
<1>3. t = WithRequests(s, c, f, g)
  BY DEF MarkBlockAsInFlight, WithRequests
<1> HIDE DEF t, e
<1>4. f \in [Peers -> NodeState] /\ g \in [Peers -> Seq(QueuedBlock)] /\ c \in Int
  <2>1. Enqueued(s.node[p], e) \in NodeState
    BY <1>1, <1>2, EnqueuedState
  <2>2. Append(s.inFlight[p], e) \in Seq(QueuedBlock)
    BY <1>1, <1>2
  <2>3. One(validated) \in Int
    BY DEF One
  <2> QED
    BY <1>1, <2>1, <2>2, <2>3
<1> HIDE DEF f, g, c
<1>5. /\ t \in Tables
      /\ t.node = f /\ t.inFlight = g /\ t.nQueuedValidatedHeaders = c
      /\ SameRest(s, t)
  BY SMT, SMTT(30), <1>3, <1>4, PutRequests
<1>6. ASSUME NEW r \in Peers
      PROVE  /\ Counted(f[r])
             /\ g[r] = IF r \in s.mapNodeState THEN f[r].vBlocksInFlight ELSE <<>>
  <2>1. /\ Counted(s.node[r])
        /\ s.inFlight[r] = IF r \in s.mapNodeState THEN s.node[r].vBlocksInFlight ELSE <<>>
    BY DEF QueuesSound
  <2>2. CASE r = p
    <3>1. f[p] = Enqueued(s.node[p], e) /\ g[p] = Append(s.inFlight[p], e)
      BY <1>1 DEF f, g
    <3>2. s.node[p] \in NodeState
      BY <1>1
    <3> HIDE DEF e
    <3>3. /\ Enqueued(s.node[p], e).vBlocksInFlight = Append(s.node[p].vBlocksInFlight, e)
          /\ Counted(s.node[p]) => Counted(Enqueued(s.node[p], e))
      BY <3>2, <1>2, EnqueuedState, Zenon
    <3>4. s.inFlight[p] = s.node[p].vBlocksInFlight
      BY <2>1, <2>2, Zenon
    <3> QED
      BY <3>1, <3>3, <3>4, <2>1, <2>2, Zenon
  <2>3. CASE r # p
    BY <2>1, <2>3, <1>1 DEF f, g
  <2> QED
    BY <2>2, <2>3
<1>7. \A r \in Peers : /\ f[r].thinblock = s.node[r].thinblock
                       /\ f[r].pindexLastCommonBlock = s.node[r].pindexLastCommonBlock
                       /\ SameFlags(s.node[r], f[r])
  BY <1>1, <1>2, EnqueuedState DEF f, SameFlags
<1>8. Surplus(t) = Surplus(s)
  <2>1. Cardinality(Entries(g)) = Cardinality(Entries(s.inFlight)) + One(e.fValidatedHeaders)
    BY <1>1, <1>2, EntriesAppended DEF g
  <2>2. e.fValidatedHeaders = validated /\ One(validated) \in Int
    BY DEF e, One
  <2>3. Cardinality(Entries(s.inFlight)) \in Nat
    BY <1>1, EntriesFinite
  <2> QED
    BY <1>1, <1>5, <2>1, <2>2, <2>3 DEF Surplus, c
<1>9. SameTotals(s, t)
  BY <1>5, <1>7, <1>8, FlagsTallied, TableTypes, Zenon DEF SameTotals, SameRest
<1> QED
  BY <1>5, <1>6, <1>7, <1>9 DEF QueuesSound, SameRest, SameElsewhere, SameWorkers, t

\* InFlightEraserImpl erases from the queue what it erases from the index.
LEMMA ErasedState ==
  ASSUME NEW n \in NodeState, NEW q, q = n.vBlocksInFlight, NEW b
  PROVE  /\ ErasedFrom(n, q, b) \in NodeState
         /\ ErasedFrom(n, q, b).thinblock = n.thinblock
         /\ ErasedFrom(n, q, b).pindexLastCommonBlock = n.pindexLastCommonBlock
         /\ SameFlags(n, ErasedFrom(n, q, b))
         /\ ErasedFrom(n, q, b).vBlocksInFlight = EraseFirst(q, b)
         /\ Counted(n) => Counted(ErasedFrom(n, q, b))
<1>1. CASE Positions(q, b) = {}
  BY <1>1 DEF ErasedFrom, EraseFirst, SameFlags
<1>2. CASE Positions(q, b) # {}
  <2> DEFINE r == EraseFirst(n.vBlocksInFlight, b)
             k == n.nBlocksInFlight - 1
             v == n.nBlocksInFlightValidHeaders - FirstValidated(q, b)
             m == [n EXCEPT !.vBlocksInFlight = r, !.nBlocksInFlight = k,
                            !.nBlocksInFlightValidHeaders = v, !.nStallingSince = FALSE]
  <2>1. /\ n.vBlocksInFlight \in Seq(QueuedBlock) /\ n.nBlocksInFlight \in Int
        /\ n.nBlocksInFlightValidHeaders \in Int
    BY DEF NodeState
  <2>2. r \in Seq(QueuedBlock) /\ k \in Int /\ v \in Int
    BY <2>1, ErasedType
  <2>3. ErasedFrom(n, q, b) = m
    BY <1>2 DEF ErasedFrom
  <2> HIDE DEF r, k, v
  <2>4. m \in NodeState
    BY <2>2, Zenon DEF NodeState
  <2>5. m.vBlocksInFlight = r /\ m.nBlocksInFlight = k /\ m.nBlocksInFlightValidHeaders = v
    BY <2>2 DEF NodeState
  <2>6. m.thinblock = n.thinblock /\ m.pindexLastCommonBlock = n.pindexLastCommonBlock
    BY <2>2 DEF NodeState
  <2>8. SameFlags(n, m)
    BY <2>2 DEF NodeState, SameFlags
  <2> HIDE DEF m
  <2>7. ASSUME Counted(n) PROVE Counted(m)
    <3> DEFINE i == queuedItem(q, b)
    <3>1. i \in DOMAIN q
      BY <1>2, <2>1, QueuedItemFound DEF Positions
    <3> HIDE DEF i
    <3>2. /\ n.nBlocksInFlight = Len(q)
          /\ n.nBlocksInFlightValidHeaders = Cardinality(Validated(q))
      BY <2>7 DEF Counted
    <3>3. r = EraseAt(q, i) /\ FirstValidated(q, b) = One(q[i].fValidatedHeaders)
      BY <1>2 DEF r, i, EraseFirst, FirstValidated
    <3>4. k = Len(r)
      BY <2>1, <3>1, <3>2, <3>3, RemovedEntry DEF k
    <3>5. v = Cardinality(Validated(r))
      BY <2>1, <3>1, <3>2, <3>3, RemovedValidated DEF v
    <3> QED
      BY <3>4, <3>5, <2>5 DEF Counted
  <2> QED
    BY <2>3, <2>4, <2>5, <2>6, <2>7, <2>8 DEF r
<1> QED
  BY <1>1, <1>2

\* It keeps the index equal to the queues, for any set of peers.
LEMMA Erased ==
  ASSUME NEW s \in Tables, QueuesSound(s), NEW P \in SUBSET Peers, IsFiniteSet(P), NEW b
  PROVE  LET t == InFlightEraser(s, P, b) IN
         t \in Tables /\ QueuesSound(t) /\ SameElsewhere(s, t) /\ SameWorkers(s, t)
<1> DEFINE t == InFlightEraser(s, P, b)
           F == {p \in P : FirstValidated(s.inFlight[p], b) = 1}
           c == s.nQueuedValidatedHeaders - Cardinality(F)
           f == [p \in Peers |-> IF p \in P \cap s.mapNodeState
                                 THEN ErasedFrom(s.node[p], s.inFlight[p], b) ELSE s.node[p]]
           g == [p \in Peers |-> IF p \in P THEN EraseFirst(s.inFlight[p], b)
                                 ELSE s.inFlight[p]]
<1>1. /\ s.node \in [Peers -> NodeState] /\ s.inFlight \in [Peers -> Seq(QueuedBlock)]
      /\ s.nQueuedValidatedHeaders \in Int
  BY TableTypes
<1>2. t = WithRequests(s, c, f, g)
  BY DEF InFlightEraser, WithRequests
<1> HIDE DEF t
<1>3. c \in Int /\ Cardinality(F) \in Nat
  <2>1. Cardinality(F) \in Nat
    BY SMT, ZenonT(30), FS_Subset, FS_CardinalityType
  <2> QED
    BY <1>1, <2>1
<1>4. ASSUME NEW r \in Peers
      PROVE  /\ f[r] \in NodeState
             /\ g[r] \in Seq(QueuedBlock)
             /\ Counted(f[r])
             /\ g[r] = IF r \in s.mapNodeState THEN f[r].vBlocksInFlight ELSE <<>>
             /\ f[r].thinblock = s.node[r].thinblock
             /\ f[r].pindexLastCommonBlock = s.node[r].pindexLastCommonBlock
             /\ SameFlags(s.node[r], f[r])
  <2>1. /\ Counted(s.node[r])
        /\ s.inFlight[r] = IF r \in s.mapNodeState THEN s.node[r].vBlocksInFlight ELSE <<>>
        /\ s.node[r] \in NodeState /\ s.inFlight[r] \in Seq(QueuedBlock)
    BY <1>1, SMTT(30) DEF QueuesSound
  <2>2. CASE r \in P /\ r \in s.mapNodeState
    <3>1. f[r] = ErasedFrom(s.node[r], s.inFlight[r], b) /\ g[r] = EraseFirst(s.inFlight[r], b)
      BY <2>2
    <3> HIDE DEF f, g
    <3> QED
      BY SMT, SMTT(30), <3>1, <2>1, <2>2, ErasedState, ErasedType
  <2>3. CASE r \in P /\ r \notin s.mapNodeState
    <3>1. f[r] = s.node[r] /\ g[r] = EraseFirst(s.inFlight[r], b)
      BY <2>3
    <3>2. g[r] = s.inFlight[r]
      BY <3>1, <2>1, <2>3 DEF EraseFirst, Positions
    <3> QED
      BY <3>1, <3>2, <2>1, Zenon DEF SameFlags
  <2>4. CASE r \notin P
    BY <2>4, <2>1, Zenon DEF SameFlags
  <2> QED
    BY <2>2, <2>3, <2>4
<1>5. f \in [Peers -> NodeState]
  BY <1>4
<1>6. g \in [Peers -> Seq(QueuedBlock)]
  BY <1>4
<1> HIDE DEF F, c, f, g
<1>7. /\ t \in Tables
      /\ t.node = f /\ t.inFlight = g /\ t.nQueuedValidatedHeaders = c
      /\ SameRest(s, t)
  BY <1>2, <1>3, <1>5, <1>6, PutRequests, SMTT(30)
<1>8. Surplus(t) = Surplus(s)
  <2>1. Cardinality(Entries(g)) = Cardinality(Entries(s.inFlight)) - Cardinality(F)
    <3>1. g = ErasedIndex(s.inFlight, P, b) /\ F = ValidatedBy(s.inFlight, P, b)
      BY DEF g, F, ErasedIndex, ValidatedBy
    <3> QED
      BY <3>1, <1>1, EntriesErased, Zenon
  <2>2. Cardinality(Entries(s.inFlight)) \in Nat /\ Cardinality(F) \in Nat
    BY <1>1, <1>3, EntriesFinite
  <2> QED
    BY <1>1, <1>7, <2>1, <2>2 DEF Surplus, c
<1>9. SameTotals(s, t)
  BY <1>4, <1>7, <1>8, FlagsTallied, TableTypes, Zenon DEF SameTotals, SameRest
<1> QED
  BY <1>4, <1>7, <1>9 DEF QueuesSound, SameRest, SameElsewhere, SameWorkers, t

-----------------------------------------------------------------------------
(* Workers *)

WorkersOf(s, b) == {p \in Peers : isWorkingOn(s, p, b)}

\* The manager knows the workers W of a block.
KnownTo(builder, W) ==
  IF W = {} THEN builder = NULL ELSE builder \in Builder /\ builder.workers = W

WorkersSound(s) == ~ s.aborted /\ \A b \in Blocks : KnownTo(s.builders[b], WorkersOf(s, b))

\* The tables with other node states and builders.
WithWork(s, f, h) == [s EXCEPT !.node = f, !.builders = h]

SameCounts(s, t) ==
  /\ t.nQueuedValidatedHeaders = s.nQueuedValidatedHeaders
  /\ t.nPreferredDownload = s.nPreferredDownload /\ t.nSyncStarted = s.nSyncStarted

SameRequests(s, t) ==
  /\ t.inFlight = s.inFlight /\ t.aborted = s.aborted /\ t.mapNodeState = s.mapNodeState
  /\ t.mapBlockIndex = s.mapBlockIndex /\ t.haveData = s.haveData /\ t.tip = s.tip
  /\ SameCounts(s, t)

\* They are tables, and the requests are as before.
LEMMA PutWork ==
  ASSUME NEW s \in Tables, NEW f \in [Peers -> NodeState],
         NEW h \in [Blocks -> Builder \cup {NULL}], NEW t, t = WithWork(s, f, h)
  PROVE  t \in Tables /\ t.node = f /\ t.builders = h /\ SameRequests(s, t)
<1>1. t \in Tables
  BY Zenon DEF Tables, WithWork
<1>2. t.node = f /\ t.builders = h
  BY DEF Tables, WithWork
<1>3. t.inFlight = s.inFlight /\ t.aborted = s.aborted /\ t.mapNodeState = s.mapNodeState
  BY DEF Tables, WithWork
<1>4. t.mapBlockIndex = s.mapBlockIndex /\ t.haveData = s.haveData /\ t.tip = s.tip
  BY DEF Tables, WithWork
<1>5. SameCounts(s, t)
  BY DEF Tables, WithWork, SameCounts
<1> QED
  BY <1>1, <1>2, <1>3, <1>4, <1>5 DEF SameRequests

WithBuilders(s, h) == [s EXCEPT !.builders = h]

\* The same with other builders only.
LEMMA PutBuilders ==
  ASSUME NEW s \in Tables, NEW h \in [Blocks -> Builder \cup {NULL}],
         NEW t, t = WithBuilders(s, h)
  PROVE  t \in Tables /\ t.node = s.node /\ t.builders = h /\ SameRequests(s, t)
<1>1. t \in Tables
  BY Zenon DEF Tables, WithBuilders
<1>2. t.node = s.node /\ t.builders = h
  BY DEF Tables, WithBuilders
<1>3. t.inFlight = s.inFlight /\ t.aborted = s.aborted /\ t.mapNodeState = s.mapNodeState
  BY DEF Tables, WithBuilders
<1>4. t.mapBlockIndex = s.mapBlockIndex /\ t.haveData = s.haveData /\ t.tip = s.tip
  BY DEF Tables, WithBuilders
<1>5. SameCounts(s, t)
  BY DEF Tables, WithBuilders, SameCounts
<1> QED
  BY <1>1, <1>2, <1>3, <1>4, <1>5 DEF SameRequests

WithNodes(s, f) == [s EXCEPT !.node = f]

\* The same with other node states only.
LEMMA PutNodes ==
  ASSUME NEW s \in Tables, NEW f \in [Peers -> NodeState], NEW t, t = WithNodes(s, f)
  PROVE  t \in Tables /\ t.node = f /\ t.builders = s.builders /\ SameRequests(s, t)
<1>1. t \in Tables
  BY Zenon DEF Tables, WithNodes
<1>2. t.node = f /\ t.builders = s.builders
  BY DEF Tables, WithNodes
<1>3. t.inFlight = s.inFlight /\ t.aborted = s.aborted /\ t.mapNodeState = s.mapNodeState
  BY DEF Tables, WithNodes
<1>4. t.mapBlockIndex = s.mapBlockIndex /\ t.haveData = s.haveData /\ t.tip = s.tip
  BY DEF Tables, WithNodes
<1>5. SameCounts(s, t)
  BY DEF Tables, WithNodes, SameCounts
<1> QED
  BY <1>1, <1>2, <1>3, <1>4, <1>5 DEF SameRequests

\* A state that differs from n in nothing but the blocks the worker builds.
SameButWork(n, m) ==
  /\ m.vBlocksInFlight = n.vBlocksInFlight
  /\ m.pindexLastCommonBlock = n.pindexLastCommonBlock
  /\ Counted(n) => Counted(m)
  /\ SameFlags(n, m)

\* What the worker builds is no part of the queue.
LEMMA WorkingState ==
  ASSUME NEW n \in NodeState, NEW bs \in SUBSET Blocks
  PROVE  /\ Working(n, bs) \in NodeState
         /\ Working(n, bs).thinblock.blocks = bs
         /\ SameButWork(n, Working(n, bs))
<1> DEFINE w == [n.thinblock EXCEPT !.blocks = bs]
           m == [n EXCEPT !.thinblock = w]
<1>1. n.thinblock \in [dummy : BOOLEAN, blocks : SUBSET Blocks]
  BY DEF NodeState
<1>2. w \in [dummy : BOOLEAN, blocks : SUBSET Blocks] /\ w.blocks = bs
  BY <1>1
<1>3. Working(n, bs) = m
  BY DEF Working
<1> HIDE DEF w
<1>4. m \in NodeState
  BY <1>2, SMTT(30) DEF NodeState
<1>5. m.thinblock = w
  BY <1>2 DEF NodeState
<1>6. m.vBlocksInFlight = n.vBlocksInFlight /\ m.nBlocksInFlight = n.nBlocksInFlight
  BY <1>2 DEF NodeState
<1>7. /\ m.nBlocksInFlightValidHeaders = n.nBlocksInFlightValidHeaders
      /\ m.pindexLastCommonBlock = n.pindexLastCommonBlock
  BY <1>2 DEF NodeState
<1>8. SameFlags(n, m)
  BY <1>2 DEF NodeState, SameFlags
<1> HIDE DEF m
<1>9. SameButWork(n, m)
  BY <1>6, <1>7, <1>8 DEF SameButWork, Counted
<1> QED
  BY <1>2, <1>3, <1>4, <1>5, <1>9

\* Changing what the workers build leaves the queues alone.
LEMMA WorkKeepsQueues ==
  ASSUME NEW s \in Tables, QueuesSound(s), NEW t, SameRequests(s, t),
         \A p \in Peers : SameButWork(s.node[p], t.node[p]),
         \A p \in Peers \ s.mapNodeState :
           t.node[p].thinblock.blocks \subseteq s.node[p].thinblock.blocks
  PROVE  QueuesSound(t) /\ SameElsewhere(s, t)
<1>1. SameElsewhere(s, t)
  <2>1. SameTotals(s, t)
    BY FlagsTallied, TableTypes, Zenon DEF SameTotals, Surplus, SameRequests, SameCounts, SameButWork
  <2> QED
    BY <2>1 DEF SameRequests, SameButWork, SameElsewhere
<1>2. QueuesSound(t)
  BY DEF SameRequests, SameButWork, QueuesSound
<1> QED
  BY <1>1, <1>2

\* The workers of block b become W, and its builder is h.
LEMMA WorkChanged ==
  ASSUME NEW s \in Tables, NEW t \in Tables, NEW b \in Blocks,
         \A c \in Blocks : c # b => KnownTo(s.builders[c], WorkersOf(s, c)),
         t.builders = [s.builders EXCEPT ![b] = t.builders[b]],
         \A p \in Peers, c \in Blocks :
           c # b => (isWorkingOn(t, p, c) <=> isWorkingOn(s, p, c)),
         KnownTo(t.builders[b], WorkersOf(t, b)), ~ t.aborted
  PROVE  WorkersSound(t)
<1> SUFFICES ASSUME NEW c \in Blocks, c # b PROVE KnownTo(t.builders[c], WorkersOf(t, c))
  BY DEF WorkersSound
<1>1. WorkersOf(t, c) = WorkersOf(s, c)
  BY DEF WorkersOf
<1>2. t.builders[c] = s.builders[c]
  BY TableTypes
<1> QED
  BY <1>1, <1>2

\* The tables agree with each other.
Sound(s) == s \in Tables /\ QueuesSound(s) /\ WorkersSound(s)

\* SameElsewhere is a preorder.
LEMMA SameElsewhereReflexive == \A s : SameElsewhere(s, s)
  BY DEF SameElsewhere, SameTotals

\* SameElsewhere is transitive.
LEMMA SameElsewhereTransitive ==
  ASSUME NEW s, NEW t, NEW u, SameElsewhere(s, t), SameElsewhere(t, u) PROVE SameElsewhere(s, u)
  BY DEF SameElsewhere, SameTotals

\* addWork tells the worker and the manager.
LEMMA WorkAdded ==
  ASSUME NEW s, Sound(s), NEW p \in s.mapNodeState, NEW b \in Blocks
  PROVE  Sound(addWork(s, p, b)) /\ SameElsewhere(s, addWork(s, p, b))
<1> DEFINE t == addWork(s, p, b)
           bs == s.node[p].thinblock.blocks \cup {b}
           f == [s.node EXCEPT ![p] = Working(s.node[p], bs)]
           x == addWorker(s.builders[b], p)
           h == [s.builders EXCEPT ![b] = x]
<1>1. /\ s \in Tables /\ s.node \in [Peers -> NodeState]
      /\ s.builders \in [Blocks -> Builder \cup {NULL}] /\ p \in Peers
  BY TableTypes DEF Sound
<1>2. CASE s.node[p].thinblock.dummy \/ isWorkingOn(s, p, b)
  BY <1>2, SameElsewhereReflexive DEF addWork
<1>3. CASE ~ (s.node[p].thinblock.dummy \/ isWorkingOn(s, p, b))
  <2>1. t = WithWork(s, f, h)
    BY <1>3 DEF addWork, WithWork
  <2> HIDE DEF t
  <2>2. s.node[p] \in NodeState /\ bs \in SUBSET Blocks
    BY <1>1 DEF NodeState
  <2> HIDE DEF bs
  <2>3. /\ Working(s.node[p], bs) \in NodeState
        /\ Working(s.node[p], bs).thinblock.blocks = bs
        /\ SameButWork(s.node[p], Working(s.node[p], bs))
    BY <2>2, WorkingState
  <2>4. f \in [Peers -> NodeState]
    BY <1>1, <2>3
  <2>5. KnownTo(s.builders[b], WorkersOf(s, b)) /\ s.builders[b] \in Builder \cup {NULL}
    BY <1>1 DEF Sound, WorkersSound
  <2>6. x \in Builder /\ x.workers = WorkersOf(s, b) \cup {p}
    <3>1. CASE s.builders[b] = NULL
      <4>1. WorkersOf(s, b) = {}
        BY <3>1, <2>5, NullAssumption DEF KnownTo, Builder
      <4> QED
        BY <1>1, <3>1, <4>1 DEF Builder, addWorker
    <3>2. CASE s.builders[b] # NULL
      <4>1. s.builders[b] \in Builder /\ s.builders[b].workers = WorkersOf(s, b)
        BY <3>2, <2>5 DEF KnownTo
      <4> QED
        BY <1>1, <3>2, <4>1 DEF Builder, addWorker
    <3> QED
      BY <3>1, <3>2
  <2> HIDE DEF x
  <2>7. h \in [Blocks -> Builder \cup {NULL}] /\ h[b] = x
    BY <1>1, <2>6
  <2> HIDE DEF f
  <2>8. t \in Tables /\ t.node = f /\ t.builders = h /\ SameRequests(s, t)
    <3> HIDE DEF h
    <3> QED
      BY SMT, SMTT(30), <1>1, <2>1, <2>4, <2>7, PutWork
  <2>9. \A r \in Peers : SameButWork(s.node[r], t.node[r])
    BY <1>1, <2>3, <2>8 DEF f, SameButWork, SameFlags
  <2>10. \A r \in Peers : t.node[r].thinblock.blocks =
                            IF r = p THEN bs ELSE s.node[r].thinblock.blocks
    BY <1>1, <2>3, <2>8, SMTT(30) DEF f
  <2>11. QueuesSound(t) /\ SameElsewhere(s, t)
    BY <1>1, <2>8, <2>9, <2>10, WorkKeepsQueues, SMTT(30) DEF Sound
  <2>12. WorkersOf(t, b) = WorkersOf(s, b) \cup {p}
    BY <1>1, <2>10 DEF WorkersOf, isWorkingOn, bs
  <2>13. \A r \in Peers, c \in Blocks :
           c # b => (isWorkingOn(t, r, c) <=> isWorkingOn(s, r, c))
    BY <2>10 DEF isWorkingOn, bs
  <2>14. KnownTo(t.builders[b], WorkersOf(t, b))
    BY <2>6, <2>7, <2>8, <2>12 DEF KnownTo
  <2>15. ~ t.aborted
    BY <2>8 DEF SameRequests, Sound, WorkersSound
  <2>16. /\ \A c \in Blocks : c # b => KnownTo(s.builders[c], WorkersOf(s, c))
         /\ t.builders = [s.builders EXCEPT ![b] = t.builders[b]]
    BY <2>7, <2>8, SMTT(30) DEF Sound, WorkersSound
  <2>17. WorkersSound(t)
    BY <1>1, <2>8, <2>13, <2>14, <2>15, <2>16, WorkChanged, SMTT(30)
  <2> QED
    BY <2>8, <2>11, <2>17 DEF Sound, t
<1> QED
  BY <1>2, <1>3

\* So does stopWork, which also erases the request; the asserts of delWorker hold.
LEMMA WorkStopped ==
  ASSUME NEW s, Sound(s), NEW p \in Peers, NEW b \in Blocks
  PROVE  Sound(stopWork(s, p, b)) /\ SameElsewhere(s, stopWork(s, p, b))
<1> DEFINE x == WithoutWorker(s.builders[b], p)
           h == [s.builders EXCEPT ![b] = x]
           s1 == [s EXCEPT !.builders[b] = WithoutWorker(@, p)]
           e == InFlightEraser(s1, {p}, b)
           bs == e.node[p].thinblock.blocks \ {b}
           f == [e.node EXCEPT ![p] = Working(e.node[p], bs)]
           t == stopWork(s, p, b)
<1>1. /\ s \in Tables /\ s.node \in [Peers -> NodeState]
      /\ s.builders \in [Blocks -> Builder \cup {NULL}]
  BY TableTypes DEF Sound
<1>2. CASE ~ isWorkingOn(s, p, b)
  BY <1>2, SameElsewhereReflexive DEF stopWork
<1>3. CASE isWorkingOn(s, p, b)
  <2>1. p \in WorkersOf(s, b) /\ s.builders[b] \in Builder /\ s.builders[b].workers = WorkersOf(s, b)
    <3>1. p \in WorkersOf(s, b)
      BY <1>3 DEF WorkersOf
    <3>2. KnownTo(s.builders[b], WorkersOf(s, b))
      BY DEF Sound, WorkersSound
    <3> QED
      BY <3>1, <3>2 DEF KnownTo
  <2>2. WorkerKnown(s, p, b)
    BY <2>1, NullAssumption DEF WorkerKnown, Builder
  <2>3. t = WithNodes(e, f)
    BY <1>3, <2>2 DEF stopWork, delWorker, WithNodes
  <2>4. s1 = WithBuilders(s, h)
    BY DEF WithBuilders
  <2> HIDE DEF t, s1
  <2>5. KnownTo(x, WorkersOf(s, b) \ {p})
    <3>1. CASE s.builders[b].workers = {p}
      BY <2>1, <3>1 DEF WithoutWorker, KnownTo
    <3>2. CASE s.builders[b].workers # {p}
      <4>1. WorkersOf(s, b) \ {p} # {}
        BY <2>1, <3>2
      <4>2. x \in Builder /\ x.workers = WorkersOf(s, b) \ {p}
        BY <2>1, <3>2 DEF WithoutWorker, Builder
      <4> QED
        BY <4>1, <4>2 DEF KnownTo
    <3> QED
      BY <3>1, <3>2
  <2> HIDE DEF x
  <2>6. h \in [Blocks -> Builder \cup {NULL}] /\ h[b] = x
    <3>1. x \in Builder \cup {NULL}
      BY <2>5 DEF KnownTo
    <3> QED
      BY <1>1, <3>1
  <2>7. s1 \in Tables /\ s1.node = s.node /\ s1.builders = h /\ SameRequests(s, s1)
    <3> HIDE DEF h
    <3> QED
      BY <1>1, <2>4, <2>6, PutBuilders, SMTT(30)
  <2>8. QueuesSound(s1) /\ SameElsewhere(s, s1)
    <3>1. \A r \in Peers : SameButWork(s.node[r], s1.node[r])
      BY <2>7 DEF SameButWork, SameFlags
    <3>2. \A r \in Peers \ s.mapNodeState :
            s1.node[r].thinblock.blocks \subseteq s.node[r].thinblock.blocks
      BY <2>7
    <3> QED
      BY <1>1, <2>7, <3>1, <3>2, WorkKeepsQueues, SMTT(30) DEF Sound
  <2>9. e \in Tables /\ QueuesSound(e) /\ SameElsewhere(s1, e) /\ SameWorkers(s1, e)
    <3>1. {p} \in SUBSET Peers /\ IsFiniteSet({p})
      BY FS_Singleton, Zenon
    <3> QED
      BY <2>7, <2>8, <3>1, Erased
  <2> HIDE DEF e
  <2>10. e.node \in [Peers -> NodeState] /\ e.node[p] \in NodeState /\ bs \in SUBSET Blocks
    BY <2>9, TableTypes DEF NodeState
  <2>11. \A r \in Peers : e.node[r].thinblock = s.node[r].thinblock
    BY <2>7, <2>9 DEF SameWorkers
  <2>12. /\ Working(e.node[p], bs) \in NodeState
         /\ Working(e.node[p], bs).thinblock.blocks = bs
         /\ SameButWork(e.node[p], Working(e.node[p], bs))
    <3> HIDE DEF bs
    <3> QED
      BY <2>10, WorkingState
  <2>13. /\ f \in [Peers -> NodeState]
         /\ \A r \in Peers : f[r] = IF r = p THEN Working(e.node[p], bs) ELSE e.node[r]
    BY <2>10, <2>12
  <2> HIDE DEF f
  <2>14. t \in Tables /\ t.node = f /\ t.builders = e.builders /\ SameRequests(e, t)
    BY <2>3, <2>9, <2>13, PutNodes
  <2>15. QueuesSound(t) /\ SameElsewhere(e, t)
    <3>1. \A r \in Peers : SameButWork(e.node[r], t.node[r])
      BY <2>12, <2>13, <2>14, Zenon DEF SameButWork, SameFlags
    <3>2. \A r \in Peers \ e.mapNodeState :
            t.node[r].thinblock.blocks \subseteq e.node[r].thinblock.blocks
      BY <2>12, <2>13, <2>14, Zenon
    <3> HIDE DEF t
    <3> QED
      BY <2>9, <2>14, <3>1, <3>2, WorkKeepsQueues, Zenon
  <2>16. SameElsewhere(s, t)
    BY <2>8, <2>9, <2>15, SameElsewhereTransitive
  <2>17. \A r \in Peers : t.node[r].thinblock.blocks =
           IF r = p THEN s.node[r].thinblock.blocks \ {b} ELSE s.node[r].thinblock.blocks
    BY <2>10, <2>11, <2>12, <2>14, Zenon DEF f
  <2>18. WorkersOf(t, b) = WorkersOf(s, b) \ {p}
    BY <2>17, Zenon DEF WorkersOf, isWorkingOn
  <2>19. \A r \in Peers, c \in Blocks :
           c # b => (isWorkingOn(t, r, c) <=> isWorkingOn(s, r, c))
    BY <2>17, Zenon DEF isWorkingOn
  <2>20. t.builders = h
    BY <2>7, <2>9, <2>14 DEF SameWorkers
  <2>21. KnownTo(t.builders[b], WorkersOf(t, b))
    BY <2>5, <2>6, <2>18, <2>20
  <2>22. ~ t.aborted
    BY <2>7, <2>9, <2>14 DEF SameRequests, SameWorkers, Sound, WorkersSound
  <2>23. /\ \A c \in Blocks : c # b => KnownTo(s.builders[c], WorkersOf(s, c))
         /\ t.builders = [s.builders EXCEPT ![b] = t.builders[b]]
    BY <2>6, <2>20 DEF Sound, WorkersSound
  <2>24. WorkersSound(t)
    BY <1>1, <2>14, <2>19, <2>21, <2>22, <2>23, WorkChanged
  <2> QED
    BY <2>14, <2>15, <2>16, <2>24, SMTT(30) DEF Sound, t
<1> QED
  BY <1>2, <1>3

\* removeIfExists stops all the workers of the block and takes the builder away.
LEMMA BuilderRemoved ==
  ASSUME NEW s, Sound(s), NEW b \in Blocks
  PROVE  Sound(removeIfExists(s, b)) /\ SameElsewhere(s, removeIfExists(s, b))
<1> DEFINE W == s.builders[b].workers
           e == InFlightEraser(s, W, b)
           f == [p \in Peers |-> IF p \in W THEN Working(e.node[p], e.node[p].thinblock.blocks \ {b})
                                 ELSE e.node[p]]
           h == [e.builders EXCEPT ![b] = NULL]
           t == removeIfExists(s, b)
<1>1. /\ s \in Tables /\ s.node \in [Peers -> NodeState]
      /\ s.builders \in [Blocks -> Builder \cup {NULL}]
  BY TableTypes DEF Sound
<1>2. CASE s.builders[b] = NULL
  BY <1>2, SameElsewhereReflexive DEF removeIfExists
<1>3. CASE s.builders[b] # NULL
  <2>1. W = WorkersOf(s, b)
    BY <1>3 DEF Sound, WorkersSound, KnownTo
  <2>2. t = WithWork(e, f, h)
    BY <1>3 DEF removeIfExists, WithWork
  <2> HIDE DEF t, W
  <2>3. e \in Tables /\ QueuesSound(e) /\ SameElsewhere(s, e) /\ SameWorkers(s, e)
    <3>1. W \in SUBSET Peers /\ IsFiniteSet(W)
      BY <2>1, FS_Subset, PeersAssumption DEF WorkersOf
    <3> QED
      BY <3>1, Erased DEF Sound
  <2> HIDE DEF e
  <2>4. e.node \in [Peers -> NodeState] /\ e.builders \in [Blocks -> Builder \cup {NULL}]
    BY <2>3, TableTypes, SMTT(30)
  <2>5. ASSUME NEW p \in Peers
        PROVE  /\ f[p] \in NodeState
               /\ f[p].thinblock.blocks = IF p \in W THEN e.node[p].thinblock.blocks \ {b}
                                          ELSE e.node[p].thinblock.blocks
               /\ SameButWork(e.node[p], f[p])
    <3> DEFINE bs == e.node[p].thinblock.blocks \ {b}
    <3>1. e.node[p] \in NodeState
      BY <2>4
    <3>2. bs \in SUBSET Blocks
      BY <3>1, SMTT(30) DEF NodeState
    <3>3. CASE p \in W
      <4>1. f[p] = Working(e.node[p], bs)
        BY <3>3, SMTT(30)
      <4> HIDE DEF f
      <4> QED
        BY <3>1, <3>2, <3>3, <4>1, WorkingState, SMTT(30)
    <3>4. CASE p \notin W
      BY <3>1, <3>4, SMTT(30) DEF SameButWork, SameFlags
    <3> QED
      BY <3>3, <3>4
  <2>6. f \in [Peers -> NodeState]
    BY <2>5
  <2>7. h \in [Blocks -> Builder \cup {NULL}] /\ h[b] = NULL
    BY <2>4
  <2> HIDE DEF f
  <2>8. t \in Tables /\ t.node = f /\ t.builders = h /\ SameRequests(e, t)
    <3> HIDE DEF h
    <3> QED
      BY <2>2, <2>3, <2>6, <2>7, PutWork, SMTT(30)
  <2>9. QueuesSound(t) /\ SameElsewhere(e, t)
    <3>1. \A p \in Peers \ e.mapNodeState :
            t.node[p].thinblock.blocks \subseteq e.node[p].thinblock.blocks
      BY <2>5, <2>8, Zenon
    <3> QED
      BY <2>3, <2>5, <2>8, <3>1, WorkKeepsQueues, Zenon
  <2>10. SameElsewhere(s, t)
    BY <2>3, <2>9, SameElsewhereTransitive
  <2>11. \A p \in Peers : t.node[p].thinblock.blocks =
           IF p \in W THEN s.node[p].thinblock.blocks \ {b} ELSE s.node[p].thinblock.blocks
    BY <2>3, <2>5, <2>8 DEF SameWorkers
  <2>12. WorkersOf(t, b) = {}
    BY <2>1, <2>11, Zenon DEF WorkersOf, isWorkingOn
  <2>13. \A p \in Peers, c \in Blocks :
           c # b => (isWorkingOn(t, p, c) <=> isWorkingOn(s, p, c))
    BY <2>11, Zenon DEF isWorkingOn
  <2>14. KnownTo(t.builders[b], WorkersOf(t, b))
    BY <2>7, <2>8, <2>12 DEF KnownTo
  <2>15. ~ t.aborted
    BY <2>3, <2>8, SMTT(30) DEF SameRequests, SameWorkers, Sound, WorkersSound
  <2>16. /\ \A c \in Blocks : c # b => KnownTo(s.builders[c], WorkersOf(s, c))
         /\ t.builders = [s.builders EXCEPT ![b] = t.builders[b]]
    BY <2>3, <2>7, <2>8, SMTT(30) DEF SameWorkers, Sound, WorkersSound
  <2>17. WorkersSound(t)
    BY <1>1, <2>8, <2>13, <2>14, <2>15, <2>16, WorkChanged, SMTT(30)
  <2> QED
    BY <2>8, <2>9, <2>10, <2>17 DEF Sound, t
<1> QED
  BY <1>2, <1>3

\* The same for requests, which have nothing to do with workers.
LEMMA SameWorkersSound ==
  ASSUME NEW s, NEW t, WorkersSound(s), SameWorkers(s, t)
  PROVE  WorkersSound(t)
<1>1. \A b \in Blocks : WorkersOf(t, b) = WorkersOf(s, b)
  BY DEF SameWorkers, WorkersOf, isWorkingOn
<1> QED
  BY <1>1 DEF SameWorkers, WorkersSound

\* MarkBlockAsInFlight keeps the tables in agreement.
LEMMA MarkedSound ==
  ASSUME NEW s, Sound(s), NEW p \in s.mapNodeState, NEW b \in Blocks, NEW validated \in BOOLEAN
  PROVE  /\ Sound(MarkBlockAsInFlight(s, p, b, validated))
         /\ SameElsewhere(s, MarkBlockAsInFlight(s, p, b, validated))
  BY MarkedInFlight, SameWorkersSound DEF Sound

\* So does InFlightEraserImpl.
LEMMA ErasedSound ==
  ASSUME NEW s, Sound(s), NEW p \in Peers, NEW b
  PROVE  Sound(InFlightEraser(s, {p}, b)) /\ SameElsewhere(s, InFlightEraser(s, {p}, b))
<1>1. {p} \in SUBSET Peers /\ IsFiniteSet({p})
  BY FS_Singleton, Zenon
<1> QED
  BY <1>1, Erased, SameWorkersSound DEF Sound

-----------------------------------------------------------------------------
(* Changes that neither the queues nor the workers take part in *)

SameQueue(n, m) ==
  /\ m.vBlocksInFlight = n.vBlocksInFlight
  /\ m.thinblock.blocks = n.thinblock.blocks
  /\ Counted(n) => Counted(m)

\* The same peers have a state, no work is added for the others, and the totals agree
\* as they did.
SameNodes(s, t) ==
  /\ t.mapNodeState = s.mapNodeState
  /\ \A p \in Peers \ s.mapNodeState :
       t.node[p].thinblock.blocks \subseteq s.node[p].thinblock.blocks
  /\ SameTotals(s, t)

\* SameNodes is reflexive.
LEMMA SameNodesReflexive == \A s : SameNodes(s, s)
  BY DEF SameNodes, SameTotals

\* SameNodes is transitive.
LEMMA SameNodesTransitive ==
  ASSUME NEW s, NEW t, NEW u, SameNodes(s, t), SameNodes(t, u) PROVE SameNodes(s, u)
  BY DEF SameNodes, SameTotals

\* Tables with the same queues, index and workers agree as they did.
LEMMA QuietSound ==
  ASSUME NEW s, Sound(s), NEW t \in Tables, t.inFlight = s.inFlight,
         t.builders = s.builders, t.aborted = s.aborted, t.mapNodeState = s.mapNodeState,
         \A p \in Peers : SameQueue(s.node[p], t.node[p]),
         t.nQueuedValidatedHeaders = s.nQueuedValidatedHeaders, Tallied(s) => Tallied(t)
  PROVE  Sound(t) /\ SameNodes(s, t)
<1>1. QueuesSound(t)
  BY DEF Sound, QueuesSound, SameQueue
<1>2. \A b \in Blocks : WorkersOf(t, b) = WorkersOf(s, b)
  BY DEF WorkersOf, isWorkingOn, SameQueue
<1>3. WorkersSound(t)
  BY <1>2 DEF Sound, WorkersSound
<1>4. SameNodes(s, t)
  BY DEF SameNodes, SameQueue, SameTotals, Surplus
<1> QED
  BY <1>1, <1>3, <1>4 DEF Sound

\* A state of a peer that differs in what says nothing about blocks in flight.
Nearly(n, m) ==
  /\ m \in NodeState /\ SameQueue(n, m)
  /\ m.pindexLastCommonBlock = n.pindexLastCommonBlock

\* One that is preferred, and asked for headers, as it was.
Quiet(n, m) == Nearly(n, m) /\ SameFlags(n, m)

\* Quiet changes can follow each other.
LEMMA QuietTransitive ==
  ASSUME NEW n, NEW m, NEW k, Quiet(n, m)
  PROVE  (Quiet(m, k) => Quiet(n, k)) /\ (Nearly(m, k) => Nearly(n, k))
  BY DEF Quiet, Nearly, SameQueue, SameFlags

\* What the fields that are not about blocks in flight are set to does not matter.
LEMMA QuietFields ==
  ASSUME NEW n \in NodeState, NEW x \in Blocks \cup {NULL}, NEW y \in Blocks \cup {NULL},
         NEW v \in BOOLEAN
  PROVE  /\ Quiet(n, n)
         /\ Quiet(n, [n EXCEPT !.hashLastUnknownBlock = x])
         /\ Quiet(n, [n EXCEPT !.hashLastUnknownBlock = x, !.pindexBestKnownBlock = y])
         /\ Quiet(n, [n EXCEPT !.unconnectingHeaders = v])
         /\ Quiet(n, [n EXCEPT !.nStallingSince = v])
         /\ Quiet(n, [n EXCEPT !.thinblock.dummy = v])
<1> USE DEF Quiet, Nearly, SameQueue, SameFlags
<1>1. Quiet(n, n)
  OBVIOUS
<1>2. Quiet(n, [n EXCEPT !.hashLastUnknownBlock = x])
  BY DEF Counted, NodeState
<1>3. Quiet(n, [n EXCEPT !.hashLastUnknownBlock = x, !.pindexBestKnownBlock = y])
  BY Zenon DEF Counted, NodeState
<1>4. Quiet(n, [n EXCEPT !.unconnectingHeaders = v])
  BY DEF Counted, NodeState
<1>5. Quiet(n, [n EXCEPT !.nStallingSince = v])
  BY DEF Counted, NodeState
<1>6. Quiet(n, [n EXCEPT !.thinblock.dummy = v])
  BY DEF Counted, NodeState
<1> HIDE DEF Quiet
<1> QED
  BY <1>1, <1>2, <1>3, <1>4, <1>5, <1>6, Zenon

\* The two flags that peers are counted by.
LEMMA PreferredField ==
  ASSUME NEW n \in NodeState, NEW v \in BOOLEAN, NEW m, m = [n EXCEPT !.fPreferredDownload = v]
  PROVE  Nearly(n, m) /\ m.fPreferredDownload = v /\ m.fSyncStarted = n.fSyncStarted
  BY DEF Nearly, SameQueue, Counted, NodeState

\* The other one.
LEMMA SyncField ==
  ASSUME NEW n \in NodeState, NEW v \in BOOLEAN, NEW m, m = [n EXCEPT !.fSyncStarted = v]
  PROVE  Nearly(n, m) /\ m.fSyncStarted = v /\ m.fPreferredDownload = n.fPreferredDownload
  BY DEF Nearly, SameQueue, Counted, NodeState

\* The last common block moves without touching the queue.
LEMMA LastCommonField ==
  ASSUME NEW n \in NodeState, NEW x \in Blocks \cup {NULL},
         NEW m, m = [n EXCEPT !.pindexLastCommonBlock = x]
  PROVE  /\ m \in NodeState /\ SameQueue(n, m) /\ m.pindexLastCommonBlock = x
         /\ SameFlags(n, m)
<1>1. m \in NodeState /\ m.pindexLastCommonBlock = x /\ SameFlags(n, m)
  BY DEF NodeState, SameFlags
<1>2. SameQueue(n, m)
  BY DEF SameQueue, Counted, NodeState
<1> QED
  BY <1>1, <1>2

\* One peer's state changes.
LEMMA OneNearly ==
  ASSUME NEW s \in Tables, NEW p \in Peers, NEW m, Nearly(s.node[p], m),
         NEW f, f = [s.node EXCEPT ![p] = m]
  PROVE  f \in [Peers -> NodeState] /\ \A r \in Peers : Nearly(s.node[r], f[r])
<1>1. s.node \in [Peers -> NodeState] /\ m \in NodeState
  BY TableTypes DEF Nearly
<1>2. ASSUME NEW r \in Peers PROVE Nearly(s.node[r], f[r])
  <2>1. CASE r = p
    BY <1>1, <2>1
  <2>2. CASE r # p
    BY <1>1, <2>2, QuietFields, Zenon DEF Quiet
  <2> QED
    BY <2>1, <2>2
<1> QED
  BY <1>1, <1>2

\* The tables with other node states, another mapBlockIndex and other counts of the
\* peers that are preferred and that headers are asked of.
WithQuiet(s, f, k, c, d) ==
  [s EXCEPT !.node = f, !.mapBlockIndex = k, !.nPreferredDownload = c, !.nSyncStarted = d]

\* The parts of the tables that such a change leaves alone.
SameCore(s, t) ==
  /\ t.inFlight = s.inFlight /\ t.builders = s.builders /\ t.aborted = s.aborted
  /\ t.mapNodeState = s.mapNodeState /\ t.haveData = s.haveData /\ t.tip = s.tip
  /\ t.nQueuedValidatedHeaders = s.nQueuedValidatedHeaders

\* They are tables, and the core is as before.
LEMMA PutQuiet ==
  ASSUME NEW s \in Tables, NEW f \in [Peers -> NodeState], NEW k \in SUBSET Blocks,
         NEW c \in Int, NEW d \in Int, NEW t, t = WithQuiet(s, f, k, c, d)
  PROVE  /\ t \in Tables /\ t.node = f /\ SameCore(s, t)
         /\ t.nPreferredDownload = c /\ t.nSyncStarted = d
<1>1. t \in Tables
  BY Zenon DEF Tables, WithQuiet
<1>2. t.node = f /\ t.nPreferredDownload = c /\ t.nSyncStarted = d
  BY DEF Tables, WithQuiet
<1>3. t.inFlight = s.inFlight /\ t.builders = s.builders /\ t.aborted = s.aborted
  BY DEF Tables, WithQuiet
<1>4. t.mapNodeState = s.mapNodeState /\ t.haveData = s.haveData /\ t.tip = s.tip
  BY DEF Tables, WithQuiet
<1>5. t.nQueuedValidatedHeaders = s.nQueuedValidatedHeaders
  BY DEF Tables, WithQuiet
<1> QED
  BY <1>1, <1>2, <1>3, <1>4, <1>5 DEF SameCore

\* The peers that are preferred, and those that headers are asked of.
PreferredIn(s) == {p \in s.mapNodeState : s.node[p].fPreferredDownload}
SyncingIn(s) == {p \in s.mapNodeState : s.node[p].fSyncStarted}

\* The counts follow a change of one peer.
LEMMA OneTallied ==
  ASSUME NEW s, NEW t, NEW p, s.mapNodeState \subseteq Peers,
         PreferredIn(t) \ {p} = PreferredIn(s) \ {p}, SyncingIn(t) \ {p} = SyncingIn(s) \ {p},
         t.nPreferredDownload =
           (s.nPreferredDownload - One(p \in PreferredIn(s))) + One(p \in PreferredIn(t)),
         t.nSyncStarted = (s.nSyncStarted - One(p \in SyncingIn(s))) + One(p \in SyncingIn(t))
  PROVE  Tallied(s) => Tallied(t)
<1>1. PreferredIn(s) \in SUBSET Peers /\ SyncingIn(s) \in SUBSET Peers
  BY DEF PreferredIn, SyncingIn
<1>2. IsFiniteSet(PreferredIn(s)) /\ IsFiniteSet(SyncingIn(s))
  BY <1>1, PeersAssumption, FS_Subset, Zenon
<1>3. Cardinality(PreferredIn(t)) =
        (Cardinality(PreferredIn(s)) - One(p \in PreferredIn(s))) + One(p \in PreferredIn(t))
  BY ZenonT(30), SMTT(30), <1>2, Recounted
<1>4. Cardinality(SyncingIn(t)) =
        (Cardinality(SyncingIn(s)) - One(p \in SyncingIn(s))) + One(p \in SyncingIn(t))
  BY <1>2, Recounted, Zenon
<1>5. \A u : Tallied(u) <=> /\ u.nPreferredDownload = Cardinality(PreferredIn(u))
                            /\ u.nSyncStarted = Cardinality(SyncingIn(u))
  BY Zenon DEF Tallied, PreferredIn, SyncingIn
<1> QED
  BY <1>3, <1>4, <1>5, Zenon

\* The counts of a peer's flags as they were and as they become.
Retallied(s, n, m, c, d) ==
  /\ c = (s.nPreferredDownload - One(n.fPreferredDownload)) + One(m.fPreferredDownload)
  /\ d = (s.nSyncStarted - One(n.fSyncStarted)) + One(m.fSyncStarted)

\* The tables with a peer more or less.
WithPeers(s, P, f, g, c, d) ==
  [s EXCEPT !.mapNodeState = P, !.node = f, !.inFlight = g, !.nPreferredDownload = c,
            !.nSyncStarted = d]

SameBlocks(s, t) ==
  /\ t.builders = s.builders /\ t.aborted = s.aborted
  /\ t.haveData = s.haveData /\ t.tip = s.tip
  /\ t.nQueuedValidatedHeaders = s.nQueuedValidatedHeaders

\* They are tables, and the blocks are as before.
LEMMA PutPeers ==
  ASSUME NEW s \in Tables, NEW P \in SUBSET Peers, NEW f \in [Peers -> NodeState],
         NEW g \in [Peers -> Seq(QueuedBlock)], NEW c \in Int, NEW d \in Int,
         NEW t, t = WithPeers(s, P, f, g, c, d)
  PROVE  /\ t \in Tables
         /\ t.mapNodeState = P /\ t.node = f /\ t.inFlight = g
         /\ t.nPreferredDownload = c /\ t.nSyncStarted = d
         /\ SameBlocks(s, t)
<1>1. t \in Tables
  BY Zenon DEF Tables, WithPeers
<1>2. t.mapNodeState = P /\ t.node = f /\ t.inFlight = g
  BY DEF Tables, WithPeers
<1>3. t.builders = s.builders /\ t.aborted = s.aborted
  BY DEF Tables, WithPeers
<1>4. t.haveData = s.haveData /\ t.tip = s.tip
  BY DEF Tables, WithPeers
<1>5. t.nPreferredDownload = c /\ t.nSyncStarted = d
  BY DEF Tables, WithPeers
<1>6. t.nQueuedValidatedHeaders = s.nQueuedValidatedHeaders
  BY DEF Tables, WithPeers
<1> QED
  BY <1>1, <1>2, <1>3, <1>4, <1>5, <1>6, SMTT(30) DEF SameBlocks

=============================================================================
