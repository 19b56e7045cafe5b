------------------------ MODULE HeapLifecycleProofs -------------------------
(***************************************************************************)
(* Proofs about HeapLifecycle, for any number of threads, heaps, pages and *)
(* blocks: the reference count of a first-class heap is exact, a heap      *)
(* outlives its theaps, and no page is released under a block in use but   *)
(* one that another first-class heap has adopted.                          *)
(***************************************************************************)
EXTENDS HeapLifecycle, SequenceTheorems, FiniteSetTheorems, TLAPS

(***************************************************************************)
(* The per-thread registry: theap_for pushes in front, the exit of the     *)
(* thread pops, take_theap_for unlinks the theap of one heap.              *)
(***************************************************************************)
LEMMA Pushed ==
  ASSUME NEW S, NEW s \in Seq(S), IsInjective(s), NEW e \in S, e \notin ToSet(s)
  PROVE  /\ <<e>> \o s \in Seq(S) /\ IsInjective(<<e>> \o s)
         /\ ToSet(<<e>> \o s) = ToSet(s) \cup {e}
<1> DEFINE r == <<e>> \o s
<1>1. /\ r \in Seq(S) /\ Len(r) = Len(s) + 1 /\ r[1] = e
      /\ \A i \in 2..Len(r) : r[i] = s[i - 1]
      /\ DOMAIN r = 1..Len(r) /\ DOMAIN s = 1..Len(s) /\ Len(s) \in Nat
  OBVIOUS
<1> HIDE DEF r
<1>2. IsInjective(r)
  <2>1. \A i \in 1..Len(s) : s[i] # e
    BY <1>1 DEF ToSet
  <2>2. \A i \in 2..Len(r) : i - 1 \in 1..Len(s) /\ r[i] # r[1]
    BY <1>1, <2>1
  <2>3. \A i, j \in 2..Len(r) : r[i] = r[j] => i = j
    BY <1>1, <2>2 DEF IsInjective
  <2> QED BY <1>1, <2>2, <2>3 DEF IsInjective
<1>3. ToSet(r) = ToSet(s) \cup {e}
  <2>1. ASSUME NEW x \in ToSet(s) PROVE x \in ToSet(r)
    <3>1. PICK i \in 1..Len(s) : x = s[i]
      BY <1>1 DEF ToSet
    <3>2. i + 1 \in 2..Len(r) /\ r[i + 1] = x
      BY <1>1, <3>1
    <3> QED BY <1>1, <3>2 DEF ToSet
  <2>2. e \in ToSet(r)
    BY <1>1 DEF ToSet
  <2>3. ASSUME NEW x \in ToSet(r) PROVE x \in ToSet(s) \cup {e}
    BY <1>1 DEF ToSet
  <2> QED BY <2>1, <2>2, <2>3
<1> QED BY <1>1, <1>2, <1>3 DEF r

LEMMA Popped ==
  ASSUME NEW S, NEW s \in Seq(S), IsInjective(s), s # <<>>
  PROVE  /\ Head(s) \in ToSet(s) /\ Head(s) \in S
         /\ Tail(s) \in Seq(S) /\ IsInjective(Tail(s))
         /\ ToSet(Tail(s)) = ToSet(s) \ {Head(s)}
<1> DEFINE r == Tail(s)
<1>1. /\ r \in Seq(S) /\ Len(r) = Len(s) - 1 /\ Head(s) = s[1]
      /\ \A i \in 1..Len(r) : r[i] = s[i + 1]
      /\ DOMAIN r = 1..Len(r) /\ DOMAIN s = 1..Len(s) /\ Len(s) \in Nat \ {0}
      /\ s[1] \in S
  BY HeadTailProperties
<1> HIDE DEF r
<1>2. IsInjective(r)
  BY <1>1 DEF IsInjective
<1>3. ToSet(r) = ToSet(s) \ {s[1]}
  <2>1. ASSUME NEW x \in ToSet(s), x # s[1] PROVE x \in ToSet(r)
    <3>1. PICK i \in 1..Len(s) : x = s[i]
      BY <1>1 DEF ToSet
    <3>2. i - 1 \in 1..Len(r) /\ r[i - 1] = x
      BY <1>1, <2>1, <3>1
    <3> QED BY <1>1, <3>2 DEF ToSet
  <2>2. ASSUME NEW x \in ToSet(r) PROVE x \in ToSet(s) /\ x # s[1]
    <3>1. PICK i \in 1..Len(r) : x = r[i]
      BY <1>1 DEF ToSet
    <3>2. i + 1 \in 1..Len(s) /\ i + 1 # 1 /\ x = s[i + 1]
      BY <1>1, <3>1
    <3> QED BY <1>1, <3>2 DEF ToSet, IsInjective
  <2> QED BY <2>1, <2>2
<1> QED BY <1>1, <1>2, <1>3 DEF r, ToSet

LEMMA Taken ==
  ASSUME NEW S, NEW s \in Seq(S), IsInjective(s), NEW e
  PROVE  /\ RemoveFirst(s, e) \in Seq(S) /\ IsInjective(RemoveFirst(s, e))
         /\ ToSet(RemoveFirst(s, e)) = ToSet(s) \ {e}
<1>1. DOMAIN s = 1..Len(s) /\ Len(s) \in Nat /\ \A i \in 1..Len(s) : s[i] \in S
  OBVIOUS
<1>2. CASE ~\E i \in 1..Len(s) : s[i] = e
  <2>1. RemoveFirst(s, e) = s
    BY <1>2 DEF RemoveFirst
  <2> QED BY <1>1, <1>2, <2>1 DEF ToSet
<1>3. CASE \E i \in 1..Len(s) : s[i] = e
  <2>1. PICK k \in 1..Len(s) : s[k] = e
    BY <1>3
  <2>2. \A i \in 1..Len(s) : s[i] = e <=> i = k
    BY <1>1, <2>1 DEF IsInjective
  <2>3. SelectInSeq(s, LAMBDA v : v = e) = k
    <3>1. {i \in 1..Len(s) : s[i] = e} = {k}
      BY <2>2
    <3>2. Min({k}) = k
      BY DEF Min
    <3> QED BY <3>1, <3>2 DEF SelectInSeq
  <2> DEFINE a == SubSeq(s, 1, k - 1)
             b == SubSeq(s, k + 1, Len(s))
             r == a \o b
  <2>4. RemoveFirst(s, e) = r
    BY <1>3, <2>3 DEF RemoveFirst, RemoveAt
  <2>5. /\ a \in Seq(S) /\ Len(a) = k - 1 /\ \A i \in 1..(k - 1) : a[i] = s[i]
        /\ b \in Seq(S) /\ Len(b) = Len(s) - k
        /\ \A i \in 1..(Len(s) - k) : b[i] = s[k + i]
    <3>1. \A i \in 1..(k - 1) : s[i] \in S
      BY <1>1
    <3>2. \A i \in (k + 1)..Len(s) : s[i] \in S
      BY <1>1
    <3>3. /\ a \in Seq(S) /\ Len(a) = k - 1
          /\ \A i \in 1..((k - 1) - 1 + 1) : a[i] = s[1 + i - 1]
      BY <1>1, <3>1, SubSeqProperties
    <3>4. /\ b \in Seq(S) /\ Len(b) = Len(s) - k
          /\ \A i \in 1..(Len(s) - (k + 1) + 1) : b[i] = s[(k + 1) + i - 1]
      <4> DEFINE m == k + 1
                 n == Len(s)
      <4>1. m \in Int /\ n \in Int /\ \A i \in m..n : s[i] \in S
        BY <1>1, <3>2
      <4> HIDE DEF m, n
      <4>2. /\ SubSeq(s, m, n) \in Seq(S)
            /\ Len(SubSeq(s, m, n)) = IF m <= n THEN n - m + 1 ELSE 0
            /\ \A i \in 1..(n - m + 1) : SubSeq(s, m, n)[i] = s[m + i - 1]
        BY <4>1, SubSeqProperties
      <4>3. k \in Int /\ k <= n /\ n \in Nat /\ m = k + 1 /\ n = Len(s)
        BY <1>1 DEF m, n
      <4>4. (IF m <= n THEN n - m + 1 ELSE 0) = n - k
        BY <4>3
      <4> QED BY <4>2, <4>3, <4>4 DEF m, n
    <3> HIDE DEF a, b
    <3>5. \A i \in 1..(k - 1) : a[i] = s[i]
      BY <3>3
    <3>6. ASSUME NEW i \in 1..(Len(s) - k) PROVE b[i] = s[k + i]
      <4>1. (k + 1) + i - 1 = k + i /\ i \in 1..(Len(s) - (k + 1) + 1)
        BY <1>1
      <4> QED BY <3>4, <4>1
    <3> QED BY <3>3, <3>4, <3>5, <3>6
  <2> HIDE DEF a, b
  <2>6. /\ r \in Seq(S) /\ Len(r) = Len(s) - 1
        /\ \A i \in 1..Len(r) : r[i] = IF i < k THEN s[i] ELSE s[i + 1]
    <3>1. /\ r \in Seq(S) /\ Len(r) = Len(a) + Len(b)
          /\ \A i \in 1..(Len(a) + Len(b)) :
               r[i] = IF i <= Len(a) THEN a[i] ELSE b[i - Len(a)]
      BY <2>5, ConcatProperties
    <3> HIDE DEF r
    <3>2. Len(r) = Len(s) - 1
      BY <1>1, <2>5, <3>1
    <3>3. \A i \in 1..Len(r) : i < k => r[i] = s[i]
      BY <1>1, <2>5, <3>1, <3>2
    <3>4. ASSUME NEW i \in 1..Len(r), ~(i < k) PROVE r[i] = s[i + 1]
      <4>1. r[i] = b[i - (k - 1)] /\ i - (k - 1) \in 1..(Len(s) - k)
        BY <1>1, <2>5, <3>1, <3>2, <3>4
      <4> QED BY <1>1, <2>5, <4>1
    <3> QED BY <3>1, <3>2, <3>3, <3>4
  <2> HIDE DEF r
  <2>7. DOMAIN r = 1..Len(r)
    BY <2>6
  <2>8. IsInjective(r)
    BY <1>1, <2>6, <2>7 DEF IsInjective
  <2>9. ToSet(r) = ToSet(s) \ {e}
    <3>1. ASSUME NEW x \in ToSet(s), x # e PROVE x \in ToSet(r)
      <4>1. PICK i \in 1..Len(s) : x = s[i]
        BY <1>1 DEF ToSet
      <4>2. i # k
        BY <2>2, <3>1, <4>1
      <4>3. CASE i < k
        BY <1>1, <2>6, <2>7, <4>1, <4>3 DEF ToSet
      <4>4. CASE i > k
        <5>1. i - 1 \in 1..Len(r) /\ r[i - 1] = x
          BY <1>1, <2>6, <4>1, <4>4
        <5> QED BY <2>7, <5>1 DEF ToSet
      <4> QED BY <4>2, <4>3, <4>4
    <3>2. ASSUME NEW x \in ToSet(r) PROVE x \in ToSet(s) /\ x # e
      <4>1. PICK i \in 1..Len(r) : x = r[i]
        BY <2>7 DEF ToSet
      <4>2. PICK j \in 1..Len(s) : x = s[j] /\ j # k
        BY <1>1, <2>6, <4>1
      <4> QED BY <1>1, <2>2, <4>2 DEF ToSet
    <3> QED BY <3>1, <3>2
  <2> QED BY <2>4, <2>6, <2>8, <2>9
<1> QED BY <1>2, <1>3

-----------------------------------------------------------------------------
Tearing == {"unlink", "handOff", "bulk", "unref"}

\* Thread t holds a reference to h: for a theap in its registry, one it is
\* about to link or one it tears down.
Holds(t, h) == HasTheap(t, h) \/ TearsDown(t, h) \/ (cur[t] = h /\ pc[t] = "link")

\* Thread t is inside delete or destroy of h.
Deletes(t, h) ==
  cur[t] = h /\ t \notin exiting /\ pc[t] \in Tearing \cup {"unrefHandle"}

BlockStates == [page : Pages, life : Nat, origin : (Heaps \cup {Default}) \X Nat,
                state : {"live", "dead"}, moved : BOOLEAN]

Typed ==
  /\ refs \in [Heaps -> Nat] /\ gen \in [Heaps -> Nat]
  /\ handle \in [Heaps -> BOOLEAN]
  /\ theaps \in [Heaps -> SUBSET Threads]
  /\ registry \in [Threads -> Seq(Heaps)]
  /\ pc \in [Threads -> Pcs] /\ cur \in [Threads -> Heaps \cup {None}]
  /\ exiting \subseteq Threads
  /\ owner \in [Pages -> Theaps \cup {Abandoned, Unused}]
  /\ life \in [Pages -> Nat]
  /\ block \in [Blocks -> {None} \cup BlockStates]

(***************************************************************************)
(* The threads and the heaps they are busy with: a theap in the registry   *)
(* is not the one being made or torn down, an exiting thread is not inside *)
(* delete or destroy, and a heap is deleted once.                          *)
(***************************************************************************)
Busy ==
  /\ \A t \in Threads :
       /\ IsInjective(registry[t])
       /\ pc[t] \notin {"idle", "gone"} => cur[t] \in Heaps
       /\ pc[t] \in Tearing \cup {"link", "unrefHandle"} => ~HasTheap(t, cur[t])
       /\ t \in exiting => pc[t] \notin {"link", "bulk", "unrefHandle"}
  /\ \A h \in Heaps, t \in Threads : Deletes(t, h) =>
       /\ ~handle[h]
       /\ \A u \in Threads : Deletes(u, h) => t = u

\* The heap's list and the pages name only theaps that are there.
Listed ==
  /\ \A h \in Heaps : \A t \in theaps[h] :
       HasTheap(t, h) \/ (cur[t] = h /\ pc[t] \in {"unlink", "bulk"})
  /\ \A p \in Pages, t \in Threads, h \in Heaps :
       owner[p] = <<t, h>> =>
         HasTheap(t, h) \/ (cur[t] = h /\ pc[t] \in {"unlink", "handOff", "bulk"})

HeapInv == Typed /\ Busy /\ RefcountIsExact /\ Listed

\* The page was not released since the block was taken from it.
Here(b) == block[b].life = life[block[b].page]
Live(b) == block[b] # None /\ block[b].state = "live"

(***************************************************************************)
(* A page that carries blocks is not free; a live block that is not in its *)
(* page had been moved; one in a page of a first-class heap's theap is of  *)
(* that heap or was moved; and while a heap is torn down its blocks are    *)
(* dead.  The last two make a destroy take no page from under a live block *)
(* but that of a moved one.                                                *)
(***************************************************************************)
BlocksInPages ==
  \A b \in Blocks : block[b] # None =>
    /\ block[b].life <= life[block[b].page]
    /\ Here(b) => owner[block[b].page] # Unused
    /\ Live(b) => Here(b) \/ block[b].moved
    /\ \A t \in Threads, h \in Heaps :
         /\ Live(b) /\ Here(b) /\ owner[block[b].page] = <<t, h>>
              => block[b].moved \/ block[b].origin = Origin(h)
         /\ Live(b) /\ pc[t] = "bulk" /\ cur[t] = h => block[b].origin # Origin(h)

-----------------------------------------------------------------------------
(***************************************************************************)
(* Counting references.                                                    *)
(***************************************************************************)
\* The handle's reference: the program has it, or delete has yet to release it.
Held(h) == handle[h] \/ \E t \in Threads : Deletes(t, h)
Counted(h) ==
  refs[h] = Cardinality({t \in Threads : Holds(t, h)}) + (IF Held(h) THEN 1 ELSE 0)

\* The count of RefcountIsExact in the terms of the proof.
LEMMA ExactIsCounted ==
  /\ RefcountIsExact <=> \A h \in Heaps : Counted(h)
  /\ RefcountIsExact' <=> \A h \in Heaps : Counted(h)'
<1>1. \A h : Holders(h) = {t \in Threads : Holds(t, h)}
  BY DEF Holders, Holds
<1>2. \A h : Deleting(h) <=> \E t \in Threads : Deletes(t, h)
  BY DEF Deleting, Deletes, Tearing
<1>3. \A h : Holders(h)' = {t \in Threads : Holds(t, h)'}
  BY DEF Holders, Holds
<1>4. \A h : Deleting(h)' <=> \E t \in Threads : Deletes(t, h)'
  BY DEF Deleting, Deletes, Tearing
<1>5. RefcountIsExact <=> \A h \in Heaps : Counted(h)
  BY <1>1, <1>2, Zenon DEF RefcountIsExact, Counted, Held
<1>6. RefcountIsExact' <=> \A h \in Heaps : Counted(h)'
  BY <1>3, <1>4, Zenon DEF RefcountIsExact, Counted, Held
<1> QED BY <1>5, <1>6

LEMMA CountRises ==
  ASSUME NEW H \in SUBSET Threads, NEW K \in SUBSET Threads, NEW t \in Threads,
         t \notin H, \A u \in Threads : u \in K <=> u \in H \/ u = t
  PROVE  Cardinality(H) \in Nat /\ Cardinality(K) = Cardinality(H) + 1
<1>1. IsFiniteSet(H)
  BY FS_Subset, LifecycleAssumption
<1>2. K = H \cup {t}
  OBVIOUS
<1> QED BY <1>1, <1>2, FS_AddElement, FS_CardinalityType

LEMMA CountFalls ==
  ASSUME NEW H \in SUBSET Threads, NEW K \in SUBSET Threads, NEW t \in Threads,
         t \in H, \A u \in Threads : u \in K <=> u \in H /\ u # t
  PROVE  Cardinality(K) \in Nat /\ Cardinality(K) = Cardinality(H) - 1
<1>1. IsFiniteSet(H)
  BY FS_Subset, LifecycleAssumption
<1>2. K = H \ {t}
  OBVIOUS
<1> QED BY <1>1, <1>2, FS_RemoveElement, FS_CardinalityType

\* A step that leaves a heap's holders, its handle and its count alone.
LEMMA CountKept ==
  ASSUME NEW h \in Heaps, Counted(h), refs'[h] = refs[h],
         \A u \in Threads : Holds(u, h)' <=> Holds(u, h),
         Held(h)' <=> Held(h)
  PROVE  Counted(h)'
<1>1. {t \in Threads : Holds(t, h)'} = {t \in Threads : Holds(t, h)}
  OBVIOUS
<1> QED BY <1>1, Zenon DEF Counted

\* A thread takes a reference.
LEMMA CountTaken ==
  ASSUME NEW h \in Heaps, NEW t \in Threads, Counted(h), refs'[h] = refs[h] + 1,
         ~Holds(t, h), \A u \in Threads : Holds(u, h)' <=> Holds(u, h) \/ u = t,
         Held(h)' <=> Held(h)
  PROVE  Counted(h)'
<1> DEFINE H == {u \in Threads : Holds(u, h)}
           K == {u \in Threads : Holds(u, h)'}
<1>1. Cardinality(H) \in Nat /\ Cardinality(K) = Cardinality(H) + 1
  <2>1. t \notin H /\ \A u \in Threads : u \in K <=> u \in H \/ u = t
    OBVIOUS
  <2>2. H \in SUBSET Threads /\ K \in SUBSET Threads
    OBVIOUS
  <2> HIDE DEF H, K
  <2> QED BY <2>1, <2>2, CountRises
<1>2. refs[h] = Cardinality(H) + IF Held(h) THEN 1 ELSE 0
  BY DEF Counted
<1>3. Counted(h)' <=> refs'[h] = Cardinality(K) + IF Held(h)' THEN 1 ELSE 0
  BY DEF Counted
<1> HIDE DEF H, K
<1> QED BY <1>1, <1>2, <1>3

\* A thread releases the reference of its theap ...
LEMMA CountReleased ==
  ASSUME NEW h \in Heaps, NEW t \in Threads, Counted(h), refs'[h] = refs[h] - 1,
         Holds(t, h), \A u \in Threads : Holds(u, h)' <=> Holds(u, h) /\ u # t,
         Held(h)' <=> Held(h)
  PROVE  Counted(h)' /\ refs'[h] \in Nat
<1> DEFINE H == {u \in Threads : Holds(u, h)}
           K == {u \in Threads : Holds(u, h)'}
<1>1. Cardinality(K) \in Nat /\ Cardinality(K) = Cardinality(H) - 1
  <2>1. t \in H /\ \A u \in Threads : u \in K <=> u \in H /\ u # t
    OBVIOUS
  <2>2. H \in SUBSET Threads /\ K \in SUBSET Threads
    OBVIOUS
  <2> HIDE DEF H, K
  <2> QED BY <2>1, <2>2, CountFalls
<1>2. refs[h] = Cardinality(H) + IF Held(h) THEN 1 ELSE 0
  BY DEF Counted
<1>3. Counted(h)' <=> refs'[h] = Cardinality(K) + IF Held(h)' THEN 1 ELSE 0
  BY DEF Counted
<1>4. Cardinality(H) \in Nat
  BY FS_Subset, FS_CardinalityType, LifecycleAssumption
<1> HIDE DEF H, K
<1> QED BY <1>1, <1>2, <1>3, <1>4

\* ... or the handle's.
LEMMA CountOfHandle ==
  ASSUME NEW h \in Heaps, Counted(h), refs'[h] = refs[h] - 1,
         \A u \in Threads : Holds(u, h)' <=> Holds(u, h),
         Held(h), ~Held(h)'
  PROVE  Counted(h)' /\ refs'[h] \in Nat
<1> DEFINE H == {u \in Threads : Holds(u, h)}
<1>1. {u \in Threads : Holds(u, h)'} = H
  OBVIOUS
<1>2. refs[h] = Cardinality(H) + 1
  BY DEF Counted
<1>3. Counted(h)' <=> refs'[h] = Cardinality(H) + 0
  BY <1>1 DEF Counted
<1>4. Cardinality(H) \in Nat
  BY FS_Subset, FS_CardinalityType, LifecycleAssumption
<1> HIDE DEF H
<1> QED BY <1>2, <1>3, <1>4

\* The metadata is free: nobody refers to the heap.
LEMMA Unreferenced ==
  ASSUME NEW h \in Heaps, Counted(h), refs[h] = 0
  PROVE  ~Held(h) /\ {t \in Threads : Holds(t, h)} = {}
<1> DEFINE H == {u \in Threads : Holds(u, h)}
<1>1. IsFiniteSet(H)
  BY FS_Subset, LifecycleAssumption
<1>2. Cardinality(H) \in Nat /\ (Cardinality(H) = 0 <=> H = {})
  BY <1>1, FS_EmptySet, FS_CardinalityType
<1>3. 0 = Cardinality(H) + IF Held(h) THEN 1 ELSE 0
  BY DEF Counted
<1> HIDE DEF H
<1>4. ~Held(h) /\ H = {}
  BY <1>2, <1>3
<1> QED BY <1>4 DEF H

-----------------------------------------------------------------------------
(***************************************************************************)
(* One lemma per operation: what it does to the references threads hold,   *)
(* and that it preserves the invariant.                                    *)
(***************************************************************************)
LEMMA OwnersDiffer ==
  /\ \A t, h : <<t, h>> # Unused /\ <<t, h>> # Abandoned
  /\ Unused # Abandoned
<1>1. Len(Unused) = 0 /\ Len(Abandoned) = 1
  BY DEF Unused, Abandoned
<1>2. \A t, h : Len(<<t, h>>) = 2
  OBVIOUS
<1> QED BY <1>1, <1>2

LEMMA HeapInit == Init => HeapInv
<1> SUFFICES ASSUME Init PROVE HeapInv
  OBVIOUS
<1> USE DEF Init
<1>1. Typed
  <2>1. refs \in [Heaps -> Nat] /\ gen \in [Heaps -> Nat] /\ handle \in [Heaps -> BOOLEAN]
    OBVIOUS
  <2>2. theaps \in [Heaps -> SUBSET Threads] /\ registry \in [Threads -> Seq(Heaps)]
    OBVIOUS
  <2>3. /\ pc \in [Threads -> Pcs] /\ cur \in [Threads -> Heaps \cup {None}]
        /\ exiting \subseteq Threads
    BY DEF Pcs
  <2>4. /\ owner \in [Pages -> Theaps \cup {Abandoned, Unused}]
        /\ life \in [Pages -> Nat] /\ block \in [Blocks -> {None} \cup BlockStates]
    OBVIOUS
  <2> QED BY <2>1, <2>2, <2>3, <2>4 DEF Typed
<1>2. \A t \in Threads : registry[t] = <<>> /\ ToSet(registry[t]) = {}
  BY DEF ToSet
<1>3. Busy
  BY <1>2 DEF Busy, IsInjective, Deletes, Tearing
<1>4. (\A p \in Pages : owner[p] = Unused) /\ \A h \in Heaps : theaps[h] = {}
  OBVIOUS
<1>5. Listed
  BY <1>4, OwnersDiffer DEF Listed
<1>6. ASSUME NEW h \in Heaps PROVE Counted(h)
  <2>1. {t \in Threads : Holds(t, h)} = {}
    BY <1>2 DEF Holds, HasTheap, TearsDown
  <2>2. ~Held(h)
    BY DEF Held, Deletes, Tearing
  <2>3. refs[h] = 0
    OBVIOUS
  <2> HIDE DEF Init
  <2> QED BY <2>1, <2>2, <2>3, FS_EmptySet DEF Counted
<1> QED BY <1>1, <1>3, <1>5, <1>6, ExactIsCounted DEF HeapInv

\* Steps that change neither the registries nor what the threads are doing.
LEMMA QuietStep ==
  ASSUME HeapInv, Typed', Listed',
         UNCHANGED <<refs, handle, registry, pc, cur>>,
         exiting \subseteq exiting', exiting' \subseteq Threads,
         \A t \in Threads : t \in exiting' \ exiting => pc[t] = "idle"
  PROVE  HeapInv'
<1> USE DEF HeapInv
<1>1. \A t \in Threads, h \in Heaps : Holds(t, h)' <=> Holds(t, h)
  BY DEF Holds, HasTheap, TearsDown
<1>2. \A t \in Threads, h \in Heaps : Deletes(t, h)' <=> Deletes(t, h)
  BY DEF Deletes, Tearing
<1>3. Busy'
  <2>1. ASSUME NEW t \in Threads
        PROVE  /\ IsInjective(registry[t])'
               /\ (pc[t] \notin {"idle", "gone"} => cur[t] \in Heaps)'
               /\ (pc[t] \in Tearing \cup {"link", "unrefHandle"} => ~HasTheap(t, cur[t]))'
               /\ (t \in exiting => pc[t] \notin {"link", "bulk", "unrefHandle"})'
    BY DEF Busy, HasTheap, IsInjective
  <2>2. ASSUME NEW h \in Heaps, NEW t \in Threads, Deletes(t, h)'
        PROVE  ~handle'[h] /\ \A u \in Threads : Deletes(u, h)' => t = u
    BY <1>2, <2>2 DEF Busy
  <2> QED BY <2>1, <2>2 DEF Busy
<1>4. \A h \in Heaps : Held(h)' <=> Held(h)
  BY <1>2 DEF Held
<1>5. RefcountIsExact'
  BY <1>1, <1>4, ExactIsCounted, CountKept
<1> QED BY <1>3, <1>5

LEMMA NewHeapStep ==
  ASSUME HeapInv, NEW t \in Threads, NEW h \in Heaps, NewHeap(t, h)
  PROVE  HeapInv'
<1>0. /\ refs[h] = 0 /\ refs' = [refs EXCEPT ![h] = 1]
      /\ gen' = [gen EXCEPT ![h] = @ + 1]
      /\ handle' = [handle EXCEPT ![h] = TRUE]
      /\ UNCHANGED <<theaps, registry, pc, cur, exiting, owner, life, block>>
  BY Zenon DEF NewHeap
<1> USE <1>0 DEF HeapInv
<1>1. Typed'
  <2>1. refs' \in [Heaps -> Nat] /\ gen' \in [Heaps -> Nat] /\ handle' \in [Heaps -> BOOLEAN]
    BY DEF Typed
  <2> QED BY <2>1 DEF Typed
<1>2. \A u \in Threads, g \in Heaps : Holds(u, g)' <=> Holds(u, g)
  BY DEF Holds, HasTheap, TearsDown
<1>3. \A u \in Threads, g \in Heaps : Deletes(u, g)' <=> Deletes(u, g)
  BY DEF Deletes
<1>4. ~Held(h) /\ {u \in Threads : Holds(u, h)} = {}
  BY Unreferenced, ExactIsCounted
<1>5. ASSUME NEW g \in Heaps PROVE Counted(g)'
  <2>1. CASE g # h
    <3>1. Held(g)' <=> Held(g)
      BY <1>3, <2>1 DEF Held, Typed
    <3>2. refs'[g] = refs[g]
      BY <2>1 DEF Typed
    <3> QED BY <1>2, <3>1, <3>2, CountKept, ExactIsCounted
  <2>2. CASE g = h
    <3>1. {u \in Threads : Holds(u, h)'} = {}
      BY <1>2, <1>4
    <3>2. Held(h)' /\ refs'[h] = 1
      BY DEF Held, Typed
    <3>3. Counted(h)'
      BY <3>1, <3>2, FS_EmptySet DEF Counted
    <3> QED BY <2>2, <3>3
  <2> QED BY <2>1, <2>2
<1>6. Busy'
  <2>1. ASSUME NEW u \in Threads
        PROVE  /\ IsInjective(registry[u])'
               /\ (pc[u] \notin {"idle", "gone"} => cur[u] \in Heaps)'
               /\ (pc[u] \in Tearing \cup {"link", "unrefHandle"} => ~HasTheap(u, cur[u]))'
               /\ (u \in exiting => pc[u] \notin {"link", "bulk", "unrefHandle"})'
    BY DEF Busy, HasTheap, IsInjective
  <2>2. ASSUME NEW g \in Heaps, NEW u \in Threads, Deletes(u, g)'
        PROVE  ~handle'[g] /\ \A v \in Threads : Deletes(v, g)' => u = v
    <3>1. Deletes(u, g) /\ g # h
      BY <1>3, <1>4, <2>2 DEF Held
    <3> QED BY <1>3, <3>1 DEF Busy, Typed
  <2> QED BY <2>1, <2>2 DEF Busy
<1>7. Listed'
  BY DEF Listed, HasTheap
<1> QED BY <1>1, <1>5, <1>6, <1>7, ExactIsCounted

LEMMA NewTheapStep ==
  ASSUME HeapInv, NEW t \in Threads, NEW h \in Heaps, NewTheap(t, h)
  PROVE  HeapInv'
<1> USE DEF HeapInv, NewTheap, Goto, Ready
<1>1. Typed'
  BY DEF Typed, Pcs
<1>2. \A u \in Threads, g \in Heaps : HasTheap(u, g)' <=> HasTheap(u, g)
  BY DEF HasTheap
<1>3. /\ pc[t] = "idle" /\ pc'[t] = "link" /\ cur'[t] = h
      /\ \A u \in Threads : u # t => pc'[u] = pc[u] /\ cur'[u] = cur[u]
  BY DEF Typed
<1>4. /\ ~Holds(t, h)
      /\ \A u \in Threads, g \in Heaps :
           Holds(u, g)' <=> Holds(u, g) \/ (u = t /\ g = h)
  BY <1>2, <1>3 DEF Holds, TearsDown
<1>5. \A u \in Threads, g \in Heaps : Deletes(u, g)' <=> Deletes(u, g)
  BY <1>3 DEF Deletes, Tearing
<1>6. ASSUME NEW g \in Heaps PROVE Counted(g)'
  <2>1. Held(g)' <=> Held(g)
    BY <1>5 DEF Held
  <2>2. CASE g # h
    BY <1>4, <2>1, <2>2, CountKept, ExactIsCounted DEF Typed
  <2>3. CASE g = h
    <3>1. refs'[h] = refs[h] + 1
      BY DEF Typed
    <3> QED BY <1>4, <2>1, <2>3, <3>1, CountTaken, ExactIsCounted
  <2> QED BY <2>2, <2>3
<1>7. Busy'
  <2>1. ASSUME NEW u \in Threads
        PROVE  /\ IsInjective(registry[u])'
               /\ (pc[u] \notin {"idle", "gone"} => cur[u] \in Heaps)'
               /\ (pc[u] \in Tearing \cup {"link", "unrefHandle"} => ~HasTheap(u, cur[u]))'
               /\ (u \in exiting => pc[u] \notin {"link", "bulk", "unrefHandle"})'
    BY <1>3 DEF Busy, HasTheap, IsInjective
  <2>2. ASSUME NEW g \in Heaps, NEW u \in Threads, Deletes(u, g)'
        PROVE  ~handle'[g] /\ \A v \in Threads : Deletes(v, g)' => u = v
    BY <1>5, <2>2 DEF Busy
  <2> QED BY <2>1, <2>2 DEF Busy
<1>8. Listed'
  <2>1. ASSUME NEW u \in Threads, NEW g \in Heaps
        PROVE  cur[u] = g /\ pc[u] \in {"unlink", "handOff", "bulk"}
                 => cur'[u] = g /\ pc'[u] = pc[u]
    BY <1>3
  <2>2. theaps' = theaps /\ owner' = owner /\ \A g \in Heaps : theaps[g] \subseteq Threads
    BY DEF Typed
  <2> QED BY <1>2, <2>1, <2>2 DEF Listed
<1> QED BY <1>1, <1>6, <1>7, <1>8, ExactIsCounted

LEMMA LinkStep ==
  ASSUME HeapInv, NEW t \in Threads, Link(t)
  PROVE  HeapInv'
<1> USE DEF HeapInv, Link, Goto
<1>0. PICK h \in Heaps : h = cur[t]
  BY DEF Busy
<1>1. /\ registry[t] \in Seq(Heaps) /\ IsInjective(registry[t]) /\ h \notin ToSet(registry[t])
  BY <1>0 DEF Busy, HasTheap, Typed
<1>2. /\ registry'[t] = <<h>> \o registry[t]
      /\ \A u \in Threads : u # t => registry'[u] = registry[u]
  BY <1>0 DEF Typed
<1>3. /\ registry'[t] \in Seq(Heaps) /\ IsInjective(registry'[t])
      /\ ToSet(registry'[t]) = ToSet(registry[t]) \cup {h}
  BY <1>1, <1>2, Pushed
<1>4. registry' \in [Threads -> Seq(Heaps)]
  BY <1>0, <1>3 DEF Typed
<1>5. Typed'
  BY <1>0, <1>4 DEF Typed, Pcs
<1>6. \A u \in Threads, g \in Heaps :
        HasTheap(u, g)' <=> HasTheap(u, g) \/ (u = t /\ g = h)
  BY <1>2, <1>3 DEF HasTheap
<1>7. /\ pc[t] = "link" /\ pc'[t] = "idle"
      /\ \A u \in Threads : u # t => pc'[u] = pc[u] /\ cur'[u] = cur[u]
      /\ exiting' = exiting /\ refs' = refs /\ handle' = handle
  BY DEF Typed
<1>8. \A u \in Threads, g \in Heaps : Holds(u, g)' <=> Holds(u, g)
  BY <1>0, <1>6, <1>7 DEF Holds, TearsDown
<1>9. \A u \in Threads, g \in Heaps : Deletes(u, g)' <=> Deletes(u, g)
  BY <1>7 DEF Deletes, Tearing
<1>10. RefcountIsExact'
  <2>1. \A g \in Heaps : Held(g)' <=> Held(g)
    BY <1>7, <1>9 DEF Held
  <2> QED BY <1>7, <1>8, <2>1, CountKept, ExactIsCounted
<1>11. Busy'
  <2>1. ASSUME NEW u \in Threads
        PROVE  /\ IsInjective(registry[u])'
               /\ (pc[u] \notin {"idle", "gone"} => cur[u] \in Heaps)'
               /\ (pc[u] \in Tearing \cup {"link", "unrefHandle"} => ~HasTheap(u, cur[u]))'
               /\ (u \in exiting => pc[u] \notin {"link", "bulk", "unrefHandle"})'
    <3>1. CASE u = t
      BY <1>3, <1>7, <3>1 DEF Tearing, IsInjective
    <3>2. CASE u # t
      BY <1>2, <1>7, <3>2 DEF Busy, HasTheap, IsInjective
    <3> QED BY <3>1, <3>2
  <2>2. ASSUME NEW g \in Heaps, NEW u \in Threads, Deletes(u, g)'
        PROVE  ~handle'[g] /\ \A v \in Threads : Deletes(v, g)' => u = v
    BY <1>7, <1>9, <2>2 DEF Busy
  <2> QED BY <2>1, <2>2 DEF Busy
<1>12. Listed'
  <2>1. ASSUME NEW u \in Threads, NEW g \in Heaps
        PROVE  cur[u] = g /\ pc[u] \in {"unlink", "handOff", "bulk"}
                 => cur'[u] = g /\ pc'[u] = pc[u]
    BY <1>7
  <2>2. owner' = owner
    OBVIOUS
  <2>3. ASSUME NEW g \in Heaps, NEW u \in theaps'[g]
        PROVE  u \in Threads /\ (u \in theaps[g] \/ (u = t /\ g = h))
    BY <1>0 DEF Typed
  <2> QED BY <1>6, <2>1, <2>2, <2>3 DEF Listed
<1> QED BY <1>5, <1>10, <1>11, <1>12

\* delete and destroy: the reference of the theap and the handle's move to
\* the thread that tears down.
LEMMA GiveUpStep ==
  ASSUME HeapInv, NEW t \in Threads, NEW h \in Heaps,
         NEW teardown \in {"unlink", "bulk"}, GiveUpHandle(t, h, teardown),
         block' \in [Blocks -> {None} \cup BlockStates]
  PROVE  HeapInv'
<1> USE DEF HeapInv, GiveUpHandle, Goto, Ready
<1>1. registry[t] \in Seq(Heaps) /\ IsInjective(registry[t])
  BY DEF Busy, Typed
<1>2. /\ registry'[t] = RemoveFirst(registry[t], h)
      /\ \A u \in Threads : u # t => registry'[u] = registry[u]
  BY DEF Typed
<1>3. /\ registry'[t] \in Seq(Heaps) /\ IsInjective(registry'[t])
      /\ ToSet(registry'[t]) = ToSet(registry[t]) \ {h}
  BY <1>1, <1>2, Taken
<1>4. registry' \in [Threads -> Seq(Heaps)]
  BY <1>3 DEF Typed
<1>5. Typed'
  BY <1>4 DEF Typed, Pcs
<1>6. \A u \in Threads, g \in Heaps :
        HasTheap(u, g)' <=> HasTheap(u, g) /\ ~(u = t /\ g = h)
  BY <1>2, <1>3 DEF HasTheap
<1>7. /\ pc[t] = "idle" /\ pc'[t] = (IF HasTheap(t, h) THEN teardown ELSE "unrefHandle")
      /\ cur'[t] = h /\ t \notin exiting
      /\ \A u \in Threads : u # t => pc'[u] = pc[u] /\ cur'[u] = cur[u]
      /\ exiting' = exiting /\ refs' = refs /\ theaps' = theaps /\ owner' = owner
  BY DEF Typed
<1>8. \A u \in Threads, g \in Heaps : Holds(u, g)' <=> Holds(u, g)
  <2>1. \A g \in Heaps : Holds(t, g)' <=> Holds(t, g)
    BY <1>6, <1>7 DEF Holds, TearsDown
  <2>2. \A u \in Threads, g \in Heaps : u # t => (Holds(u, g)' <=> Holds(u, g))
    BY <1>6, <1>7 DEF Holds, TearsDown
  <2> QED BY <2>1, <2>2
<1>9. \A u \in Threads, g \in Heaps : Deletes(u, g)' <=> Deletes(u, g) \/ (u = t /\ g = h)
  BY <1>7 DEF Deletes, Tearing
<1>10. \A u \in Threads : ~Deletes(u, h)
  BY DEF Busy
<1>11. handle'[h] = FALSE /\ \A g \in Heaps : g # h => handle'[g] = handle[g]
  BY DEF Typed
<1>12. RefcountIsExact'
  <2>1. ASSUME NEW g \in Heaps PROVE Held(g)' <=> Held(g)
    <3>1. CASE g = h
      <4>1. Held(h)' /\ Held(h)
        BY <1>9 DEF Held
      <4> QED BY <3>1, <4>1
    <3>2. CASE g # h
      BY <1>9, <1>11, <3>2 DEF Held
    <3> QED BY <3>1, <3>2
  <2> QED BY <1>7, <1>8, <2>1, CountKept, ExactIsCounted
<1>13. Busy'
  <2>1. ASSUME NEW u \in Threads
        PROVE  /\ IsInjective(registry[u])'
               /\ (pc[u] \notin {"idle", "gone"} => cur[u] \in Heaps)'
               /\ (pc[u] \in Tearing \cup {"link", "unrefHandle"} => ~HasTheap(u, cur[u]))'
               /\ (u \in exiting => pc[u] \notin {"link", "bulk", "unrefHandle"})'
    <3>1. CASE u = t
      BY <1>3, <1>7, <3>1 DEF HasTheap, IsInjective
    <3>2. CASE u # t
      BY <1>2, <1>7, <3>2 DEF Busy, HasTheap, IsInjective
    <3> QED BY <3>1, <3>2
  <2>2. ASSUME NEW g \in Heaps, NEW u \in Threads, Deletes(u, g)'
        PROVE  ~handle'[g] /\ \A v \in Threads : Deletes(v, g)' => u = v
    <3>1. CASE g = h
      BY <1>9, <1>10, <1>11, <2>2, <3>1
    <3>2. CASE g # h
      BY <1>9, <1>11, <2>2, <3>2 DEF Busy
    <3> QED BY <3>1, <3>2
  <2> QED BY <2>1, <2>2 DEF Busy
<1>14. Listed'
  <2>1. ASSUME NEW u \in Threads, NEW g \in Heaps
        PROVE  cur[u] = g /\ pc[u] \in {"unlink", "handOff", "bulk"}
                 => cur'[u] = g /\ pc'[u] = pc[u]
    BY <1>7
  <2>2. HasTheap(t, h) => cur'[t] = h /\ pc'[t] \in {"unlink", "bulk"}
    BY <1>7
  <2>3. \A g \in Heaps : theaps[g] \subseteq Threads
    BY DEF Typed
  <2> QED BY <1>6, <1>7, <2>1, <2>2, <2>3 DEF Listed
<1> QED BY <1>5, <1>12, <1>13, <1>14

\* A step of a teardown that keeps the theap's reference.
LEMMA TeardownStep ==
  ASSUME HeapInv, NEW t \in Threads, Typed', Listed',
         pc[t] \in {"unlink", "handOff", "bulk"}, pc'[t] \in {"handOff", "unref"},
         \A u \in Threads : u # t => pc'[u] = pc[u],
         UNCHANGED <<refs, handle, registry, cur, exiting>>
  PROVE  HeapInv'
<1> USE DEF HeapInv
<1>1. \A u \in Threads, g \in Heaps : Holds(u, g)' <=> Holds(u, g)
  <2>1. \A g \in Heaps : Holds(t, g)' <=> Holds(t, g)
    BY DEF Holds, HasTheap, TearsDown
  <2>2. \A u \in Threads, g \in Heaps : u # t => (Holds(u, g)' <=> Holds(u, g))
    BY DEF Holds, HasTheap, TearsDown
  <2> QED BY <2>1, <2>2
<1>2. \A u \in Threads, g \in Heaps : Deletes(u, g)' <=> Deletes(u, g)
  BY DEF Deletes, Tearing
<1>3. RefcountIsExact'
  <2>1. \A g \in Heaps : Held(g)' <=> Held(g)
    BY <1>2 DEF Held
  <2> QED BY <1>1, <2>1, CountKept, ExactIsCounted
<1>4. Busy'
  <2>1. ASSUME NEW u \in Threads
        PROVE  /\ IsInjective(registry[u])'
               /\ (pc[u] \notin {"idle", "gone"} => cur[u] \in Heaps)'
               /\ (pc[u] \in Tearing \cup {"link", "unrefHandle"} => ~HasTheap(u, cur[u]))'
               /\ (u \in exiting => pc[u] \notin {"link", "bulk", "unrefHandle"})'
    <3>1. CASE u = t
      BY <3>1 DEF Busy, HasTheap, IsInjective, Tearing
    <3>2. CASE u # t
      BY <3>2 DEF Busy, HasTheap, IsInjective
    <3> QED BY <3>1, <3>2
  <2>2. ASSUME NEW g \in Heaps, NEW u \in Threads, Deletes(u, g)'
        PROVE  ~handle'[g] /\ \A v \in Threads : Deletes(v, g)' => u = v
    BY <1>2, <2>2 DEF Busy
  <2> QED BY <2>1, <2>2 DEF Busy
<1> QED BY <1>3, <1>4

LEMMA UnlinkStep ==
  ASSUME HeapInv, NEW t \in Threads, Unlink(t)
  PROVE  HeapInv'
<1> USE DEF HeapInv, Unlink, Goto
<1>0. PICK h \in Heaps : h = cur[t]
  BY DEF Busy
<1>1. Typed'
  BY <1>0 DEF Typed, Pcs
<1>2. /\ pc[t] = "unlink" /\ pc'[t] = "handOff"
      /\ \A u \in Threads : u # t => pc'[u] = pc[u]
  BY DEF Typed
<1>3. Listed'
  <2>1. ASSUME NEW g \in Heaps, NEW u \in theaps'[g]
        PROVE  u \in Threads /\ u \in theaps[g] /\ ~(u = t /\ g = h)
    BY <1>0 DEF Typed
  <2>2. ASSUME NEW g \in Heaps, NEW u \in theaps'[g]
        PROVE  HasTheap(u, g)' \/ (cur'[u] = g /\ pc'[u] \in {"unlink", "bulk"})
    <3>1. HasTheap(u, g) \/ (cur[u] = g /\ pc[u] \in {"unlink", "bulk"})
      BY <2>1 DEF Listed
    <3> QED BY <1>0, <1>2, <2>1, <3>1 DEF HasTheap
  <2>3. ASSUME NEW p \in Pages, NEW u \in Threads, NEW g \in Heaps, owner'[p] = <<u, g>>
        PROVE  HasTheap(u, g)' \/ (cur'[u] = g /\ pc'[u] \in {"unlink", "handOff", "bulk"})
    <3>1. HasTheap(u, g) \/ (cur[u] = g /\ pc[u] \in {"unlink", "handOff", "bulk"})
      BY <2>3 DEF Listed
    <3> QED BY <1>2, <3>1 DEF HasTheap
  <2> QED BY <2>2, <2>3 DEF Listed
<1>4. UNCHANGED <<refs, handle, registry, cur, exiting>>
  OBVIOUS
<1> QED BY <1>1, <1>2, <1>3, <1>4, TeardownStep

LEMMA HandOffStep ==
  ASSUME HeapInv, NEW t \in Threads, HandOff(t)
  PROVE  HeapInv'
<1> USE DEF HeapInv, HandOff, Goto
<1>0. PICK h \in Heaps : h = cur[t]
  BY DEF Busy
<1>1. Typed'
  <2>1. owner' \in [Pages -> Theaps \cup {Abandoned, Unused}]
    BY DEF HandedOff, Typed
  <2> QED BY <2>1 DEF Typed, Pcs
<1>2. /\ pc[t] = "handOff" /\ pc'[t] = "unref"
      /\ \A u \in Threads : u # t => pc'[u] = pc[u]
  BY DEF Typed
<1>3. \A p \in Pages : \A u, g : owner'[p] = <<u, g>> => owner[p] = <<u, g>> /\ <<u, g>> # <<t, h>>
  BY <1>0, OwnersDiffer DEF HandedOff
<1>4. Listed'
  <2>1. ASSUME NEW g \in Heaps, NEW u \in theaps'[g]
        PROVE  HasTheap(u, g)' \/ (cur'[u] = g /\ pc'[u] \in {"unlink", "bulk"})
    <3>1. u \in Threads /\ (HasTheap(u, g) \/ (cur[u] = g /\ pc[u] \in {"unlink", "bulk"}))
      BY DEF Listed, Typed
    <3> QED BY <1>2, <3>1 DEF HasTheap
  <2>2. ASSUME NEW p \in Pages, NEW u \in Threads, NEW g \in Heaps, owner'[p] = <<u, g>>
        PROVE  HasTheap(u, g)' \/ (cur'[u] = g /\ pc'[u] \in {"unlink", "handOff", "bulk"})
    <3>1. HasTheap(u, g) \/ (cur[u] = g /\ pc[u] \in {"unlink", "handOff", "bulk"})
      BY <1>3, <2>2 DEF Listed
    <3>2. ~(u = t /\ g = h)
      BY <1>3, <2>2
    <3> QED BY <1>0, <1>2, <3>1, <3>2 DEF HasTheap
  <2> QED BY <2>1, <2>2 DEF Listed
<1>5. UNCHANGED <<refs, handle, registry, cur, exiting>>
  OBVIOUS
<1> QED BY <1>1, <1>2, <1>4, <1>5, TeardownStep

\* The blocks after a bulk free: what is left is as it was, and live if it was
\* on a page of the theap.
LEMMA BulkBlocks ==
  ASSUME Typed, NEW t \in Threads, BulkFree(t)
  PROVE  /\ block' \in [Blocks -> {None} \cup BlockStates]
         /\ \A b \in Blocks : block'[b] # None =>
              /\ block[b] # None /\ block'[b] = block[b]
              /\ owner[block[b].page] = <<t, cur[t]>> => block[b].state = "live"
<1> DEFINE mine == {p \in Pages : owner[p] = <<t, cur[t]>>}
<1>1. block' = [b \in Blocks |->
        IF block[b] # None /\ block[b].state = "dead" /\ block[b].page \in mine
        THEN None ELSE block[b]]
  BY Zenon DEF BulkFree
<1> SUFFICES ASSUME NEW b \in Blocks
             PROVE  /\ block'[b] \in {None} \cup BlockStates
                    /\ block'[b] # None =>
                         /\ block[b] # None /\ block'[b] = block[b]
                         /\ owner[block[b].page] = <<t, cur[t]>> => block[b].state = "live"
  BY <1>1
<1>2. block[b] \in {None} \cup BlockStates
  BY DEF Typed
<1>3. ASSUME block[b] # None
      PROVE  block[b].page \in Pages /\ block[b].state \in {"live", "dead"}
  BY <1>2, <1>3 DEF BlockStates
<1> QED BY <1>1, <1>2, <1>3

LEMMA BulkFreeStep ==
  ASSUME HeapInv, NEW t \in Threads, BulkFree(t)
  PROVE  HeapInv'
<1> USE DEF HeapInv
<1>0. PICK h \in Heaps : h = cur[t] /\ pc[t] = "bulk"
  BY DEF Busy, BulkFree
<1>1. /\ theaps' = [theaps EXCEPT ![h] = @ \ {t}]
      /\ owner' = [p \in Pages |-> IF owner[p] = <<t, h>> THEN Unused ELSE owner[p]]
      /\ life' = [p \in Pages |-> IF owner[p] = <<t, h>> THEN life[p] + 1 ELSE life[p]]
      /\ pc' = [pc EXCEPT ![t] = "unref"]
      /\ UNCHANGED <<refs, gen, handle, registry, cur, exiting>>
  BY <1>0 DEF BulkFree, Goto
<1>2. Typed'
  <2>1. /\ theaps' \in [Heaps -> SUBSET Threads] /\ pc' \in [Threads -> Pcs]
        /\ owner' \in [Pages -> Theaps \cup {Abandoned, Unused}]
        /\ life' \in [Pages -> Nat]
    BY <1>1 DEF Typed, Pcs
  <2> QED BY <1>1, <2>1, BulkBlocks DEF Typed
<1>3. /\ pc'[t] = "unref" /\ \A u \in Threads : u # t => pc'[u] = pc[u]
  BY <1>1 DEF Typed
<1>4. Listed'
  <2>1. ASSUME NEW g \in Heaps, NEW u \in theaps'[g]
        PROVE  HasTheap(u, g)' \/ (cur'[u] = g /\ pc'[u] \in {"unlink", "bulk"})
    <3>1. u \in Threads /\ u \in theaps[g] /\ ~(u = t /\ g = h)
      BY <1>1 DEF Typed
    <3>2. HasTheap(u, g) \/ (cur[u] = g /\ pc[u] \in {"unlink", "bulk"})
      BY <3>1 DEF Listed
    <3> QED BY <1>0, <1>1, <1>3, <3>1, <3>2 DEF HasTheap
  <2>2. ASSUME NEW p \in Pages, NEW u \in Threads, NEW g \in Heaps, owner'[p] = <<u, g>>
        PROVE  HasTheap(u, g)' \/ (cur'[u] = g /\ pc'[u] \in {"unlink", "handOff", "bulk"})
    <3>1. owner[p] = <<u, g>> /\ ~(u = t /\ g = h)
      BY <1>1, <2>2, OwnersDiffer
    <3>2. HasTheap(u, g) \/ (cur[u] = g /\ pc[u] \in {"unlink", "handOff", "bulk"})
      BY <3>1 DEF Listed
    <3> QED BY <1>0, <1>1, <1>3, <3>1, <3>2 DEF HasTheap
  <2> QED BY <2>1, <2>2 DEF Listed
<1> QED BY <1>0, <1>1, <1>2, <1>3, <1>4, TeardownStep

\* A thread other than t is where it was; t has no business left with h but
\* possibly the handle of h to release.
LEMMA ReleaseStep ==
  ASSUME HeapInv, NEW t \in Threads, NEW h \in Heaps, h = cur[t],
         pc[t] \in {"unref", "unrefHandle"},
         \/ pc'[t] = "idle" /\ (pc[t] = "unrefHandle" \/ t \in exiting)
         \/ pc'[t] = "unrefHandle" /\ cur'[t] = h /\ pc[t] = "unref" /\ t \notin exiting,
         \A u \in Threads : u # t => pc'[u] = pc[u] /\ cur'[u] = cur[u],
         refs' = [refs EXCEPT ![h] = @ - 1],
         pc' \in [Threads -> Pcs], cur' \in [Threads -> Heaps \cup {None}],
         UNCHANGED <<gen, handle, theaps, registry, exiting, owner, life, block>>
  PROVE  HeapInv'
<1> USE DEF HeapInv
<1>1. \A u \in Threads, g \in Heaps : HasTheap(u, g)' <=> HasTheap(u, g)
  BY DEF HasTheap
<1>2. ~HasTheap(t, h)
  BY DEF Busy, Tearing
<1>3. refs'[h] = refs[h] - 1 /\ \A g \in Heaps : g # h => refs'[g] = refs[g]
  BY DEF Typed
<1>4. \A u \in Threads, g \in Heaps :
        Holds(u, g)' <=> Holds(u, g) /\ ~(u = t /\ g = h)
  BY <1>1, <1>2 DEF Holds, TearsDown
<1>5. \A g \in Heaps, u \in Threads : u # t => (Deletes(u, g)' <=> Deletes(u, g))
  BY DEF Deletes
<1>6. \A g \in Heaps : g # h => ~Deletes(t, g) /\ ~Deletes(t, g)'
  BY DEF Deletes, Tearing
<1>7. \A g \in Heaps : g # h => (Held(g)' <=> Held(g))
  BY <1>5, <1>6 DEF Held
<1>8. Counted(h)' /\ refs'[h] \in Nat
  <2>1. CASE pc[t] = "unref"
    <3>1. Holds(t, h)
      BY <2>1 DEF Holds, TearsDown
    <3>2. Deletes(t, h)' <=> Deletes(t, h)
      BY <2>1 DEF Deletes, Tearing
    <3>3. Held(h)' <=> Held(h)
      BY <1>5, <3>2 DEF Held
    <3> QED BY <1>3, <1>4, <3>1, <3>3, CountReleased, ExactIsCounted
  <2>2. CASE pc[t] = "unrefHandle"
    <3>1. ~Holds(t, h)
      BY <1>2, <2>2 DEF Holds, TearsDown
    <3>2. Deletes(t, h) /\ ~Deletes(t, h)'
      BY <2>2 DEF Deletes, Tearing, Busy
    <3>3. ~handle[h] /\ \A u \in Threads : Deletes(u, h) => u = t
      BY <3>2 DEF Busy
    <3>4. Held(h) /\ ~Held(h)'
      BY <1>5, <3>2, <3>3 DEF Held
    <3> QED BY <1>3, <1>4, <3>1, <3>4, CountOfHandle, ExactIsCounted
  <2> QED BY <2>1, <2>2
<1>9. ASSUME NEW g \in Heaps PROVE Counted(g)'
  <2>1. CASE g # h
    BY <1>3, <1>4, <1>7, <2>1, CountKept, ExactIsCounted
  <2> QED BY <1>8, <2>1
<1>10. Typed'
  <2>1. refs' \in [Heaps -> Nat]
    BY <1>3, <1>8 DEF Typed
  <2> QED BY <2>1 DEF Typed
<1>11. Busy'
  <2>1. ASSUME NEW u \in Threads
        PROVE  /\ IsInjective(registry[u])'
               /\ (pc[u] \notin {"idle", "gone"} => cur[u] \in Heaps)'
               /\ (pc[u] \in Tearing \cup {"link", "unrefHandle"} => ~HasTheap(u, cur[u]))'
               /\ (u \in exiting => pc[u] \notin {"link", "bulk", "unrefHandle"})'
    <3>1. CASE u = t
      BY <1>2, <3>1 DEF Busy, HasTheap, IsInjective, Tearing
    <3>2. CASE u # t
      BY <3>2 DEF Busy, HasTheap, IsInjective
    <3> QED BY <3>1, <3>2
  <2>2. \A g \in Heaps, u \in Threads : Deletes(u, g)' => Deletes(u, g)
    BY <1>5, <1>6 DEF Deletes, Tearing
  <2>3. ASSUME NEW g \in Heaps, NEW u \in Threads, Deletes(u, g)'
        PROVE  ~handle'[g] /\ \A v \in Threads : Deletes(v, g)' => u = v
    BY <2>2, <2>3 DEF Busy
  <2> QED BY <2>1, <2>3 DEF Busy
<1>12. Listed'
  <2>1. ASSUME NEW u \in Threads, NEW g \in Heaps
        PROVE  cur[u] = g /\ pc[u] \in {"unlink", "handOff", "bulk"}
                 => cur'[u] = g /\ pc'[u] = pc[u]
    OBVIOUS
  <2>2. \A g \in Heaps : theaps[g] \subseteq Threads
    BY DEF Typed
  <2> QED BY <1>1, <2>1, <2>2 DEF Listed
<1> QED BY <1>9, <1>10, <1>11, <1>12, ExactIsCounted

LEMMA UnrefStep ==
  ASSUME HeapInv, NEW t \in Threads, Unref(t)
  PROVE  HeapInv'
<1> USE DEF HeapInv, Unref, Goto
<1>0. PICK h \in Heaps : h = cur[t]
  BY DEF Busy
<1>1. pc' \in [Threads -> Pcs] /\ cur' \in [Threads -> Heaps \cup {None}]
  BY DEF Typed, Pcs
<1>2. \A u \in Threads : u # t => pc'[u] = pc[u] /\ cur'[u] = cur[u]
  BY DEF Typed
<1>3. \/ pc'[t] = "idle" /\ (pc[t] = "unrefHandle" \/ t \in exiting)
      \/ pc'[t] = "unrefHandle" /\ cur'[t] = h /\ pc[t] = "unref" /\ t \notin exiting
  BY <1>0 DEF Typed
<1>4. /\ pc[t] \in {"unref", "unrefHandle"} /\ refs' = [refs EXCEPT ![h] = @ - 1]
      /\ UNCHANGED <<gen, handle, theaps, registry, exiting, owner, life, block>>
  BY <1>0
<1> QED BY <1>0, <1>1, <1>2, <1>3, <1>4, ReleaseStep

LEMMA ExitTheapStep ==
  ASSUME HeapInv, NEW t \in Threads, ExitTheap(t)
  PROVE  HeapInv'
<1> USE DEF HeapInv, ExitTheap, Goto
<1>1. registry[t] \in Seq(Heaps) /\ IsInjective(registry[t]) /\ registry[t] # <<>>
  BY DEF Busy, Typed
<1>2. PICK h \in Heaps : h = Head(registry[t])
  BY <1>1, Popped
<1>3. /\ registry'[t] = Tail(registry[t])
      /\ \A u \in Threads : u # t => registry'[u] = registry[u]
  BY DEF Typed
<1>4. /\ registry'[t] \in Seq(Heaps) /\ IsInjective(registry'[t])
      /\ ToSet(registry'[t]) = ToSet(registry[t]) \ {h} /\ h \in ToSet(registry[t])
  BY <1>1, <1>2, <1>3, Popped
<1>5. registry' \in [Threads -> Seq(Heaps)]
  BY <1>4 DEF Typed
<1>6. Typed'
  BY <1>2, <1>5 DEF Typed, Pcs
<1>7. /\ HasTheap(t, h)
      /\ \A u \in Threads, g \in Heaps :
           HasTheap(u, g)' <=> HasTheap(u, g) /\ ~(u = t /\ g = h)
  BY <1>3, <1>4 DEF HasTheap
<1>8. /\ pc[t] = "idle" /\ pc'[t] = "unlink" /\ cur'[t] = h /\ t \in exiting
      /\ \A u \in Threads : u # t => pc'[u] = pc[u] /\ cur'[u] = cur[u]
      /\ exiting' = exiting /\ refs' = refs /\ handle' = handle
      /\ theaps' = theaps /\ owner' = owner
  BY <1>2 DEF Typed
<1>9. \A u \in Threads, g \in Heaps : Holds(u, g)' <=> Holds(u, g)
  <2>1. \A g \in Heaps : Holds(t, g)' <=> Holds(t, g)
    BY <1>7, <1>8 DEF Holds, TearsDown
  <2>2. \A u \in Threads, g \in Heaps : u # t => (Holds(u, g)' <=> Holds(u, g))
    BY <1>7, <1>8 DEF Holds, TearsDown
  <2> QED BY <2>1, <2>2
<1>10. \A u \in Threads, g \in Heaps : Deletes(u, g)' <=> Deletes(u, g)
  BY <1>8 DEF Deletes
<1>11. RefcountIsExact'
  <2>1. \A g \in Heaps : Held(g)' <=> Held(g)
    BY <1>8, <1>10 DEF Held
  <2> QED BY <1>8, <1>9, <2>1, CountKept, ExactIsCounted
<1>12. Busy'
  <2>1. ASSUME NEW u \in Threads
        PROVE  /\ IsInjective(registry[u])'
               /\ (pc[u] \notin {"idle", "gone"} => cur[u] \in Heaps)'
               /\ (pc[u] \in Tearing \cup {"link", "unrefHandle"} => ~HasTheap(u, cur[u]))'
               /\ (u \in exiting => pc[u] \notin {"link", "bulk", "unrefHandle"})'
    <3>1. CASE u = t
      BY <1>4, <1>8, <3>1 DEF HasTheap, IsInjective
    <3>2. CASE u # t
      BY <1>3, <1>8, <3>2 DEF Busy, HasTheap, IsInjective
    <3> QED BY <3>1, <3>2
  <2>2. ASSUME NEW g \in Heaps, NEW u \in Threads, Deletes(u, g)'
        PROVE  ~handle'[g] /\ \A v \in Threads : Deletes(v, g)' => u = v
    BY <1>8, <1>10, <2>2 DEF Busy
  <2> QED BY <2>1, <2>2 DEF Busy
<1>13. Listed'
  <2>1. ASSUME NEW u \in Threads, NEW g \in Heaps
        PROVE  cur[u] = g /\ pc[u] \in {"unlink", "handOff", "bulk"}
                 => cur'[u] = g /\ pc'[u] = pc[u]
    BY <1>8
  <2>2. \A g \in Heaps : theaps[g] \subseteq Threads
    BY DEF Typed
  <2> QED BY <1>7, <1>8, <2>1, <2>2 DEF Listed
<1> QED BY <1>6, <1>11, <1>12, <1>13

LEMMA ExitDoneStep ==
  ASSUME HeapInv, NEW t \in Threads, ExitDone(t)
  PROVE  HeapInv'
<1> USE DEF HeapInv, ExitDone, Goto
<1>1. Typed'
  BY DEF Typed, Pcs
<1>2. /\ pc[t] = "idle" /\ pc'[t] = "gone"
      /\ \A u \in Threads : u # t => pc'[u] = pc[u]
  BY DEF Typed
<1>3. \A u \in Threads, g \in Heaps : Holds(u, g)' <=> Holds(u, g)
  BY <1>2 DEF Holds, HasTheap, TearsDown
<1>4. \A u \in Threads, g \in Heaps : Deletes(u, g)' <=> Deletes(u, g)
  BY <1>2 DEF Deletes, Tearing
<1>5. RefcountIsExact'
  <2>1. \A g \in Heaps : Held(g)' <=> Held(g)
    BY <1>4 DEF Held
  <2> QED BY <1>3, <2>1, CountKept, ExactIsCounted
<1>6. Busy'
  <2>1. ASSUME NEW u \in Threads
        PROVE  /\ IsInjective(registry[u])'
               /\ (pc[u] \notin {"idle", "gone"} => cur[u] \in Heaps)'
               /\ (pc[u] \in Tearing \cup {"link", "unrefHandle"} => ~HasTheap(u, cur[u]))'
               /\ (u \in exiting => pc[u] \notin {"link", "bulk", "unrefHandle"})'
    BY <1>2 DEF Busy, HasTheap, IsInjective, Tearing
  <2>2. ASSUME NEW g \in Heaps, NEW u \in Threads, Deletes(u, g)'
        PROVE  ~handle'[g] /\ \A v \in Threads : Deletes(v, g)' => u = v
    BY <1>4, <2>2 DEF Busy
  <2> QED BY <2>1, <2>2 DEF Busy
<1>7. Listed'
  <2>1. \A g \in Heaps : theaps[g] \subseteq Threads
    BY DEF Typed
  <2> QED BY <1>2, <2>1 DEF Listed, HasTheap
<1> QED BY <1>1, <1>5, <1>6, <1>7

\* The blocks after a destroy: those of the heap are dead, where they were.
LEMMA DestroyBlocks ==
  ASSUME Typed, NEW t \in Threads, NEW h \in Heaps, Destroy(t, h)
  PROVE  /\ block' \in [Blocks -> {None} \cup BlockStates]
         /\ \A b \in Blocks : block'[b] # None =>
              /\ block[b] # None
              /\ block'[b].page = block[b].page /\ block'[b].life = block[b].life
              /\ block'[b].origin = block[b].origin /\ block'[b].moved = block[b].moved
              /\ block'[b].state = "live" =>
                   block[b].state = "live" /\ block[b].origin # Origin(h)
<1>1. block' = [b \in Blocks |->
        IF block[b] # None /\ block[b].origin = Origin(h)
        THEN [block[b] EXCEPT !.state = "dead"]
        ELSE block[b]]
  BY Zenon DEF Destroy
<1> SUFFICES ASSUME NEW b \in Blocks
             PROVE  /\ block'[b] \in {None} \cup BlockStates
                    /\ block'[b] # None =>
                         /\ block[b] # None
                         /\ block'[b].page = block[b].page /\ block'[b].life = block[b].life
                         /\ block'[b].origin = block[b].origin /\ block'[b].moved = block[b].moved
                         /\ block'[b].state = "live" =>
                              block[b].state = "live" /\ block[b].origin # Origin(h)
  BY <1>1
<1>2. block[b] \in {None} \cup BlockStates
  BY DEF Typed
<1>3. CASE block[b] # None /\ block[b].origin = Origin(h)
  <2>1. block[b] \in BlockStates /\ block'[b] = [block[b] EXCEPT !.state = "dead"]
    BY <1>1, <1>2, <1>3
  <2> QED BY <1>3, <2>1 DEF BlockStates
<1>4. CASE ~(block[b] # None /\ block[b].origin = Origin(h))
  BY <1>1, <1>2, <1>4
<1> QED BY <1>3, <1>4

\* The blocks after an allocation: the new one, and the others where they were;
\* on a page that was adopted those of another heap are moved.
LEMMA AllocBlocks ==
  ASSUME Typed, NEW t \in Threads, NEW h \in Heaps \cup {Default}, NEW b \in Blocks,
         Alloc(t, h, b)
  PROVE  \E p \in Pages :
           /\ Serves(t, h, p)
           /\ owner' = [owner EXCEPT ![p] = <<t, h>>]
           /\ block' \in [Blocks -> {None} \cup BlockStates]
           /\ block'[b].page = p /\ block'[b].life = life[p]
           /\ block'[b].origin = Origin(h)
           /\ \A c \in Blocks : c # b /\ block'[c] # None =>
                /\ block[c] # None
                /\ block'[c].page = block[c].page /\ block'[c].life = block[c].life
                /\ block'[c].origin = block[c].origin
                /\ block'[c].state = block[c].state
                /\ block[c].moved => block'[c].moved
                /\ c \in On(p) /\ owner[p] = Abandoned /\ h # Default
                     => block'[c].moved \/ block[c].origin = Origin(h)
<1> DEFINE new(p) == [page |-> p, life |-> life[p], origin |-> Origin(h),
                      state |-> "live", moved |-> FALSE]
<1>1. PICK p \in Pages :
        /\ Serves(t, h, p)
        /\ owner' = [owner EXCEPT ![p] = <<t, h>>]
        /\ block' = [Adopted(h, p) EXCEPT ![b] = new(p)]
  BY Zenon DEF Alloc
<1>2. Origin(h) \in (Heaps \cup {Default}) \X Nat
  BY DEF Origin, Typed
<1>3. new(p) \in BlockStates /\ new(p).page = p /\ new(p).life = life[p]
      /\ new(p).origin = Origin(h)
  BY <1>2 DEF BlockStates, Typed
<1> HIDE DEF new
<1>4. block'[b] = new(p) /\ \A c \in Blocks : c # b => block'[c] = Adopted(h, p)[c]
  BY <1>1 DEF Adopted
<1>5. ASSUME NEW c \in Blocks, c # b
      PROVE  /\ block'[c] \in {None} \cup BlockStates
             /\ block'[c] # None =>
                  /\ block[c] # None
                  /\ block'[c].page = block[c].page /\ block'[c].life = block[c].life
                  /\ block'[c].origin = block[c].origin
                  /\ block'[c].state = block[c].state
                  /\ block[c].moved => block'[c].moved
                  /\ c \in On(p) /\ owner[p] = Abandoned /\ h # Default
                       => block'[c].moved \/ block[c].origin = Origin(h)
  <2> DEFINE taken == /\ c \in On(p) /\ owner[p] = Abandoned /\ h # Default
                      /\ block[c].origin # Origin(h)
  <2>1. /\ block[c] \in {None} \cup BlockStates
        /\ block'[c] = IF taken THEN [block[c] EXCEPT !.moved = TRUE] ELSE block[c]
    BY <1>4, <1>5 DEF Adopted, Typed
  <2>2. CASE taken
    <3>1. block[c] # None /\ block[c] \in BlockStates
      BY <2>1, <2>2 DEF On
    <3>2. block'[c] = [block[c] EXCEPT !.moved = TRUE]
      BY <2>1, <2>2
    <3> HIDE DEF taken
    <3> QED BY <3>1, <3>2 DEF BlockStates
  <2>3. CASE ~taken
    BY <2>1, <2>3
  <2> QED BY <2>2, <2>3
<1>6. block' \in [Blocks -> {None} \cup BlockStates]
  <2>1. DOMAIN block' = Blocks /\ block' = [c \in DOMAIN block' |-> block'[c]]
    BY <1>1 DEF Adopted
  <2>2. \A c \in Blocks : block'[c] \in {None} \cup BlockStates
    BY <1>3, <1>4, <1>5
  <2> QED BY <2>1, <2>2
<1> QED BY <1>1, <1>3, <1>4, <1>5, <1>6

LEMMA AllocStep ==
  ASSUME HeapInv, NEW t \in Threads, NEW h \in Heaps \cup {Default}, NEW b \in Blocks,
         Alloc(t, h, b)
  PROVE  HeapInv'
<1> USE DEF HeapInv
<1>1. PICK p \in Pages :
        /\ owner' = [owner EXCEPT ![p] = <<t, h>>]
        /\ block' \in [Blocks -> {None} \cup BlockStates]
  BY AllocBlocks
<1>2. /\ h # Default => HasTheap(t, h)
      /\ UNCHANGED <<refs, gen, handle, theaps, registry, pc, cur, exiting, life>>
  BY DEF Alloc
<1>3. Typed'
  <2>1. owner' \in [Pages -> Theaps \cup {Abandoned, Unused}]
    BY <1>1 DEF Typed, Theaps
  <2> QED BY <1>1, <1>2, <2>1 DEF Typed
<1>4. Listed'
  <2>1. ASSUME NEW q \in Pages, NEW u \in Threads, NEW g \in Heaps, owner'[q] = <<u, g>>
        PROVE  HasTheap(u, g) \/ (cur[u] = g /\ pc[u] \in {"unlink", "handOff", "bulk"})
    <3>1. CASE q = p
      <4>1. <<u, g>> = <<t, h>>
        BY <1>1, <2>1, <3>1 DEF Typed
      <4>2. u = t /\ g = h
        BY <4>1
      <4> QED BY <1>2, <4>2, LifecycleAssumption
    <3>2. CASE q # p
      BY <1>1, <2>1, <3>2 DEF Listed, Typed
    <3> QED BY <3>1, <3>2
  <2> QED BY <1>2, <2>1 DEF Listed, HasTheap
<1> QED BY <1>2, <1>3, <1>4, QuietStep DEF Typed

LEMMA FreeBlockStep ==
  ASSUME HeapInv, NEW t \in Threads, NEW b \in Blocks, FreeBlock(t, b)
  PROVE  HeapInv'
<1> USE DEF HeapInv, FreeBlock
<1>1. Typed'
  BY DEF Typed
<1>2. \A p \in Pages : \A u, g : owner'[p] = <<u, g>> => owner[p] = <<u, g>>
  BY OwnersDiffer
<1>3. UNCHANGED <<refs, gen, handle, theaps, registry, pc, cur, exiting>>
  OBVIOUS
<1>4. Listed'
  BY <1>2, <1>3 DEF Listed, HasTheap
<1> QED BY <1>1, <1>3, <1>4, QuietStep DEF Typed

LEMMA ExitStep ==
  ASSUME HeapInv, NEW t \in Threads, Exit(t)
  PROVE  HeapInv'
<1> USE DEF HeapInv, Exit
<1>1. owner' \in [Pages -> Theaps \cup {Abandoned, Unused}]
  BY DEF HandedOff, Typed
<1>2. Typed'
  BY <1>1 DEF Typed
<1>3. \A p \in Pages : \A u, g : owner'[p] = <<u, g>> => owner[p] = <<u, g>>
  BY OwnersDiffer DEF HandedOff
<1>4. UNCHANGED <<refs, gen, handle, theaps, registry, pc, cur>>
  OBVIOUS
<1>5. Listed'
  BY <1>3, <1>4 DEF Listed, HasTheap
<1>6. pc[t] = "idle" /\ exiting' = exiting \cup {t}
  BY DEF Ready
<1> QED BY <1>2, <1>4, <1>5, <1>6, QuietStep DEF Typed

LEMMA HeapStep == HeapInv /\ [Next]_vars => HeapInv'
<1> SUFFICES ASSUME HeapInv, [Next]_vars PROVE HeapInv'
  OBVIOUS
<1>1. CASE UNCHANGED vars
  <2>1. UNCHANGED <<refs, gen, handle, theaps, registry, pc, cur, exiting, owner, life, block>>
    BY <1>1 DEF vars
  <2>2. Typed' /\ Listed'
    BY <2>1 DEF HeapInv, Typed, Listed, HasTheap
  <2> QED BY <2>1, <2>2, QuietStep DEF HeapInv, Typed
<1>2. CASE Next
  <2>1. PICK t \in Threads :
          \/ \E h \in Heaps : NewHeap(t, h) \/ NewTheap(t, h) \/ Delete(t, h) \/ Destroy(t, h)
          \/ \E h \in Heaps \cup {Default}, b \in Blocks : Alloc(t, h, b)
          \/ \E b \in Blocks : FreeBlock(t, b)
          \/ Link(t) \/ BulkFree(t) \/ Unlink(t) \/ HandOff(t) \/ Unref(t)
          \/ Exit(t) \/ ExitTheap(t) \/ ExitDone(t)
    BY <1>2, Zenon DEF Next
  <2>2. ASSUME NEW h \in Heaps, Delete(t, h) PROVE HeapInv'
    <3>1. GiveUpHandle(t, h, "unlink") /\ block' = block
      BY <2>2 DEF Delete
    <3> QED BY <3>1, GiveUpStep DEF HeapInv, Typed
  <2>3. ASSUME NEW h \in Heaps, Destroy(t, h) PROVE HeapInv'
    <3>1. GiveUpHandle(t, h, "bulk")
      BY <2>3 DEF Destroy
    <3>2. block' \in [Blocks -> {None} \cup BlockStates]
      BY <2>3, DestroyBlocks DEF HeapInv
    <3> QED BY <3>1, <3>2, GiveUpStep
  <2> QED
    BY <2>1, <2>2, <2>3, NewHeapStep, NewTheapStep, AllocStep, FreeBlockStep, LinkStep,
       BulkFreeStep, UnlinkStep, HandOffStep, UnrefStep, ExitStep, ExitTheapStep, ExitDoneStep
<1> QED BY <1>1, <1>2

-----------------------------------------------------------------------------
(***************************************************************************)
(* Pages and the blocks on them.                                           *)
(***************************************************************************)
Room == \A p \in Pages : Cardinality(On(p)) <= BlocksPerPage

\* A step after which every block in a page was there before.
BlocksStay ==
  \A b \in Blocks, p \in Pages :
    block'[b] # None /\ block'[b].page = p /\ block'[b].life = life'[p] =>
      block[b] # None /\ block[b].page = p /\ block[b].life = life[p]

LEMMA OnShrinks ==
  ASSUME Room, BlocksStay
  PROVE  Room'
<1> SUFFICES ASSUME NEW p \in Pages PROVE Cardinality(On(p)') <= BlocksPerPage
  BY DEF Room
<1>1. On(p)' \subseteq On(p)
  BY DEF On, BlocksStay
<1>2. IsFiniteSet(On(p))
  BY FS_Subset, LifecycleAssumption DEF On
<1>3. /\ Cardinality(On(p)') \in Nat /\ Cardinality(On(p)) \in Nat
      /\ Cardinality(On(p)') <= Cardinality(On(p))
  BY <1>1, <1>2, FS_Subset, FS_CardinalityType
<1> QED BY <1>3, LifecycleAssumption DEF Room

\* Steps that take no block and release no page that carries one: deletion,
\* destruction up to the release of the pages, exit and free.
LEMMA BlocksKept ==
  ASSUME Typed, BlocksInPages, life' = life,
         \A b \in Blocks : block'[b] # None =>
           /\ block[b] # None
           /\ block'[b].page = block[b].page /\ block'[b].life = block[b].life
           /\ block'[b].origin = block[b].origin /\ block'[b].moved = block[b].moved
           /\ block'[b].state = "live" => block[b].state = "live"
           /\ Here(b) /\ owner[block[b].page] # Unused => owner'[block[b].page] # Unused,
         \A p \in Pages : \A t, h : owner'[p] = <<t, h>> =>
           owner[p] = <<t, h>> /\ (h \in Heaps => gen'[h] = gen[h]),
         \A t \in Threads, h \in Heaps : pc'[t] = "bulk" /\ cur'[t] = h =>
           \/ pc[t] = "bulk" /\ cur[t] = h /\ gen'[h] = gen[h]
           \/ \A b \in Blocks : Live(b)' => block[b].origin # Origin(h)'
  PROVE  BlocksInPages'
<1> SUFFICES ASSUME NEW b \in Blocks, block'[b] # None
    PROVE  /\ block'[b].life <= life'[block'[b].page]
           /\ Here(b)' => owner'[block'[b].page] # Unused
           /\ Live(b)' => Here(b)' \/ block'[b].moved
           /\ \A t \in Threads, h \in Heaps :
                /\ Live(b)' /\ Here(b)' /\ owner'[block'[b].page] = <<t, h>>
                     => block'[b].moved \/ block'[b].origin = Origin(h)'
                /\ Live(b)' /\ pc'[t] = "bulk" /\ cur'[t] = h
                     => block'[b].origin # Origin(h)'
  BY DEF BlocksInPages
<1>1. /\ block[b] # None
      /\ block'[b].page = block[b].page /\ block'[b].life = block[b].life
      /\ block'[b].origin = block[b].origin /\ block'[b].moved = block[b].moved
      /\ Live(b)' => Live(b)
      /\ Here(b)' <=> Here(b)
  BY DEF Live, Here
<1>2. block[b].page \in Pages
  BY <1>1 DEF Typed, BlockStates
<1>3. \A h \in Heaps : gen'[h] = gen[h] => Origin(h)' = Origin(h)
  BY DEF Origin
<1>4. /\ block'[b].life <= life'[block'[b].page]
      /\ Here(b)' => owner'[block'[b].page] # Unused
      /\ Live(b)' => Here(b)' \/ block'[b].moved
  BY <1>1 DEF BlocksInPages
<1>5. ASSUME NEW t \in Threads, NEW h \in Heaps, Live(b)', Here(b)',
             owner'[block'[b].page] = <<t, h>>
      PROVE  block'[b].moved \/ block'[b].origin = Origin(h)'
  <2>1. owner[block[b].page] = <<t, h>> /\ gen'[h] = gen[h]
    BY <1>1, <1>2, <1>5
  <2>2. block[b].moved \/ block[b].origin = Origin(h)
    BY <1>1, <1>5, <2>1 DEF BlocksInPages
  <2> QED BY <1>1, <1>3, <2>1, <2>2
<1>6. ASSUME NEW t \in Threads, NEW h \in Heaps, Live(b)', pc'[t] = "bulk", cur'[t] = h
      PROVE  block'[b].origin # Origin(h)'
  <2>1. CASE pc[t] = "bulk" /\ cur[t] = h /\ gen'[h] = gen[h]
    BY <1>1, <1>3, <1>6, <2>1 DEF BlocksInPages
  <2>2. CASE \A c \in Blocks : Live(c)' => block[c].origin # Origin(h)'
    BY <1>1, <1>6, <2>2
  <2> QED BY <1>6, <2>1, <2>2
<1> QED BY <1>4, <1>5, <1>6

\* Releasing the empty pages of a theap frees none that carries a block.
LEMMA HandedOffKeepsBlocks ==
  ASSUME Typed, BlocksInPages, NEW th, owner' = HandedOff(th),
         UNCHANGED <<gen, cur, life, block>>,
         \A t \in Threads : pc'[t] = "bulk" => pc[t] = "bulk"
  PROVE  BlocksInPages'
<1>1. ASSUME NEW b \in Blocks, block[b] # None, Here(b), owner[block[b].page] # Unused
      PROVE  owner'[block[b].page] # Unused
  <2>1. PICK p \in Pages : p = block[b].page
    BY <1>1 DEF Typed, BlockStates
  <2>2. b \in On(p) /\ owner[p] # Unused
    BY <1>1, <2>1 DEF On, Here
  <2>3. owner'[p] = IF owner[p] # th THEN owner[p] ELSE IF On(p) = {} THEN Unused ELSE Abandoned
    BY DEF HandedOff
  <2> QED BY <2>1, <2>2, <2>3, OwnersDiffer
<1>2. \A p \in Pages : \A t, h : owner'[p] = <<t, h>> => owner[p] = <<t, h>>
  BY OwnersDiffer DEF HandedOff
<1> QED BY <1>1, <1>2, BlocksKept

LEMMA AllocKeepsBlocks ==
  ASSUME HeapInv, Room, BlocksInPages,
         NEW t \in Threads, NEW h \in Heaps \cup {Default}, NEW b \in Blocks, Alloc(t, h, b)
  PROVE  Room' /\ BlocksInPages'
<1> USE DEF HeapInv
<1>1. PICK p \in Pages :
        /\ Serves(t, h, p)
        /\ owner' = [owner EXCEPT ![p] = <<t, h>>]
        /\ block'[b].page = p /\ block'[b].life = life[p]
        /\ block'[b].origin = Origin(h)
        /\ \A c \in Blocks : c # b /\ block'[c] # None =>
             /\ block[c] # None
             /\ block'[c].page = block[c].page /\ block'[c].life = block[c].life
             /\ block'[c].origin = block[c].origin
             /\ block'[c].state = block[c].state
             /\ block[c].moved => block'[c].moved
             /\ c \in On(p) /\ owner[p] = Abandoned /\ h # Default
                  => block'[c].moved \/ block[c].origin = Origin(h)
  BY AllocBlocks
<1>2. /\ block[b] = None /\ Cardinality(On(p)) < BlocksPerPage
      /\ owner[p] \in {<<t, h>>, Abandoned, Unused}
      /\ h # Default => handle[h]
      /\ UNCHANGED <<gen, pc, cur, life>>
  BY <1>1 DEF Alloc, Serves
<1>3. owner'[p] = <<t, h>> /\ \A q \in Pages : q # p => owner'[q] = owner[q]
  BY <1>1 DEF Typed
<1>4. ASSUME NEW q \in Pages PROVE Cardinality(On(q)') <= BlocksPerPage
  <2>1. IsFiniteSet(On(q))
    BY FS_Subset, LifecycleAssumption DEF On
  <2>2. Cardinality(On(q)) \in Nat
    BY <2>1, FS_CardinalityType
  <2>3. CASE q = p
    <3>1. On(q)' \subseteq On(q) \cup {b}
      BY <1>1, <1>2 DEF On
    <3>2. IsFiniteSet(On(q) \cup {b}) /\ Cardinality(On(q) \cup {b}) <= Cardinality(On(q)) + 1
      <4>1. /\ IsFiniteSet(On(q) \cup {b})
            /\ Cardinality(On(q) \cup {b}) =
                 IF b \in On(q) THEN Cardinality(On(q)) ELSE Cardinality(On(q)) + 1
        BY <2>1, FS_AddElement, Zenon
      <4> QED BY <2>2, <4>1
    <3>3. /\ Cardinality(On(q)') \in Nat
          /\ Cardinality(On(q) \cup {b}) \in Nat
          /\ Cardinality(On(q)') <= Cardinality(On(q) \cup {b})
      BY <3>1, <3>2, FS_Subset, FS_CardinalityType
    <3>4. Cardinality(On(q)) + 1 <= BlocksPerPage
      BY <1>2, <2>2, <2>3, LifecycleAssumption
    <3> QED BY <2>2, <3>2, <3>3, <3>4, LifecycleAssumption
  <2>4. CASE q # p
    <3>1. On(q)' \subseteq On(q)
      BY <1>1, <1>2, <2>4 DEF On
    <3>2. Cardinality(On(q)') \in Nat /\ Cardinality(On(q)') <= Cardinality(On(q))
      BY <2>1, <3>1, FS_Subset, FS_CardinalityType
    <3> QED BY <2>2, <3>2, LifecycleAssumption DEF Room
  <2> QED BY <2>3, <2>4
<1>5. \A g : Origin(g)' = Origin(g)
  BY <1>2 DEF Origin
\* The thread allocates from a heap whose handle is there: none is tearing it down.
<1>6. ASSUME NEW u \in Threads, NEW g \in Heaps, pc[u] = "bulk", cur[u] = g
      PROVE  g # h /\ Origin(h) # Origin(g)
  <2>1. Deletes(u, g)
    BY <1>6 DEF Deletes, Busy, Tearing
  <2>2. g # h
    BY <1>2, <2>1, LifecycleAssumption DEF Busy
  <2> QED BY <2>2 DEF Origin
<1>7. ASSUME NEW c \in Blocks, block'[c] # None
      PROVE  /\ block'[c].life <= life[block'[c].page]
             /\ Here(c)' => owner'[block'[c].page] # Unused
             /\ Live(c)' => Here(c)' \/ block'[c].moved
             /\ \A u \in Threads, g \in Heaps :
                  /\ Live(c)' /\ Here(c)' /\ owner'[block'[c].page] = <<u, g>>
                       => block'[c].moved \/ block'[c].origin = Origin(g)
                  /\ Live(c)' /\ pc[u] = "bulk" /\ cur[u] = g
                       => block'[c].origin # Origin(g)
  <2>1. CASE c = b
    <3>1. /\ block'[c].page = p /\ block'[c].life = life[p] /\ life[p] \in Nat
          /\ block'[c].origin = Origin(h) /\ Here(c)'
      BY <1>1, <1>2, <2>1 DEF Here, Typed
    <3>2. \A u, g : owner'[p] = <<u, g>> => g = h
      BY <1>3
    <3> QED BY <1>3, <1>6, <3>1, <3>2, OwnersDiffer
  <2>2. CASE c # b
    <3>1. /\ block[c] # None
          /\ block'[c].page = block[c].page /\ block'[c].life = block[c].life
          /\ block'[c].origin = block[c].origin
          /\ block[c].moved => block'[c].moved
          /\ Live(c)' => Live(c)
          /\ Here(c)' <=> Here(c)
      BY <1>1, <1>2, <1>7, <2>2 DEF Live, Here
    <3>2. PICK q \in Pages : q = block[c].page
      BY <3>1 DEF Typed, BlockStates
    <3>3. /\ block'[c].life <= life[block'[c].page]
          /\ Here(c)' => owner'[block'[c].page] # Unused
          /\ Live(c)' => Here(c)' \/ block'[c].moved
      BY <1>3, <3>1, <3>2, OwnersDiffer DEF BlocksInPages
    <3>4. ASSUME NEW u \in Threads, NEW g \in Heaps, Live(c)', Here(c)', owner'[q] = <<u, g>>
          PROVE  block'[c].moved \/ block'[c].origin = Origin(g)
      <4>1. CASE owner[q] = <<u, g>>
        BY <3>1, <3>2, <3>4, <4>1 DEF BlocksInPages
      <4>2. CASE owner[q] # <<u, g>>
        <5>1. q = p /\ g = h /\ owner[p] \in {Abandoned, Unused}
          BY <1>2, <1>3, <3>4, <4>2
        <5>2. owner[p] # Unused
          BY <3>1, <3>2, <3>4, <5>1 DEF BlocksInPages
        <5>3. c \in On(p)
          BY <3>1, <3>2, <3>4, <5>1 DEF On, Here
        <5>4. block'[c].moved \/ block[c].origin = Origin(h)
          BY <1>1, <1>7, <2>2, <5>1, <5>2, <5>3, LifecycleAssumption
        <5> QED BY <3>1, <5>1, <5>4
      <4> QED BY <4>1, <4>2
    <3>5. \A u \in Threads, g \in Heaps :
            Live(c)' /\ pc[u] = "bulk" /\ cur[u] = g => block'[c].origin # Origin(g)
      BY <3>1 DEF BlocksInPages
    <3> QED BY <3>1, <3>2, <3>3, <3>4, <3>5
  <2> QED BY <2>1, <2>2
<1>8. BlocksInPages'
  BY <1>2, <1>5, <1>7 DEF BlocksInPages
<1> QED BY <1>4, <1>8 DEF Room

LEMMA FreeKeepsBlocks ==
  ASSUME Typed, Room, BlocksInPages, NEW t \in Threads, NEW b \in Blocks, FreeBlock(t, b)
  PROVE  Room' /\ BlocksInPages'
<1>1. /\ block' = [block EXCEPT ![b] = None]
      /\ owner' = [p \in Pages |->
           IF On(p) = {b} /\ owner[p] = Abandoned THEN Unused ELSE owner[p]]
      /\ UNCHANGED <<gen, pc, cur, life>>
  BY DEF FreeBlock
<1>2. block'[b] = None /\ \A c \in Blocks : c # b => block'[c] = block[c]
  BY <1>1 DEF Typed
<1>3. Room'
  BY <1>1, <1>2, OnShrinks DEF BlocksStay
<1>4. ASSUME NEW c \in Blocks, block'[c] # None, Here(c), owner[block[c].page] # Unused
      PROVE  owner'[block[c].page] # Unused
  <2>1. PICK p \in Pages : p = block[c].page
    BY <1>2, <1>4 DEF Typed, BlockStates
  <2>2. c # b /\ c \in On(p)
    BY <1>2, <1>4, <2>1 DEF On, Here
  <2> QED BY <1>1, <1>4, <2>1, <2>2
<1>5. \A p \in Pages : \A u, g : owner'[p] = <<u, g>> => owner[p] = <<u, g>>
  BY <1>1, OwnersDiffer
<1>6. \A c \in Blocks : block'[c] # None => c # b /\ block'[c] = block[c]
  BY <1>2
<1>7. BlocksInPages'
  BY <1>1, <1>4, <1>5, <1>6, BlocksKept
<1> QED BY <1>3, <1>7

\* Destroy releases the pages of the theap: a live block on one of them is not
\* of the heap, so its page was adopted.
LEMMA BulkKeepsBlocks ==
  ASSUME HeapInv, Room, BlocksInPages, NEW t \in Threads, BulkFree(t)
  PROVE  Room' /\ BlocksInPages'
<1> USE DEF HeapInv
<1>0. PICK h \in Heaps : h = cur[t] /\ pc[t] = "bulk"
  BY DEF Busy, BulkFree
<1>1. \A b \in Blocks : block'[b] # None =>
        /\ block[b] # None /\ block'[b] = block[b]
        /\ owner[block[b].page] = <<t, h>> => block[b].state = "live"
  BY <1>0, BulkBlocks
<1>2. /\ owner' = [p \in Pages |-> IF owner[p] = <<t, h>> THEN Unused ELSE owner[p]]
      /\ life' = [p \in Pages |-> IF owner[p] = <<t, h>> THEN life[p] + 1 ELSE life[p]]
      /\ pc' = [pc EXCEPT ![t] = "unref"] /\ UNCHANGED <<gen, cur>>
  BY <1>0 DEF BulkFree, Goto
<1>3. \A u \in Threads : pc'[u] = "bulk" => pc[u] = "bulk"
  BY <1>2 DEF Typed
<1>4. \A g : Origin(g)' = Origin(g)
  BY <1>2 DEF Origin
<1>5. ASSUME NEW b \in Blocks, block'[b] # None
      PROVE  /\ block[b] # None /\ block'[b] = block[b]
             /\ block[b].page \in Pages /\ block[b].life \in Nat
             /\ life[block[b].page] \in Nat
             /\ block[b].life <= life[block[b].page]
  <2>1. block[b] # None /\ block'[b] = block[b] /\ block[b] \in BlockStates
    BY <1>1, <1>5 DEF Typed
  <2> QED BY <2>1 DEF BlockStates, Typed, BlocksInPages
<1>6. Room'
  <2>1. ASSUME NEW b \in Blocks, NEW p \in Pages,
               block'[b] # None, block'[b].page = p, block'[b].life = life'[p]
        PROVE  block[b] # None /\ block[b].page = p /\ block[b].life = life[p]
    BY <1>2, <1>5, <2>1
  <2> QED BY <2>1, OnShrinks DEF BlocksStay
<1>7. ASSUME NEW b \in Blocks, block'[b] # None
      PROVE  /\ block'[b].life <= life'[block'[b].page]
             /\ Here(b)' => owner'[block'[b].page] # Unused
             /\ Live(b)' => Here(b)' \/ block'[b].moved
             /\ \A u \in Threads, g \in Heaps :
                  /\ Live(b)' /\ Here(b)' /\ owner'[block'[b].page] = <<u, g>>
                       => block'[b].moved \/ block'[b].origin = Origin(g)
                  /\ Live(b)' /\ pc'[u] = "bulk" /\ cur[u] = g
                       => block'[b].origin # Origin(g)
  <2>1. PICK p \in Pages : p = block[b].page
    BY <1>5, <1>7
  <2>2. block[b] # None /\ block'[b] = block[b] /\ (Live(b)' <=> Live(b))
    BY <1>5, <1>7 DEF Live
  <2>3. CASE owner[p] = <<t, h>>
    <3>1. life'[p] = life[p] + 1 /\ ~Here(b)'
      BY <1>2, <1>5, <1>7, <2>1, <2>3 DEF Here
    <3>2. block'[b].life <= life'[block'[b].page]
      BY <1>5, <1>7, <2>1, <3>1
    <3>3. Live(b) => block[b].moved
      BY <1>0, <2>1, <2>2, <2>3 DEF BlocksInPages
    <3> QED BY <1>3, <2>2, <3>1, <3>2, <3>3 DEF BlocksInPages
  <2>4. CASE owner[p] # <<t, h>>
    <3>1. /\ life'[p] = life[p] /\ owner'[p] = owner[p] /\ (Here(b)' <=> Here(b))
      BY <1>2, <2>1, <2>2, <2>4 DEF Here
    <3> QED BY <1>3, <2>1, <2>2, <3>1 DEF BlocksInPages
  <2> QED BY <2>3, <2>4
<1>8. BlocksInPages'
  BY <1>2, <1>4, <1>7 DEF BlocksInPages
<1> QED BY <1>6, <1>8

LEMMA DestroyKeepsBlocks ==
  ASSUME HeapInv, Room, BlocksInPages, NEW t \in Threads, NEW h \in Heaps, Destroy(t, h)
  PROVE  Room' /\ BlocksInPages'
<1> USE DEF HeapInv
<1>1. \A b \in Blocks : block'[b] # None =>
        /\ block[b] # None
        /\ block'[b].page = block[b].page /\ block'[b].life = block[b].life
        /\ block'[b].origin = block[b].origin /\ block'[b].moved = block[b].moved
        /\ block'[b].state = "live" => block[b].state = "live" /\ block[b].origin # Origin(h)
  BY DestroyBlocks
<1>2. UNCHANGED <<gen, owner, life>> /\ cur' = [cur EXCEPT ![t] = h]
  BY DEF Destroy, GiveUpHandle
<1>3. \A u \in Threads : u # t => pc'[u] = pc[u] /\ cur'[u] = cur[u]
  BY DEF Destroy, GiveUpHandle, Goto, Typed
<1>4. cur'[t] = h /\ Origin(h)' = Origin(h)
  BY <1>2 DEF Typed, Origin
<1>5. ASSUME NEW u \in Threads, NEW g \in Heaps, pc'[u] = "bulk", cur'[u] = g
      PROVE  \/ pc[u] = "bulk" /\ cur[u] = g /\ gen'[g] = gen[g]
             \/ \A b \in Blocks : Live(b)' => block[b].origin # Origin(g)'
  BY <1>1, <1>2, <1>3, <1>4, <1>5 DEF Live
<1>6. BlocksInPages'
  BY <1>1, <1>2, <1>5, BlocksKept
<1>7. Room'
  BY <1>1, <1>2, OnShrinks DEF BlocksStay
<1> QED BY <1>6, <1>7

\* A heap made in free metadata: no theap of an earlier heap there is left.
LEMMA NewHeapKeepsBlocks ==
  ASSUME HeapInv, BlocksInPages, NEW t \in Threads, NEW h \in Heaps, NewHeap(t, h)
  PROVE  BlocksInPages'
<1> USE DEF HeapInv
<1>1. /\ refs[h] = 0 /\ gen' = [gen EXCEPT ![h] = @ + 1]
      /\ UNCHANGED <<pc, cur, owner, life, block>>
  BY DEF NewHeap
<1>2. \A g \in Heaps : g # h => gen'[g] = gen[g]
  BY <1>1 DEF Typed
<1>3. \A u \in Threads : ~Holds(u, h)
  BY <1>1, Unreferenced, ExactIsCounted
<1>4. \A p \in Pages, u \in Threads : owner[p] # <<u, h>>
  BY <1>3 DEF Listed, Holds, TearsDown
<1>5. \A p \in Pages : \A u, g : owner[p] = <<u, g>> /\ g \in Heaps => g # h
  <2>1. \A p \in Pages : owner[p] \in Theaps \cup {Abandoned, Unused}
    BY DEF Typed
  <2>2. \A u, g : <<u, g>> \in Theaps => u \in Threads
    BY DEF Theaps
  <2> QED BY <1>4, <2>1, <2>2, OwnersDiffer
<1>6. \A u \in Threads, g \in Heaps : pc[u] = "bulk" /\ cur[u] = g => g # h
  BY <1>3 DEF Holds, TearsDown
<1> QED BY <1>1, <1>2, <1>5, <1>6, BlocksKept

LEMMA BlocksStep == HeapInv /\ Room /\ BlocksInPages /\ [Next]_vars => Room' /\ BlocksInPages'
<1> SUFFICES ASSUME HeapInv, Room, BlocksInPages, [Next]_vars PROVE Room' /\ BlocksInPages'
  OBVIOUS
<1> USE DEF HeapInv
<1>1. ASSUME block' = block, life' = life PROVE Room'
  BY <1>1, OnShrinks DEF BlocksStay
<1>2. ASSUME UNCHANGED <<gen, owner, life, block>>,
             \A t \in Threads : pc'[t] = "bulk" => pc[t] = "bulk" /\ cur'[t] = cur[t]
      PROVE  BlocksInPages'
  BY <1>2, BlocksKept
<1>3. CASE UNCHANGED vars
  BY <1>1, <1>2, <1>3 DEF vars
<1>4. CASE Next
  <2>1. PICK t \in Threads :
          \/ \E h \in Heaps : NewHeap(t, h) \/ NewTheap(t, h) \/ Delete(t, h) \/ Destroy(t, h)
          \/ \E h \in Heaps \cup {Default}, b \in Blocks : Alloc(t, h, b)
          \/ \E b \in Blocks : FreeBlock(t, b)
          \/ Link(t) \/ BulkFree(t) \/ Unlink(t) \/ HandOff(t) \/ Unref(t)
          \/ Exit(t) \/ ExitTheap(t) \/ ExitDone(t)
    BY <1>4, Zenon DEF Next
  <2>2. ASSUME NEW h \in Heaps, NewHeap(t, h) PROVE Room' /\ BlocksInPages'
    <3>1. block' = block /\ life' = life
      BY <2>2 DEF NewHeap
    <3> QED BY <1>1, <2>2, <3>1, NewHeapKeepsBlocks
  <2>3. ASSUME HandOff(t) \/ Exit(t) PROVE Room' /\ BlocksInPages'
    <3>1. /\ owner' = HandedOff(<<t, cur[t]>>) \/ owner' = HandedOff(<<t, Default>>)
          /\ UNCHANGED <<gen, cur, life, block>>
      BY <2>3 DEF HandOff, Exit
    <3>2. \A u \in Threads : pc'[u] = "bulk" => pc[u] = "bulk"
      BY <2>3 DEF HandOff, Exit, Goto, Typed
    <3> QED BY <1>1, <3>1, <3>2, HandedOffKeepsBlocks
  <2>4. ASSUME \/ \E h \in Heaps : NewTheap(t, h) \/ Delete(t, h)
               \/ Link(t) \/ Unlink(t) \/ Unref(t) \/ ExitTheap(t) \/ ExitDone(t)
        PROVE  Room' /\ BlocksInPages'
    <3>1. UNCHANGED <<gen, owner, life, block>>
      BY <2>4
      DEF NewTheap, Delete, GiveUpHandle, Link, Unlink, Unref, ExitTheap, ExitDone
    <3>2. pc'[t] # "bulk" /\ \A u \in Threads : u # t => pc'[u] = pc[u] /\ cur'[u] = cur[u]
      BY <2>4
      DEF NewTheap, Delete, GiveUpHandle, Link, Unlink, Unref, ExitTheap, ExitDone, Goto, Typed
    <3> QED BY <1>1, <1>2, <3>1, <3>2
  <2> QED BY <2>1, <2>2, <2>3, <2>4, DestroyKeepsBlocks, AllocKeepsBlocks, FreeKeepsBlocks,
       BulkKeepsBlocks
<1> QED BY <1>3, <1>4

LEMMA LifecycleInvariant == Spec => [](HeapInv /\ Room /\ BlocksInPages)
<1>1. Init => HeapInv /\ Room /\ BlocksInPages
  <2> SUFFICES ASSUME Init PROVE HeapInv /\ Room /\ BlocksInPages
    OBVIOUS
  <2>1. \A p \in Pages : On(p) = {}
    BY DEF Init, On
  <2>2. Room
    BY <2>1, FS_EmptySet, LifecycleAssumption DEF Room
  <2> QED BY <2>2, HeapInit DEF Init, BlocksInPages
<1>2. HeapInv /\ Room /\ BlocksInPages /\ [Next]_vars => (HeapInv /\ Room /\ BlocksInPages)'
  BY HeapStep, BlocksStep
<1> QED BY <1>1, <1>2, PTL DEF Spec

-----------------------------------------------------------------------------
\* In every interleaving of creation, first use, deletion, destruction and
\* thread exit, a heap's reference count is the number of its theaps plus one
\* for the handle; so the metadata of a heap is never freed, nor reused by
\* Heap::new_boxed, while a theap is registered, listed, owns a page or is
\* being torn down.
THEOREM HeapsStaySound == Spec => []HeapsAreSound
<1>1. HeapInv /\ Room => HeapsAreSound
  <2> SUFFICES ASSUME HeapInv, Room PROVE HeapsAreSound
    OBVIOUS
  <2> USE DEF HeapInv
  <2>1. ASSUME NEW h \in Heaps PROVE refs[h] \in 0..(Cardinality(Threads) + 1)
    <3> DEFINE H == {t \in Threads : Holds(t, h)}
    <3>1. H \in SUBSET Threads
      OBVIOUS
    <3>2. refs[h] = Cardinality(H) + IF Held(h) THEN 1 ELSE 0
      BY ExactIsCounted DEF Counted
    <3> HIDE DEF H
    <3>3. /\ Cardinality(H) \in Nat /\ Cardinality(Threads) \in Nat
          /\ Cardinality(H) <= Cardinality(Threads)
      BY <3>1, FS_Subset, FS_CardinalityType, LifecycleAssumption
    <3> QED BY <3>2, <3>3
  <2>2. refs \in [Heaps -> 0..(Cardinality(Threads) + 1)]
    BY <2>1 DEF Typed
  <2>3. TypeOK
    <3>1. \A t \in Threads : IsInjective(registry[t])
      BY DEF Busy
    <3> QED BY <2>2, <3>1 DEF TypeOK, Typed, Room
  <2>4. ASSUME NEW t \in Threads, NEW h \in Heaps, Holds(t, h) PROVE Alive(h)
    <3>1. refs[h] \in Nat /\ (refs[h] = 0 => {u \in Threads : Holds(u, h)} = {})
      BY Unreferenced, ExactIsCounted DEF Typed
    <3> QED BY <2>4, <3>1 DEF Alive
  <2>5. \A t \in Threads, h \in Heaps : t \in theaps[h] => HasTheap(t, h) \/ TearsDown(t, h)
    BY DEF Listed, TearsDown
  <2>6. \A p \in Pages, t \in Threads, h \in Heaps :
          owner[p] = <<t, h>> => HasTheap(t, h) \/ TearsDown(t, h)
    BY DEF Listed, TearsDown
  <2>7. TheapsHaveTheirHeap
    BY <2>4, <2>5, <2>6 DEF TheapsHaveTheirHeap, Holds
  <2> QED BY <2>3, <2>7 DEF HeapsAreSound
<1> QED BY <1>1, LifecycleInvariant, PTL

\* Whatever heaps are deleted or destroyed, whatever threads exit, and whoever
\* adopts the pages they leave behind: a page is released under a live block
\* only if a theap of another first-class heap had adopted it, so only when
\* that heap is destroyed.  Destroy ends no other block but the heap's own.
THEOREM ValidBlocksKeepTheirPages == Spec => []ValidBlocksHavePages
<1>1. BlocksInPages => ValidBlocksHavePages
  BY DEF BlocksInPages, ValidBlocksHavePages, HasPage, Here, Live
<1> QED BY <1>1, LifecycleInvariant, PTL
=============================================================================
