-------------------------- MODULE ThreadHeapProofs --------------------------
(***************************************************************************)
(* Proofs about ThreadHeap, for any number of pages, size classes, sizes   *)
(* and blocks per page and any retire countdowns: the bin queues, the      *)
(* fast-path table and the registry agree, no page in use is released, and *)
(* empty pages do not pile up.                                             *)
(***************************************************************************)
EXTENDS ThreadHeap, FiniteSetTheorems, SequenceTheorems, WellFoundedInduction,
        TLAPS

(***************************************************************************)
(* Before the first exit a page without used blocks has its countdown      *)
(* running, and the countdown runs on one page of a bin at most: retire    *)
(* arms it only on the page that is alone in its queue, and the fast path, *)
(* which does not cancel it, does not start another.                       *)
(***************************************************************************)
OneCountdown ==
  exits = 0 =>
    /\ AbandonedPages = {}
    /\ \A p \in InHeap : page[p].used = 0 => page[p].expire # 0
    /\ \A b \in Bins : \A p, q \in Queued(b) :
         page[p].expire # 0 /\ page[q].expire # 0 => p = q

HeapInv == QueuesAreSound /\ OneCountdown

-----------------------------------------------------------------------------
(***************************************************************************)
(* The queues: what a push in front returns, and the removal of a set.     *)
(***************************************************************************)
LEMMA Pushed ==
  ASSUME NEW S, NEW s \in Seq(S), IsInjective(s), NEW e \in S, e \notin ToSet(s)
  PROVE  /\ <<e>> \o s \in Seq(S) /\ IsInjective(<<e>> \o s)
         /\ ToSet(<<e>> \o s) = ToSet(s) \cup {e}
<1> DEFINE r == <<e>> \o s
<1>1. /\ r \in Seq(S) /\ Len(r) = Len(s) + 1 /\ r[1] = e
      /\ \A i \in 2..Len(r) : r[i] = s[i - 1]
      /\ DOMAIN r = 1..Len(r) /\ DOMAIN s = 1..Len(s) /\ Len(s) \in Nat
  OBVIOUS
<1> HIDE DEF r
<1>2. IsInjective(r)
  <2>1. \A i \in 1..Len(s) : s[i] # e
    BY <1>1 DEF ToSet
  <2>2. \A i \in 2..Len(r) : i - 1 \in 1..Len(s) /\ r[i] # r[1]
    BY <1>1, <2>1
  <2>3. \A i, j \in 2..Len(r) : r[i] = r[j] => i = j
    BY <1>1, <2>2 DEF IsInjective
  <2> QED BY <1>1, <2>2, <2>3 DEF IsInjective
<1>3. ToSet(r) = ToSet(s) \cup {e}
  <2>1. ASSUME NEW x \in ToSet(s) PROVE x \in ToSet(r)
    <3>1. PICK i \in 1..Len(s) : x = s[i]
      BY <1>1 DEF ToSet
    <3>2. i + 1 \in 2..Len(r) /\ r[i + 1] = x
      BY <1>1, <3>1
    <3> QED BY <1>1, <3>2 DEF ToSet
  <2>2. e \in ToSet(r)
    BY <1>1 DEF ToSet
  <2>3. ASSUME NEW x \in ToSet(r) PROVE x \in ToSet(s) \cup {e}
    BY <1>1 DEF ToSet
  <2> QED BY <2>1, <2>2, <2>3
<1> QED BY <1>1, <1>2, <1>3 DEF r

\* The entries that stay are numbered by how many stay before them.
LEMMA Ranked ==
  ASSUME NEW m \in Nat, NEW K \in SUBSET (1..m)
  PROVE  /\ IsFiniteSet(K) /\ Cardinality(K) \in Nat
         /\ \A i \in K : Cardinality({j \in K : j < i}) \in 0..(Cardinality(K) - 1)
         /\ \A i, k \in K :
              Cardinality({j \in K : j < i}) = Cardinality({j \in K : j < k}) => i = k
         /\ \A n \in 1..Cardinality(K) :
              \E i \in K : Cardinality({j \in K : j < i}) = n - 1
<1> DEFINE N == Cardinality(K)
           Before(i) == {j \in K : j < i}
           f == [i \in K |-> Cardinality(Before(i))]
<1>1. IsFiniteSet(K) /\ N \in Nat
  <2>1. IsFiniteSet(1..m)
    BY FS_Interval
  <2> QED BY <2>1, FS_Subset, FS_CardinalityType
<1>2. ASSUME NEW i \in K
      PROVE  IsFiniteSet(Before(i)) /\ Cardinality(Before(i)) \in 0..(N - 1)
  <2>1. IsFiniteSet(K \ {i}) /\ Cardinality(K \ {i}) = N - 1
    BY <1>1, FS_RemoveElement
  <2>2. Before(i) \in SUBSET (K \ {i})
    OBVIOUS
  <2>3. IsFiniteSet(Before(i)) /\ Cardinality(Before(i)) <= N - 1
    BY <2>1, <2>2, FS_Subset
  <2>4. Cardinality(Before(i)) \in Nat
    BY <2>3, FS_CardinalityType
  <2> QED BY <1>1, <2>3, <2>4
<1>3. ASSUME NEW i \in K, NEW k \in K, i < k
      PROVE  Cardinality(Before(i)) < Cardinality(Before(k))
  <2>0. \A j \in K : j \in Int
    OBVIOUS
  <2>1. i \notin Before(i) /\ Before(i) \cup {i} \in SUBSET Before(k)
    <3>1. ~(i < i) /\ \A j \in K : j < i => j < k
      BY <1>3, <2>0
    <3> QED BY <1>3, <3>1
  <2>2. Cardinality(Before(i) \cup {i}) = Cardinality(Before(i)) + 1
    BY <1>2, <2>1, FS_AddElement
  <2>3. Cardinality(Before(i) \cup {i}) <= Cardinality(Before(k))
    BY <1>2, <2>1, FS_Subset
  <2>4. Cardinality(Before(i)) \in Int /\ Cardinality(Before(k)) \in Int
    BY <1>1, <1>2
  <2> QED BY <2>2, <2>3, <2>4
<1>4. ASSUME NEW i \in K, NEW k \in K, Cardinality(Before(i)) = Cardinality(Before(k))
      PROVE  i = k
  <2>1. Cardinality(Before(i)) \in Int /\ Cardinality(Before(k)) \in Int
    BY <1>1, <1>2
  <2>2. ~(i < k) /\ ~(k < i)
    BY <1>3, <1>4, <2>1
  <2> QED BY <2>2
<1>5. f \in Injection(K, 0..(N - 1))
  BY <1>2, <1>4 DEF Injection, IsInjective
<1>6. Cardinality(0..(N - 1)) = N /\ IsFiniteSet(0..(N - 1))
  BY <1>1, FS_Interval
<1>7. f \in Surjection(K, 0..(N - 1))
  <2> HIDE DEF f, N
  <2> QED BY <1>5, <1>6, FS_Injection DEF N
<1>8. ASSUME NEW n \in 1..N PROVE \E i \in K : Cardinality(Before(i)) = n - 1
  <2>1. n - 1 \in 0..(N - 1)
    BY <1>1
  <2> QED BY <1>7, <2>1 DEF Surjection
<1> QED BY <1>1, <1>2, <1>4, <1>8

LEMMA Filtered ==
  ASSUME NEW P, NEW s \in Seq(P), IsInjective(s), NEW S
  PROVE  /\ Without(s, S) \in Seq(P) /\ IsInjective(Without(s, S))
         /\ ToSet(Without(s, S)) = ToSet(s) \ S
<1> DEFINE K == {i \in 1..Len(s) : s[i] \notin S}
           N == Cardinality(K)
           Rank(i) == Cardinality({j \in K : j < i})
           nth(n) == CHOOSE i \in K : Rank(i) = n - 1
           r == [n \in 1..N |-> s[nth(n)]]
<1>1. /\ N \in Nat /\ Len(s) \in Nat /\ DOMAIN s = 1..Len(s)
      /\ \A i, k \in K : Rank(i) = Rank(k) => i = k
      /\ \A i \in K : Rank(i) \in 0..(N - 1)
      /\ \A n \in 1..N : \E i \in K : Rank(i) = n - 1
  <2>1. Len(s) \in Nat /\ DOMAIN s = 1..Len(s) /\ K \in SUBSET (1..Len(s))
    BY LenProperties
  <2> HIDE DEF K
  <2> QED BY <2>1, Ranked
<1>2. Without(s, S) = r
  BY DEF Without
<1> HIDE DEF Rank, N
<1>3. \A n \in 1..N : nth(n) \in K /\ Rank(nth(n)) = n - 1
  BY <1>1
<1>4. \A n, m \in 1..N : nth(n) = nth(m) => n = m
  BY <1>1, <1>3
<1> HIDE DEF nth
<1>5. \A n \in 1..N : s[nth(n)] \in P /\ s[nth(n)] \in ToSet(s) \ S
  BY <1>1, <1>3 DEF ToSet
<1>6. r \in Seq(P) /\ Len(r) = N /\ DOMAIN r = 1..N
  BY <1>1, <1>5, IsASeq, LenProperties
<1>7. IsInjective(r)
  <2> SUFFICES ASSUME NEW n \in 1..N, NEW m \in 1..N, r[n] = r[m] PROVE n = m
    BY <1>6 DEF IsInjective
  <2>1. s[nth(n)] = s[nth(m)] /\ nth(n) \in DOMAIN s /\ nth(m) \in DOMAIN s
    BY <1>1, <1>3
  <2>2. nth(n) = nth(m)
    BY <2>1 DEF IsInjective
  <2> QED BY <1>4, <2>2
<1>8. ASSUME NEW x \in ToSet(s) \ S PROVE x \in ToSet(r)
  <2>1. PICK i \in K : x = s[i]
    BY <1>1 DEF ToSet
  <2>2. Rank(i) + 1 \in 1..N /\ (Rank(i) + 1) - 1 = Rank(i)
    BY <1>1
  <2>3. nth(Rank(i) + 1) = i
    BY <1>1, <1>3, <2>2
  <2>4. r[Rank(i) + 1] = x
    BY <2>1, <2>2, <2>3
  <2> QED BY <1>6, <2>2, <2>4 DEF ToSet
<1>9. \A x \in ToSet(r) : x \in ToSet(s) \ S
  BY <1>5, <1>6 DEF ToSet
<1> QED BY <1>2, <1>6, <1>7, <1>8, <1>9

-----------------------------------------------------------------------------
(***************************************************************************)
(* The ends of the retired range.                                          *)
(***************************************************************************)
LEMMA Extremes ==
  ASSUME NEW n \in Nat, NEW S \in SUBSET (0..n), S # {}
  PROVE  LowOf(S) \in S /\ HighOf(S) \in S
<1> DEFINE T == {n - j : j \in S}
           R == OpToRel(<, Nat)
<1>1. S \subseteq Nat /\ T \subseteq Nat /\ T # {}
  <2>1. \A j \in S : j \in Nat /\ n - j \in Nat
    OBVIOUS
  <2>2. PICK j \in S : TRUE
    OBVIOUS
  <2> QED BY <2>1, <2>2
<1>2. IsWellFoundedOn(R, Nat)
  BY NatLessThanWellFounded
<1>3. \A x, y \in Nat : x < y => <<x, y>> \in R
  BY DEF OpToRel
<1> HIDE DEF R
<1>4. ASSUME NEW U, U \subseteq Nat, U # {}
      PROVE  \E x \in U : \A y \in U : x <= y
  <2>1. PICK x \in U : \A y \in U : ~(<<y, x>> \in R)
    BY <1>2, <1>4, WFMin
  <2>2. \A y \in U : x \in Nat /\ y \in Nat /\ ~(y < x)
    BY <1>3, <1>4, <2>1
  <2>3. \A y \in U : x <= y
    BY <2>2
  <2> QED BY <2>3
<1>5. \E x \in S : \A y \in S : x <= y
  BY <1>1, <1>4
<1>6. PICK x \in T : \A y \in T : x <= y
  <2> HIDE DEF T
  <2> QED BY <1>1, <1>4
<1>7. PICK j \in S : x = n - j
  BY <1>6
<1>8. \A k \in S : n - k \in T
  OBVIOUS
<1>9. \A k \in S : j >= k
  <2> TAKE k \in S
  <2>1. n - j <= n - k
    BY <1>6, <1>7, <1>8
  <2>2. j \in Int /\ k \in Int
    BY <1>1
  <2> HIDE DEF T
  <2> QED BY <2>1, <2>2
<1> HIDE DEF T
<1>10. \E y \in S : \A k \in S : y >= k
  BY <1>9
<1>11. LowOf(S) \in S
  BY <1>5, Zenon DEF LowOf
<1>12. HighOf(S) \in S
  BY <1>10, Zenon DEF HighOf
<1> QED BY <1>11, <1>12

-----------------------------------------------------------------------------
(***************************************************************************)
(* Page headers: the blocks add up after every operation of a page, and    *)
(* only alloc and a free change how many of them the program has.          *)
(***************************************************************************)
Sound(r) ==
  /\ r \in Headers /\ r.pend <= r.used
  /\ r.bin # 0 => r.avail + r.local + r.used = CapOf(r.bin)
  /\ r.bin = 0 => r = NoPage
Lives(r) == r.used - r.pend

LEMMA Capacity == \A b \in Bins : CapOf(b) \in Nat \ {0} /\ b # 0
BY ThreadHeapAssumption DEF CapOf, Bins, BinHuge

LEMMA NoPageIsSound == Sound(NoPage) /\ Lives(NoPage) = 0
BY ThreadHeapAssumption DEF NoPage, Header, Sound, Headers, Lives, BinHuge

LEMMA CollectedHeader ==
  ASSUME NEW r, Sound(r), r.bin # 0
  PROVE  LET c == Collected(r) IN
         /\ Sound(c) /\ c.bin = r.bin /\ c.expire = r.expire
         /\ Lives(c) = Lives(r) /\ c.used = Lives(r) /\ c.pend = 0 /\ c.local = 0
         /\ c.avail = r.avail + r.local + r.pend
<1> DEFINE c == Collected(r)
<1>1. /\ r \in Headers /\ r.pend <= r.used /\ r.avail + r.local + r.used = CapOf(r.bin)
  BY DEF Sound
<1>2. /\ r.avail \in Nat /\ r.local \in Nat /\ r.pend \in Nat /\ r.used \in Nat
      /\ r.expire \in Nat /\ r.bin \in 0..BinHuge
  BY <1>1 DEF Headers
<1>3. c = [bin |-> r.bin, avail |-> r.avail + r.local + r.pend, local |-> 0, pend |-> 0,
           used |-> r.used - r.pend, expire |-> r.expire]
  <2>1. c = [r EXCEPT !.avail = @ + r.local + r.pend, !.used = @ - r.pend,
                      !.local = 0, !.pend = 0]
    BY DEF Collected
  <2> HIDE DEF c
  <2> QED BY <1>1, <2>1 DEF Headers
<1>4. r.avail + r.local + r.pend \in Nat /\ r.used - r.pend \in Nat
  BY <1>1, <1>2
<1>5. (r.avail + r.local + r.pend) + 0 + (r.used - r.pend) = CapOf(r.bin)
  BY <1>1, <1>2
<1> HIDE DEF c
<1>6. c \in Headers
  BY <1>2, <1>3, <1>4 DEF Headers
<1>7. c.pend <= c.used /\ Lives(c) = Lives(r)
  BY <1>2, <1>3, <1>4 DEF Lives
<1>8. c.avail + c.local + c.used = CapOf(c.bin)
  BY <1>3, <1>5
<1> QED BY <1>3, <1>6, <1>7, <1>8 DEF Sound, Lives, c

LEMMA PoppedHeader ==
  ASSUME NEW r, Sound(r), r.bin # 0, CanAlloc(r)
  PROVE  LET c == Popped(r) IN
         /\ Sound(c) /\ c.bin = r.bin /\ c.expire = r.expire
         /\ Lives(c) = Lives(r) + 1 /\ c.used # 0
<1> DEFINE d == IF r.avail > 0 THEN r ELSE Collected(r)
           c == Popped(r)
<1>1. /\ Sound(d) /\ d.bin = r.bin /\ d.expire = r.expire
      /\ Lives(d) = Lives(r) /\ d.avail > 0
  <2>1. CASE r.avail > 0
    BY <2>1
  <2>2. CASE ~(r.avail > 0)
    BY <2>2, CollectedHeader, Zenon DEF CanAlloc
  <2> QED BY <2>1, <2>2
<1>2. c = [d EXCEPT !.avail = @ - 1, !.used = @ + 1]
  BY DEF Popped
<1> HIDE DEF d, c
<1>3. /\ d \in Headers /\ d.pend <= d.used /\ d.avail + d.local + d.used = CapOf(d.bin)
  BY <1>1 DEF Sound
<1>4. /\ d.avail \in Nat /\ d.local \in Nat /\ d.pend \in Nat /\ d.used \in Nat
      /\ d.expire \in Nat /\ d.bin \in 0..BinHuge
  BY <1>3 DEF Headers
<1>5. c = [bin |-> d.bin, avail |-> d.avail - 1, local |-> d.local, pend |-> d.pend,
           used |-> d.used + 1, expire |-> d.expire]
  BY <1>2, <1>3 DEF Headers
<1>6. d.avail - 1 \in Nat /\ d.used + 1 \in Nat
  BY <1>1, <1>4
<1>7. (d.avail - 1) + d.local + (d.used + 1) = CapOf(d.bin)
  BY <1>3, <1>4
<1>8. c \in Headers
  BY <1>4, <1>5, <1>6 DEF Headers
<1>9. c.pend <= c.used /\ Lives(c) = Lives(d) + 1 /\ c.used # 0
  BY <1>3, <1>4, <1>5 DEF Lives
<1>10. c.avail + c.local + c.used = CapOf(c.bin)
  BY <1>5, <1>7
<1> QED BY <1>1, <1>5, <1>8, <1>9, <1>10 DEF Sound, c

LEMMA FreedHeader ==
  ASSUME NEW r, Sound(r), r.bin # 0, Lives(r) > 0
  PROVE  LET c == FreedLocal(r) IN
         /\ Sound(c) /\ c.bin = r.bin /\ c.expire = r.expire
         /\ Lives(c) = Lives(r) - 1 /\ c.used = r.used - 1
<1> DEFINE c == FreedLocal(r)
<1>3. /\ r \in Headers /\ r.pend <= r.used /\ r.avail + r.local + r.used = CapOf(r.bin)
  BY DEF Sound
<1>4. /\ r.avail \in Nat /\ r.local \in Nat /\ r.pend \in Nat /\ r.used \in Nat
      /\ r.expire \in Nat /\ r.bin \in 0..BinHuge
  BY <1>3 DEF Headers
<1>5. c = [bin |-> r.bin, avail |-> r.avail, local |-> r.local + 1, pend |-> r.pend,
           used |-> r.used - 1, expire |-> r.expire]
  <2>1. c = [r EXCEPT !.local = @ + 1, !.used = @ - 1]
    BY DEF FreedLocal
  <2> HIDE DEF c
  <2> QED BY <1>3, <2>1 DEF Headers
<1>6. r.local + 1 \in Nat /\ r.used - 1 \in Nat /\ r.pend <= r.used - 1
  BY <1>4 DEF Lives
<1>7. r.avail + (r.local + 1) + (r.used - 1) = CapOf(r.bin)
  BY <1>3, <1>4
<1> HIDE DEF c
<1>8. c \in Headers
  BY <1>4, <1>5, <1>6 DEF Headers
<1>9. c.pend <= c.used /\ Lives(c) = Lives(r) - 1
  BY <1>3, <1>4, <1>5, <1>6 DEF Lives
<1>10. c.avail + c.local + c.used = CapOf(c.bin)
  BY <1>5, <1>7
<1> QED BY <1>5, <1>8, <1>9, <1>10 DEF Sound, c

\* A free by another thread is queued.
LEMMA QueuedFree ==
  ASSUME NEW r, Sound(r), r.bin # 0, Lives(r) > 0
  PROVE  LET c == [r EXCEPT !.pend = @ + 1] IN
         /\ Sound(c) /\ c.bin = r.bin /\ c.expire = r.expire
         /\ Lives(c) = Lives(r) - 1 /\ c.used = r.used /\ c.pend # 0
<1> DEFINE c == [r EXCEPT !.pend = @ + 1]
<1>3. /\ r \in Headers /\ r.pend <= r.used /\ r.avail + r.local + r.used = CapOf(r.bin)
  BY DEF Sound
<1>4. /\ r.avail \in Nat /\ r.local \in Nat /\ r.pend \in Nat /\ r.used \in Nat
      /\ r.expire \in Nat /\ r.bin \in 0..BinHuge
  BY <1>3 DEF Headers
<1>5. c = [bin |-> r.bin, avail |-> r.avail, local |-> r.local, pend |-> r.pend + 1,
           used |-> r.used, expire |-> r.expire]
  BY <1>3 DEF Headers
<1>6. r.pend + 1 \in Nat /\ r.pend + 1 <= r.used
  BY <1>4 DEF Lives
<1> HIDE DEF c
<1>8. c \in Headers
  BY <1>4, <1>5, <1>6 DEF Headers
<1>9. c.pend <= c.used /\ Lives(c) = Lives(r) - 1 /\ c.pend # 0
  BY <1>3, <1>4, <1>5, <1>6 DEF Lives
<1>10. c.avail + c.local + c.used = CapOf(c.bin)
  BY <1>3, <1>5
<1> QED BY <1>5, <1>8, <1>9, <1>10 DEF Sound, c

LEMMA CountdownHeader ==
  ASSUME NEW r, Sound(r), r.bin # 0, NEW e \in Nat
  PROVE  LET c == [r EXCEPT !.expire = e] IN
         /\ Sound(c) /\ c.bin = r.bin /\ c.expire = e
         /\ Lives(c) = Lives(r) /\ c.used = r.used /\ c.pend = r.pend
<1> DEFINE c == [r EXCEPT !.expire = e]
<1>3. /\ r \in Headers /\ r.pend <= r.used /\ r.avail + r.local + r.used = CapOf(r.bin)
  BY DEF Sound
<1>5. c = [bin |-> r.bin, avail |-> r.avail, local |-> r.local, pend |-> r.pend,
           used |-> r.used, expire |-> e]
  BY <1>3 DEF Headers
<1> HIDE DEF c
<1>8. c \in Headers
  BY <1>3, <1>5 DEF Headers
<1>10. c.avail + c.local + c.used = CapOf(c.bin) /\ c.pend <= c.used
  BY <1>3, <1>5
<1> QED BY <1>5, <1>8, <1>10 DEF Sound, Lives, c

\* A page that has just been carved and has given its first block.
LEMMA CarvedHeader ==
  ASSUME NEW b \in Bins
  PROVE  LET c == Popped(Header(b, CapOf(b))) IN
         /\ Sound(c) /\ c.bin = b /\ c.expire = 0 /\ c.used # 0 /\ Lives(c) = 1
<1> DEFINE h == Header(b, CapOf(b))
<1>1. h = [bin |-> b, avail |-> CapOf(b), local |-> 0, pend |-> 0, used |-> 0, expire |-> 0]
  BY DEF Header
<1>2. CapOf(b) \in Nat /\ CapOf(b) > 0 /\ b \in 0..BinHuge /\ b # 0
  BY Capacity, ThreadHeapAssumption DEF Bins, BinHuge
<1> HIDE DEF h
<1>3. Sound(h) /\ Lives(h) = 0
  <2>1. h \in Headers
    BY <1>1, <1>2 DEF Headers
  <2> QED BY <1>1, <1>2, <2>1 DEF Sound, Lives
<1>4. CanAlloc(h)
  BY <1>1, <1>2, <1>3, CollectedHeader DEF CanAlloc
<1> QED BY <1>1, <1>2, <1>3, <1>4, PoppedHeader DEF h

-----------------------------------------------------------------------------
(***************************************************************************)
(* The heap as a whole.                                                    *)
(***************************************************************************)
LEMMA Facts ==
  ASSUME QueuesAreSound
  PROVE  /\ page \in [Pages -> Headers] /\ \A p \in Pages : Sound(page[p])
         /\ queue \in [Bins -> Seq(Pages)]
         /\ \A b \in Bins : IsInjective(queue[b]) /\ Queued(b) \subseteq Pages
         /\ \A b \in Bins : \A p \in Queued(b) : page[p].bin = b /\ p \in InHeap
         /\ \A p \in InHeap : /\ p \in Pages /\ page[p].bin \in Bins /\ page[p].bin # 0
                              /\ p \in Queued(page[p].bin)
         /\ \A p \in mapped : /\ p \in Pages /\ p \notin InHeap /\ page[p].bin # 0
                              /\ page[p].bin \in Bins /\ CanAlloc(page[p])
<1> USE DEF QueuesAreSound, TypeOK
<1>1. \A p \in Pages : Sound(page[p])
  BY DEF Sound
<1>2. \A b \in Bins : Queued(b) \subseteq Pages
  <2> TAKE b \in Bins
  <2>1. queue[b] \in Seq(Pages) /\ DOMAIN queue[b] = 1..Len(queue[b])
    BY LenProperties
  <2> QED BY <2>1, ElementOfSeq DEF Queued, ToSet
<1>3. \A b \in Bins : \A p \in Queued(b) : page[p].bin = b /\ p \in InHeap
  BY DEF InHeap
<1>4. \A p \in InHeap : /\ p \in Pages /\ page[p].bin \in Bins /\ page[p].bin # 0
                        /\ p \in Queued(page[p].bin)
  BY <1>2, Capacity DEF InHeap
<1>5. \A p \in mapped : /\ p \in Pages /\ p \notin InHeap /\ page[p].bin # 0 /\ CanAlloc(page[p])
  BY DEF AbandonedPages, Allocated, MappedHasRoom
<1>6. \A p \in Pages : page[p].bin # 0 => page[p].bin \in Bins
  <2> TAKE p \in Pages
  <2>1. page[p].bin \in 0..BinHuge /\ BinHuge \in Nat
    BY ThreadHeapAssumption DEF Headers, BinHuge
  <2> QED BY <2>1 DEF Bins
<1> QED BY <1>1, <1>2, <1>3, <1>4, <1>5, <1>6

\* One page at most gains or loses a block in use, and one block at most.
OneLife ==
  \E x : \A q \in Pages : /\ Live(q)' - Live(q) \in {-1, 0, 1}
                          /\ q # x => Live(q)' = Live(q)

(***************************************************************************)
(* A step that unlinks the pages of G, puts those of N (one or none) into  *)
(* the queue of b and changes headers keeps the invariant if it does what  *)
(* the invariant asks of each of these pages.                              *)
(***************************************************************************)
Relinks(G, b, N) ==
  /\ G \subseteq InHeap /\ N \subseteq Pages /\ N \cap (InHeap \ G) = {}
  /\ queue' \in [Bins -> Seq(Pages)]
  /\ \A c \in Bins : IsInjective(queue'[c])
  /\ \A c \in Bins : Queued(c)' = (Queued(c) \ G) \cup (IF c = b THEN N ELSE {})
  /\ direct' \in [SmallSizes -> Pages \cup {None}] /\ DirectEntriesValid'
  /\ rmin' \in 1..BinFull /\ rmax' \in 0..NBins
  /\ mapped' = mapped \ N /\ exits' = exits
  /\ page' \in [Pages -> Headers]
  /\ \A p \in N : /\ Sound(page'[p]) /\ page'[p].bin = b
                  /\ exits = 0 => page'[p].used # 0 /\ page'[p].expire = 0
  /\ \A p \in G \ N : page'[p] = NoPage
  /\ \A p \in InHeap \ G : /\ Sound(page'[p]) /\ page'[p].bin = page[p].bin
                           /\ exits = 0 /\ page'[p].used = 0 => page'[p].expire # 0
  /\ \A p \in Pages \ (InHeap \cup N) : page'[p] = page[p]
  /\ exits = 0 => \A c \in Bins : \A p, q \in Queued(c) \ G :
                    page'[p].expire # 0 /\ page'[q].expire # 0 => p = q

LEMMA Relink ==
  ASSUME HeapInv, NEW G, NEW b \in Bins, NEW N, Relinks(G, b, N)
  PROVE  HeapInv'
<1> USE DEF Relinks
<1>1. QueuesAreSound /\ OneCountdown
  BY DEF HeapInv
<1>2. /\ \A p \in Pages : Sound(page[p])
      /\ \A c \in Bins : \A p \in Queued(c) : page[p].bin = c /\ p \in InHeap
      /\ \A p \in InHeap : p \in Pages /\ page[p].bin \in Bins /\ p \in Queued(page[p].bin)
      /\ \A p \in mapped : p \in Pages /\ p \notin InHeap /\ page[p].bin # 0 /\ CanAlloc(page[p])
  BY <1>1, Facts
<1>3. \A p \in Pages : Sound(page'[p])
  BY <1>2, NoPageIsSound
<1>4. \A c \in Bins : \A p \in Queued(c)' : page'[p].bin = c
  BY <1>2
<1>5. InHeap' = (InHeap \ G) \cup N
  BY <1>2 DEF InHeap
<1>6. \A p \in mapped' : p \in Pages /\ p \notin InHeap' /\ page'[p].bin # 0 /\ CanAlloc(page'[p])
  BY <1>2, <1>5
<1>7. TypeOK'
  <2>1. mapped' \subseteq AbandonedPages'
    BY <1>6 DEF AbandonedPages, Allocated
  <2>2. exits' \in 0..MaxExits
    BY <1>1 DEF QueuesAreSound, TypeOK
  <2>3. \A p \in Pages : /\ page'[p].pend <= page'[p].used
                         /\ page'[p].bin # 0 =>
                              page'[p].avail + page'[p].local + page'[p].used = CapOf(page'[p].bin)
                         /\ page'[p].bin = 0 => page'[p] = NoPage
    BY <1>3 DEF Sound
  <2> QED BY <1>4, <2>1, <2>2, <2>3 DEF TypeOK
<1>8. MappedHasRoom'
  BY <1>6 DEF MappedHasRoom
<1>9. ASSUME exits' = 0
      PROVE  /\ AbandonedPages' = {}
             /\ \A p \in InHeap' : page'[p].used = 0 => page'[p].expire # 0
             /\ \A c \in Bins : \A p, q \in Queued(c)' :
                  page'[p].expire # 0 /\ page'[q].expire # 0 => p = q
  <2>1. AbandonedPages = {}
    BY <1>1, <1>9 DEF OneCountdown
  <2>2. AbandonedPages' = {}
    <3> SUFFICES ASSUME NEW p \in Pages, page'[p].bin # 0, p \notin InHeap' PROVE FALSE
      BY DEF AbandonedPages, Allocated
    <3>1. p \notin G
      BY <1>5 DEF NoPage, Header
    <3>2. p \notin InHeap /\ page'[p] = page[p]
      BY <1>5, <3>1
    <3> QED BY <2>1, <3>2 DEF AbandonedPages, Allocated
  <2>3. \A p \in InHeap' : page'[p].used = 0 => page'[p].expire # 0
    BY <1>5, <1>9
  <2>4. ASSUME NEW c \in Bins, NEW p \in Queued(c)', NEW q \in Queued(c)',
               page'[p].expire # 0, page'[q].expire # 0
        PROVE  p = q
    <3>1. p \notin N /\ q \notin N
      BY <1>9, <2>4
    <3> QED BY <1>9, <2>4, <3>1
  <2> QED BY <2>2, <2>3, <2>4
<1>10. OneCountdown'
  BY <1>9 DEF OneCountdown
<1> QED BY <1>7, <1>8, <1>10 DEF HeapInv, QueuesAreSound

\* Queues with pages unlinked, and with a page in front.
LEMMA UnlinkedQueues ==
  ASSUME QueuesAreSound, NEW G
  PROVE  LET Q == QueueWithout(G) IN
         /\ Q \in [Bins -> Seq(Pages)]
         /\ \A c \in Bins : IsInjective(Q[c]) /\ ToSet(Q[c]) = Queued(c) \ G
<1>1. \A c \in Bins : queue[c] \in Seq(Pages) /\ IsInjective(queue[c])
  BY Facts
<1>2. \A c \in Bins : /\ Without(queue[c], G) \in Seq(Pages)
                      /\ IsInjective(Without(queue[c], G))
                      /\ ToSet(Without(queue[c], G)) = ToSet(queue[c]) \ G
  BY <1>1, Filtered
<1> QED BY <1>2 DEF QueueWithout, Queued

LEMMA FrontOfQueue ==
  ASSUME NEW Q \in [Bins -> Seq(Pages)], \A c \in Bins : IsInjective(Q[c]),
         NEW b \in Bins, NEW p \in Pages, p \notin ToSet(Q[b])
  PROVE  LET R == [Q EXCEPT ![b] = <<p>> \o @] IN
         /\ R \in [Bins -> Seq(Pages)]
         /\ \A c \in Bins : /\ IsInjective(R[c])
                            /\ ToSet(R[c]) = ToSet(Q[c]) \cup (IF c = b THEN {p} ELSE {})
<1>1. /\ <<p>> \o Q[b] \in Seq(Pages) /\ IsInjective(<<p>> \o Q[b])
      /\ ToSet(<<p>> \o Q[b]) = ToSet(Q[b]) \cup {p}
  BY Pushed
<1> DEFINE w == <<p>> \o Q[b]
<1>2. [Q EXCEPT ![b] = <<p>> \o @] = [Q EXCEPT ![b] = w]
  OBVIOUS
<1> HIDE DEF w
<1>3. w \in Seq(Pages) /\ IsInjective(w) /\ ToSet(w) = ToSet(Q[b]) \cup {p}
  BY <1>1 DEF w
<1> QED BY <1>2, <1>3

LEMMA DirectKept ==
  ASSUME QueuesAreSound, NEW G
  PROVE  /\ DirectWithout(G) \in [SmallSizes -> Pages \cup {None}]
         /\ \A z \in SmallSizes : DirectWithout(G)[z] # None =>
              DirectWithout(G)[z] \in Queued(SizeBin[z]) \ G
BY DEF QueuesAreSound, TypeOK, DirectEntriesValid, DirectWithout

(***************************************************************************)
(* A step that changes the header of one page of the heap.                 *)
(***************************************************************************)
LEMMA HeaderStep ==
  ASSUME HeapInv, NEW p \in InHeap, NEW r, Sound(r), r.bin = page[p].bin,
         page' = [page EXCEPT ![p] = r], UNCHANGED <<queue, mapped, exits>>,
         rmin' \in 1..BinFull, rmax' \in 0..NBins,
         direct' \in [SmallSizes -> Pages \cup {None}], DirectEntriesValid',
         exits = 0 /\ r.used = 0 => r.expire # 0,
         r.expire # 0 => page[p].expire # 0 \/ Queued(page[p].bin) = {p}
  PROVE  HeapInv' /\ \A q \in Pages : Live(q)' = IF q = p THEN Lives(r) ELSE Live(q)
<1>1. QueuesAreSound /\ OneCountdown
  BY DEF HeapInv
<1>2. /\ page \in [Pages -> Headers] /\ \A q \in Pages : Sound(page[q])
      /\ queue \in [Bins -> Seq(Pages)] /\ \A c \in Bins : IsInjective(queue[c])
      /\ \A c \in Bins : \A q \in Queued(c) : page[q].bin = c /\ q \in InHeap
      /\ p \in Pages /\ page[p].bin \in Bins /\ p \in Queued(page[p].bin)
      /\ \A q \in InHeap : q \in Pages
  BY <1>1, Facts
<1>3. r \in Headers
  BY DEF Sound
<1>4. page' \in [Pages -> Headers] /\ page'[p] = r /\ \A q \in Pages \ {p} : page'[q] = page[q]
  BY <1>2, <1>3
<1>5. \A c \in Bins : Queued(c)' = Queued(c)
  BY DEF Queued
<1>6. \A q \in InHeap : /\ Sound(page'[q]) /\ page'[q].bin = page[q].bin
                        /\ exits = 0 /\ page'[q].used = 0 => page'[q].expire # 0
  BY <1>1, <1>2, <1>4 DEF OneCountdown
<1>7. ASSUME exits = 0, NEW c \in Bins, NEW q \in Queued(c), NEW u \in Queued(c),
             page'[q].expire # 0, page'[u].expire # 0
      PROVE  q = u
  <2>1. \A x, y \in Queued(c) : page[x].expire # 0 /\ page[y].expire # 0 => x = y
    BY <1>1, <1>7 DEF OneCountdown
  <2>2. q \in Pages /\ u \in Pages /\ page[q].bin = c /\ page[u].bin = c
    BY <1>2
  <2> QED BY <1>2, <1>4, <1>7, <2>1, <2>2
<1>8. HeapInv'
  <2> PICK b \in Bins : b = page[p].bin
    BY <1>2
  <2> DEFINE E == {}
  <2>1. Relinks(E, b, E)
    BY <1>2, <1>4, <1>5, <1>6, <1>7 DEF Relinks
  <2> HIDE DEF E
  <2> QED BY <2>1, Relink
<1>9. \A q \in Pages : Live(q)' = IF q = p THEN Lives(r) ELSE Live(q)
  BY <1>4 DEF Live, Lives
<1> QED BY <1>8, <1>9

\* The blocks of one page changed by at most one.
LEMMA LivesDiffer ==
  ASSUME NEW p, NEW l, \A q \in Pages : Live(q) \in Int,
         \A q \in Pages : Live(q)' = IF q = p THEN l ELSE Live(q),
         p \in Pages => l - Live(p) \in {-1, 0, 1}
  PROVE  OneLife
<1>1. \A q \in Pages : Live(q)' - Live(q) \in {-1, 0, 1} /\ (q # p => Live(q)' = Live(q))
  OBVIOUS
<1> QED BY <1>1 DEF OneLife

LEMMA LivesAreNumbers == ASSUME QueuesAreSound PROVE \A q \in Pages : Live(q) \in Nat /\ Live(q) = Lives(page[q])
<1> SUFFICES ASSUME NEW q \in Pages PROVE Live(q) \in Nat /\ Live(q) = Lives(page[q])
  OBVIOUS
<1>1. page[q].used \in Nat /\ page[q].pend \in Nat /\ page[q].pend <= page[q].used
  BY Facts DEF Sound, Headers
<1> QED BY <1>1 DEF Live, Lives

-----------------------------------------------------------------------------
(***************************************************************************)
(* The steps, action by action.                                            *)
(***************************************************************************)
LEMMA AllocDirectStep ==
  ASSUME HeapInv, NEW z \in Sizes, AllocDirect(z)
  PROVE  HeapInv' /\ OneLife
<1>1. QueuesAreSound /\ TypeOK /\ DirectEntriesValid
  BY DEF HeapInv, QueuesAreSound
<1>2. PICK p : p = direct[z] /\ CanAlloc(page[p]) /\ z \in SmallSizes /\ p # None
  BY DEF AllocDirect, DirectServes
<1>3. p \in InHeap /\ p \in Pages /\ page[p].bin # 0 /\ Sound(page[p])
  <2>1. p \in Queued(SizeBin[z]) /\ SizeBin[z] \in Bins
    BY <1>1, <1>2, ThreadHeapAssumption DEF DirectEntriesValid, Bins, SizeClasses, BinHuge
  <2> QED BY <1>1, <2>1, Facts
<1>4. PICK r : r = Popped(page[p])
  OBVIOUS
<1>5. /\ Sound(r) /\ r.bin = page[p].bin /\ r.expire = page[p].expire
      /\ Lives(r) = Lives(page[p]) + 1 /\ r.used # 0
  BY <1>2, <1>3, <1>4, PoppedHeader
<1>6. page' = [page EXCEPT ![p] = r] /\ UNCHANGED <<queue, direct, rmin, rmax, mapped, exits>>
  BY <1>2, <1>4 DEF AllocDirect
<1>7. /\ direct' \in [SmallSizes -> Pages \cup {None}] /\ rmin' \in 1..BinFull /\ rmax' \in 0..NBins
      /\ DirectEntriesValid'
  BY <1>1, <1>6 DEF TypeOK, DirectEntriesValid, Queued
<1>8. HeapInv' /\ \A q \in Pages : Live(q)' = IF q = p THEN Lives(r) ELSE Live(q)
  BY <1>3, <1>5, <1>6, <1>7, HeaderStep
<1>9. OneLife
  <2>1. \A q \in Pages : Live(q) \in Nat /\ Live(q) = Lives(page[q])
    BY <1>1, LivesAreNumbers
  <2>2. Lives(r) - Live(p) \in {-1, 0, 1}
    BY <1>3, <1>5, <2>1
  <2> QED BY <1>8, <2>1, <2>2, LivesDiffer
<1> QED BY <1>8, <1>9

LEMMA SizeBins == \A z \in Sizes : SizeBin[z] \in Bins /\ SizeBin[z] # BinHuge
                                   /\ SizeBin[z] \in SizeClasses /\ CapOf(SizeBin[z]) = Cap
BY ThreadHeapAssumption DEF Bins, SizeClasses, BinHuge, CapOf

LEMMA AllocQueueStep ==
  ASSUME HeapInv, NEW z \in Sizes, AllocQueue(z)
  PROVE  HeapInv' /\ OneLife
<1>1. QueuesAreSound /\ TypeOK /\ DirectEntriesValid
  BY DEF HeapInv, QueuesAreSound
<1>2. PICK b : b = SizeBin[z] /\ b \in Bins
  BY SizeBins
<1>3. PICK i \in 1..Len(queue[b]) :
        /\ CanAlloc(page[queue[b][i]])
        /\ page' = [page EXCEPT ![queue[b][i]] = [Popped(@) EXCEPT !.expire = 0]]
        /\ direct' = DirectSet(direct, z, queue[b][i])
  BY <1>2 DEF AllocQueue
<1>4. PICK p : p = queue[b][i]
  OBVIOUS
<1>5. p \in Queued(b)
  <2>1. queue[b] \in Seq(Pages) /\ DOMAIN queue[b] = 1..Len(queue[b])
    BY <1>1, <1>2, Facts, LenProperties
  <2> QED BY <1>4, <2>1 DEF Queued, ToSet
<1>6. p \in InHeap /\ p \in Pages /\ page[p].bin # 0 /\ Sound(page[p])
  BY <1>1, <1>2, <1>5, Facts
<1>7. PICK r : r = [Popped(page[p]) EXCEPT !.expire = 0]
  OBVIOUS
<1>8. /\ Sound(r) /\ r.bin = page[p].bin /\ r.expire = 0
      /\ Lives(r) = Lives(page[p]) + 1 /\ r.used # 0
  <2>1. /\ Sound(Popped(page[p])) /\ Popped(page[p]).bin = page[p].bin
        /\ Lives(Popped(page[p])) = Lives(page[p]) + 1 /\ Popped(page[p]).used # 0
    BY <1>3, <1>4, <1>6, PoppedHeader
  <2> QED BY <1>6, <1>7, <2>1, CountdownHeader
<1>9. page' = [page EXCEPT ![p] = r] /\ UNCHANGED <<queue, rmin, rmax, mapped, exits>>
      /\ direct' = DirectSet(direct, z, p)
  BY <1>3, <1>4, <1>7 DEF AllocQueue
<1>10. /\ direct' \in [SmallSizes -> Pages \cup {None}] /\ rmin' \in 1..BinFull /\ rmax' \in 0..NBins
       /\ DirectEntriesValid'
  <2>1. direct \in [SmallSizes -> Pages \cup {None}] /\ rmin \in 1..BinFull /\ rmax \in 0..NBins
    BY <1>1 DEF TypeOK
  <2>2. direct' \in [SmallSizes -> Pages \cup {None}]
    BY <1>6, <1>9, <2>1 DEF DirectSet
  <2>3. \A y \in SmallSizes : direct'[y] = direct[y] \/ (y = z /\ direct'[y] = p)
    BY <1>9, <2>1 DEF DirectSet
  <2>4. \A c : Queued(c)' = Queued(c)
    BY <1>9 DEF Queued
  <2>5. \A y \in SmallSizes : direct'[y] # None => direct'[y] \in Queued(SizeBin[y])
    BY <1>1, <1>2, <1>5, <2>3 DEF DirectEntriesValid
  <2>6. DirectEntriesValid'
    BY <1>9, <2>5 DEF DirectEntriesValid, Queued
  <2> QED BY <1>9, <2>1, <2>2, <2>6
<1>11. HeapInv' /\ \A q \in Pages : Live(q)' = IF q = p THEN Lives(r) ELSE Live(q)
  BY <1>6, <1>8, <1>9, <1>10, HeaderStep
<1>12. OneLife
  <2>1. \A q \in Pages : Live(q) \in Nat /\ Live(q) = Lives(page[q])
    BY <1>1, LivesAreNumbers
  <2>2. Lives(r) - Live(p) \in {-1, 0, 1}
    BY <1>6, <1>8, <2>1
  <2> QED BY <1>11, <2>1, <2>2, LivesDiffer
<1> QED BY <1>11, <1>12

LEMMA FreeRemoteStep ==
  ASSUME HeapInv, NEW p \in Pages, FreeRemote(p)
  PROVE  HeapInv' /\ OneLife
<1>1. QueuesAreSound /\ TypeOK /\ DirectEntriesValid /\ OneCountdown
  BY DEF HeapInv, QueuesAreSound
<1>2. p \in InHeap /\ page[p].bin # 0 /\ Sound(page[p]) /\ Lives(page[p]) > 0
  BY <1>1, Facts, LivesAreNumbers DEF FreeRemote
<1>3. PICK r : r = [page[p] EXCEPT !.pend = @ + 1]
  OBVIOUS
<1>4. /\ Sound(r) /\ r.bin = page[p].bin /\ r.expire = page[p].expire
      /\ Lives(r) = Lives(page[p]) - 1 /\ r.used = page[p].used
  BY <1>2, <1>3, QueuedFree
<1>5. page' = [page EXCEPT ![p] = r] /\ UNCHANGED <<queue, direct, rmin, rmax, mapped, exits>>
  BY <1>1, <1>3, Facts DEF FreeRemote
<1>6. /\ direct' \in [SmallSizes -> Pages \cup {None}] /\ rmin' \in 1..BinFull /\ rmax' \in 0..NBins
      /\ DirectEntriesValid'
  BY <1>1, <1>5 DEF TypeOK, DirectEntriesValid, Queued
<1>7. exits = 0 /\ r.used = 0 => r.expire # 0
  BY <1>1, <1>2, <1>4 DEF OneCountdown
<1>8. HeapInv' /\ \A q \in Pages : Live(q)' = IF q = p THEN Lives(r) ELSE Live(q)
  BY <1>2, <1>4, <1>5, <1>6, <1>7, HeaderStep
<1>9. OneLife
  <2>1. \A q \in Pages : Live(q) \in Nat /\ Live(q) = Lives(page[q])
    BY <1>1, LivesAreNumbers
  <2>2. Lives(r) - Live(p) \in {-1, 0, 1}
    BY <1>4, <2>1
  <2> QED BY <1>8, <2>1, <2>2, LivesDiffer
<1> QED BY <1>8, <1>9

\* The headers after a step that unlinks the pages of G.
Headed(G) ==
  /\ page' \in [Pages -> Headers]
  /\ \A p \in G : page'[p] = NoPage
  /\ \A p \in InHeap \ G : /\ Sound(page'[p]) /\ page'[p].bin = page[p].bin
                           /\ exits = 0 /\ page'[p].used = 0 => page'[p].expire # 0
  /\ \A p \in Pages \ InHeap : page'[p] = page[p]
  /\ exits = 0 => \A c \in Bins : \A p, q \in Queued(c) \ G :
                    page'[p].expire # 0 /\ page'[q].expire # 0 => p = q

LEMMA UnlinkStep ==
  ASSUME HeapInv, NEW G, G \subseteq InHeap, Headed(G),
         queue' = QueueWithout(G), direct' = DirectWithout(G),
         rmin' \in 1..BinFull, rmax' \in 0..NBins, UNCHANGED <<mapped, exits>>
  PROVE  HeapInv'
<1>1. QueuesAreSound
  BY DEF HeapInv
<1>2. /\ queue' \in [Bins -> Seq(Pages)]
      /\ \A c \in Bins : IsInjective(queue'[c]) /\ Queued(c)' = Queued(c) \ G
  BY <1>1, UnlinkedQueues DEF Queued
<1>3. /\ direct' \in [SmallSizes -> Pages \cup {None}]
      /\ \A z \in SmallSizes : direct'[z] # None => direct'[z] \in Queued(SizeBin[z]) \ G
  BY <1>1, DirectKept
<1>4. DirectEntriesValid'
  BY <1>2, <1>3, SizeBins, ThreadHeapAssumption DEF DirectEntriesValid
<1>5. BinHuge \in Bins
  BY ThreadHeapAssumption DEF Bins, BinHuge
<1> PICK b \in Bins : b = BinHuge
  BY <1>5
<1> DEFINE E == {}
<1>6. Relinks(G, b, E)
  BY <1>2, <1>3, <1>4 DEF Relinks, Headed
<1> HIDE DEF E
<1> QED BY <1>6, Relink

\* The retired range is widened by a size class.
LEMMA RangeWidened ==
  ASSUME TypeOK, NEW S \in SUBSET SizeClasses
  PROVE  LowOf({rmin} \cup S) \in 1..BinFull /\ HighOf({rmax} \cup S) \in 0..NBins
<1>1. /\ NBins \in Nat /\ rmin \in 1..BinFull /\ rmax \in 0..NBins /\ BinFull = NBins + 2
      /\ S \subseteq 1..NBins
  BY ThreadHeapAssumption DEF TypeOK, BinFull, SizeClasses
<1>2. /\ {rmin} \cup S \in SUBSET (0..(NBins + 2)) /\ {rmax} \cup S \in SUBSET (0..(NBins + 2))
      /\ NBins + 2 \in Nat /\ {rmin} \cup S # {} /\ {rmax} \cup S # {}
      /\ {rmin} \cup S \subseteq 1..BinFull /\ {rmax} \cup S \subseteq 0..NBins
  BY <1>1
<1>3. LowOf({rmin} \cup S) \in {rmin} \cup S /\ HighOf({rmax} \cup S) \in {rmax} \cup S
  BY <1>2, Extremes
<1> QED BY <1>2, <1>3

LEMMA FreeOwnStep ==
  ASSUME HeapInv, NEW p \in Pages, FreeOwn(p)
  PROVE  HeapInv' /\ OneLife
<1>1. QueuesAreSound /\ TypeOK /\ DirectEntriesValid /\ OneCountdown
  BY DEF HeapInv, QueuesAreSound
<1>2. /\ p \in InHeap /\ page[p].bin # 0 /\ Sound(page[p]) /\ Lives(page[p]) > 0
      /\ page[p].bin \in Bins /\ p \in Queued(page[p].bin)
  BY <1>1, Facts, LivesAreNumbers DEF FreeOwn
<1>n. /\ page[p].used \in Nat /\ page[p].pend \in Nat /\ page[p].expire \in Nat
      /\ \A q \in Pages : Live(q) \in Nat /\ Live(q) = Lives(page[q])
  BY <1>1, <1>2, LivesAreNumbers DEF Sound, Headers
<1>3. PICK f : f = FreedLocal(page[p])
  OBVIOUS
<1>4. /\ Sound(f) /\ f.bin = page[p].bin /\ f.expire = page[p].expire
      /\ Lives(f) = Lives(page[p]) - 1 /\ f.used = page[p].used - 1
  BY <1>2, <1>3, FreedHeader
<1>5. CASE (page[p].used > 1 \/ page[p].expire # 0) /\ page' = [page EXCEPT ![p] = FreedLocal(@)]
           /\ UNCHANGED <<queue, direct, rmin, rmax>>
  <2>1. page' = [page EXCEPT ![p] = f] /\ UNCHANGED <<queue, direct, rmin, rmax, mapped, exits>>
    BY <1>3, <1>5 DEF FreeOwn
  <2>2. /\ direct' \in [SmallSizes -> Pages \cup {None}] /\ rmin' \in 1..BinFull /\ rmax' \in 0..NBins
        /\ DirectEntriesValid'
    BY <1>1, <2>1 DEF TypeOK, DirectEntriesValid, Queued
  <2>3. f.used = 0 => f.expire # 0
    BY <1>4, <1>5, <1>n
  <2>4. HeapInv' /\ \A q \in Pages : Live(q)' = IF q = p THEN Lives(f) ELSE Live(q)
    BY <1>2, <1>4, <2>1, <2>2, <2>3, HeaderStep
  <2>5. Lives(f) - Live(p) \in {-1, 0, 1}
    BY <1>4, <1>n
  <2> QED BY <1>n, <2>4, <2>5, LivesDiffer
<1>6. CASE /\ ~(page[p].used > 1 \/ page[p].expire # 0) /\ KeepsSole(page[p].bin)
           /\ page' = [page EXCEPT ![p] = [FreedLocal(@) EXCEPT !.expire = CyclesOf[page[p].bin]]]
           /\ rmin' = LowOf({rmin, page[p].bin}) /\ rmax' = HighOf({rmax, page[p].bin})
           /\ UNCHANGED <<queue, direct>>
  <2>1. PICK b : b = page[p].bin
    OBVIOUS
  <2>2. b \in SizeClasses /\ CyclesOf[b] \in Nat \ {0}
    BY <1>2, <1>6, <2>1, ThreadHeapAssumption DEF KeepsSole, SizeClasses, Bins, BinHuge
  <2>3. Queued(b) = {p}
    <3>1. queue[b] \in Seq(Pages) /\ Len(queue[b]) <= 1
      BY <1>1, <1>2, <1>6, <2>1, Facts DEF KeepsSole
    <3>2. DOMAIN queue[b] = 1..Len(queue[b]) /\ Len(queue[b]) \in Nat
      BY <3>1, LenProperties
    <3>3. p \in Queued(b)
      BY <1>2, <2>1
    <3>4. \A i, j \in 1..Len(queue[b]) : i = j
      BY <3>1, <3>2
    <3> QED BY <3>2, <3>3, <3>4 DEF Queued, ToSet
  <2>4. PICK r : r = [f EXCEPT !.expire = CyclesOf[b]]
    OBVIOUS
  <2>5. /\ Sound(r) /\ r.bin = page[p].bin /\ r.expire # 0 /\ Lives(r) = Lives(page[p]) - 1
    BY <1>2, <1>4, <2>2, <2>4, CountdownHeader
  <2>6. page' = [page EXCEPT ![p] = r] /\ UNCHANGED <<queue, direct, mapped, exits>>
    BY <1>3, <1>6, <2>1, <2>4 DEF FreeOwn
  <2>7. rmin' \in 1..BinFull /\ rmax' \in 0..NBins
    <3>1. {b} \in SUBSET SizeClasses
      BY <2>2
    <3>2. {rmin, b} = {rmin} \cup {b} /\ {rmax, b} = {rmax} \cup {b}
      OBVIOUS
    <3>3. LowOf({rmin} \cup {b}) \in 1..BinFull /\ HighOf({rmax} \cup {b}) \in 0..NBins
      BY <1>1, <3>1, RangeWidened
    <3> QED BY <1>6, <2>1, <3>2, <3>3
  <2>8. direct' \in [SmallSizes -> Pages \cup {None}] /\ DirectEntriesValid'
    BY <1>1, <2>6 DEF TypeOK, DirectEntriesValid, Queued
  <2>9. HeapInv' /\ \A q \in Pages : Live(q)' = IF q = p THEN Lives(r) ELSE Live(q)
    BY <1>2, <2>1, <2>3, <2>5, <2>6, <2>7, <2>8, HeaderStep
  <2>10. Lives(r) - Live(p) \in {-1, 0, 1}
    BY <2>5, <1>n
  <2> QED BY <1>n, <2>9, <2>10, LivesDiffer
<1>7. CASE /\ ~(page[p].used > 1 \/ page[p].expire # 0) /\ ~KeepsSole(page[p].bin)
           /\ queue' = QueueWithout({p}) /\ direct' = DirectWithout({p})
           /\ page' = Released({p}, page) /\ UNCHANGED <<rmin, rmax>>
  <2>1. PICK G : G = {p}
    OBVIOUS
  <2>2. page' = [q \in Pages |-> IF q = p THEN NoPage ELSE page[q]]
    BY <1>7 DEF Released
  <2>3. Headed(G)
    <3>1. page' \in [Pages -> Headers]
      BY <1>1, <2>2, NoPageIsSound, Facts DEF Sound
    <3>2. \A q \in InHeap \ G : page'[q] = page[q] /\ Sound(page[q])
      BY <1>1, <2>1, <2>2, Facts
    <3>3. \A q \in Pages \ InHeap : page'[q] = page[q]
      BY <1>2, <2>2
    <3>4. exits = 0 => \A c \in Bins : \A x, y \in Queued(c) \ G :
                        page'[x].expire # 0 /\ page'[y].expire # 0 => x = y
      BY <1>1, <2>1, <2>2, Facts DEF OneCountdown
    <3>5. \A q \in G : page'[q] = NoPage
      BY <2>1, <2>2
    <3> QED BY <1>1, <3>1, <3>2, <3>3, <3>4, <3>5 DEF Headed, OneCountdown
  <2>4. UNCHANGED <<mapped, exits>>
    BY DEF FreeOwn
  <2>5. rmin' \in 1..BinFull /\ rmax' \in 0..NBins
    BY <1>1, <1>7 DEF TypeOK
  <2>6. HeapInv'
    BY <1>2, <1>7, <2>1, <2>3, <2>4, <2>5, UnlinkStep
  <2>7. Lives(page[p]) = 1
    <3>1. page[p].used <= 1 /\ page[p].used - page[p].pend > 0
      BY <1>2, <1>7, <1>n DEF Lives
    <3> QED BY <1>n, <3>1 DEF Lives
  <2>8. \A q \in Pages : Live(q)' = IF q = p THEN 0 ELSE Live(q)
    BY <2>2, NoPageIsSound DEF Live, Lives
  <2>9. 0 - Live(p) \in {-1, 0, 1}
    BY <2>7, <1>n
  <2> QED BY <1>n, <2>6, <2>8, <2>9, LivesDiffer
<1> QED BY <1>5, <1>6, <1>7 DEF FreeOwn

\* The fast path refilled with the page a slow allocation puts in front.
LEMMA DirectRefilled ==
  ASSUME QueuesAreSound, NEW G, NEW z \in Sizes, NEW p \in Pages,
         direct' = DirectSet(DirectWithout(G), z, p),
         \A c \in Bins : Queued(c)' = (Queued(c) \ G) \cup (IF c = SizeBin[z] THEN {p} ELSE {})
  PROVE  direct' \in [SmallSizes -> Pages \cup {None}] /\ DirectEntriesValid'
<1> DEFINE d == DirectWithout(G)
<1>1. /\ d \in [SmallSizes -> Pages \cup {None}]
      /\ \A y \in SmallSizes : d[y] # None => d[y] \in Queued(SizeBin[y]) \ G
  BY DirectKept
<1>2. direct' = DirectSet(d, z, p)
  OBVIOUS
<1> HIDE DEF d
<1>3. direct' \in [SmallSizes -> Pages \cup {None}]
  BY <1>1, <1>2 DEF DirectSet
<1>4. \A y \in SmallSizes : direct'[y] = d[y] \/ (y = z /\ direct'[y] = p)
  BY <1>1, <1>2 DEF DirectSet
<1>5. \A y \in SmallSizes : SizeBin[y] \in Bins
  BY SizeBins, ThreadHeapAssumption
<1>6. \A y \in SmallSizes : direct'[y] # None => direct'[y] \in Queued(SizeBin[y])'
  BY <1>1, <1>4, <1>5
<1> QED BY <1>3, <1>6 DEF DirectEntriesValid

LEMMA NothingCleared == ASSUME QueuesAreSound PROVE DirectWithout({}) = direct
BY DEF QueuesAreSound, TypeOK, DirectWithout

\* A page outside the heap is put in front of a queue, its header changed.
LEMMA LinkStep ==
  ASSUME HeapInv, NEW b \in Bins, NEW p \in Pages, p \notin InHeap,
         NEW r, Sound(r), r.bin = b, exits = 0 => r.used # 0 /\ r.expire = 0,
         queue' = [queue EXCEPT ![b] = <<p>> \o @], page' = [page EXCEPT ![p] = r],
         mapped' = mapped \ {p}, UNCHANGED <<rmin, rmax, exits>>,
         direct' \in [SmallSizes -> Pages \cup {None}], DirectEntriesValid'
  PROVE  HeapInv' /\ \A q \in Pages : Live(q)' = IF q = p THEN Lives(r) ELSE Live(q)
<1>1. QueuesAreSound /\ OneCountdown /\ TypeOK
  BY DEF HeapInv, QueuesAreSound
<1>2. /\ page \in [Pages -> Headers] /\ \A q \in Pages : Sound(page[q])
      /\ queue \in [Bins -> Seq(Pages)] /\ \A c \in Bins : IsInjective(queue[c])
      /\ \A c \in Bins : \A q \in Queued(c) : q \in InHeap
      /\ \A q \in InHeap : q \in Pages
  BY <1>1, Facts
<1>3. /\ queue' \in [Bins -> Seq(Pages)]
      /\ \A c \in Bins : /\ IsInjective(queue'[c])
                         /\ Queued(c)' = Queued(c) \cup (IF c = b THEN {p} ELSE {})
  <2>1. p \notin ToSet(queue[b])
    BY <1>2 DEF Queued
  <2>2. PICK R : R = [queue EXCEPT ![b] = <<p>> \o @]
    OBVIOUS
  <2>3. /\ R \in [Bins -> Seq(Pages)]
        /\ \A c \in Bins : /\ IsInjective(R[c])
                           /\ ToSet(R[c]) = ToSet(queue[c]) \cup (IF c = b THEN {p} ELSE {})
    <3>1. queue \in [Bins -> Seq(Pages)] /\ (\A c \in Bins : IsInjective(queue[c]))
          /\ b \in Bins /\ p \in Pages
      BY <1>2
    <3> QED BY ONLY <3>1, <2>1, <2>2, FrontOfQueue
  <2>4. queue' = R
    BY <2>2
  <2> QED BY <2>3, <2>4 DEF Queued
<1>4. page' \in [Pages -> Headers] /\ page'[p] = r /\ \A q \in Pages \ {p} : page'[q] = page[q]
  BY <1>2 DEF Sound
<1>5. rmin' \in 1..BinFull /\ rmax' \in 0..NBins
  BY <1>1 DEF TypeOK
<1>6. \A q \in InHeap : page'[q] = page[q] /\ Sound(page[q])
  BY <1>2, <1>4
<1>7. exits = 0 => /\ \A q \in InHeap : page[q].used = 0 => page[q].expire # 0
                   /\ \A c \in Bins : \A q, u \in Queued(c) :
                        page[q].expire # 0 /\ page[u].expire # 0 => q = u
  BY <1>1 DEF OneCountdown
<1>8. HeapInv'
  <2> DEFINE E == {}
             N == {p}
  <2>1. \A c \in Bins : Queued(c)' = (Queued(c) \ E) \cup (IF c = b THEN N ELSE {})
    BY <1>3
  <2>2. E \subseteq InHeap /\ N \subseteq Pages /\ N \cap (InHeap \ E) = {}
    OBVIOUS
  <2>3. \A q \in N : q = p
    OBVIOUS
  <2>4. \A q \in Pages \ (InHeap \cup N) : page'[q] = page[q]
    BY <1>4
  <2>5. mapped' = mapped \ N /\ \A q \in E \ N : page'[q] = NoPage
    OBVIOUS
  <2>6. \A c \in Bins : \A q \in Queued(c) \ E : q \in InHeap
    BY <1>2
  <2> HIDE DEF E, N
  <2>8. exits = 0 => \A c \in Bins : \A q, u \in Queued(c) \ E :
                    page'[q].expire # 0 /\ page'[u].expire # 0 => q = u
    BY <1>6, <1>7, <2>6
  <2>7. Relinks(E, b, N)
    BY <1>3, <1>4, <1>5, <1>6, <1>7, <2>1, <2>2, <2>3, <2>4, <2>5, <2>8 DEF Relinks
  <2> QED BY <2>7, Relink
<1>9. \A q \in Pages : Live(q)' = IF q = p THEN Lives(r) ELSE Live(q)
  BY <1>4 DEF Live, Lives
<1> QED BY <1>8, <1>9

LEMMA AllocReclaimStep ==
  ASSUME HeapInv, NEW z \in Sizes, AllocReclaim(z)
  PROVE  HeapInv' /\ OneLife
<1>1. QueuesAreSound /\ TypeOK /\ OneCountdown
  BY DEF HeapInv, QueuesAreSound
<1>2. PICK b \in Bins : b = SizeBin[z]
  BY SizeBins
<1>3. PICK p \in mapped :
        /\ page[p].bin = b /\ mapped' = mapped \ {p}
        /\ queue' = [queue EXCEPT ![b] = <<p>> \o @]
        /\ page' = [page EXCEPT ![p] = Popped(Collected(@))]
        /\ direct' = DirectSet(direct, z, p) /\ UNCHANGED <<rmin, rmax, exits>>
  BY <1>2 DEF AllocReclaim
<1>4. p \in Pages /\ p \notin InHeap /\ page[p].bin # 0 /\ CanAlloc(page[p]) /\ Sound(page[p])
  BY <1>1, Facts
<1>5. exits # 0
  BY <1>1, <1>4 DEF OneCountdown, AbandonedPages, Allocated
<1>6. PICK c : c = Collected(page[p])
  OBVIOUS
<1>7. /\ Sound(c) /\ c.bin = page[p].bin /\ Lives(c) = Lives(page[p]) /\ c.pend = 0
      /\ c.local = 0 /\ c.avail > 0
  BY <1>4, <1>6, CollectedHeader DEF CanAlloc
<1>8. CanAlloc(c)
  <2>1. Collected(c).avail = c.avail + c.local + c.pend /\ c.avail \in Nat
    BY <1>4, <1>7, CollectedHeader DEF Sound, Headers
  <2> QED BY <1>7, <2>1 DEF CanAlloc
<1>9. PICK r : r = Popped(c)
  OBVIOUS
<1>10. Sound(r) /\ r.bin = b /\ Lives(r) = Lives(page[p]) + 1
  BY <1>3, <1>4, <1>7, <1>8, <1>9, PoppedHeader
<1>11. page' = [page EXCEPT ![p] = r]
  BY <1>3, <1>6, <1>9
<1>12. direct' \in [SmallSizes -> Pages \cup {None}] /\ DirectEntriesValid'
  <2>1. \A c1 \in Bins : Queued(c1)' = Queued(c1) \cup (IF c1 = b THEN {p} ELSE {})
    <3>1. /\ queue \in [Bins -> Seq(Pages)] /\ \A c1 \in Bins : IsInjective(queue[c1])
          /\ \A c1 \in Bins : \A q \in Queued(c1) : q \in InHeap
      BY <1>1, Facts
    <3>2. p \notin ToSet(queue[b])
      BY <1>4, <3>1 DEF Queued
    <3> QED BY <1>3, <1>4, <3>1, <3>2, FrontOfQueue DEF Queued
  <2> DEFINE E == {}
  <2>2. direct' = DirectSet(DirectWithout(E), z, p)
    BY <1>1, <1>3, NothingCleared
  <2>3. \A c1 \in Bins : Queued(c1)' = (Queued(c1) \ E) \cup (IF c1 = SizeBin[z] THEN {p} ELSE {})
    BY <1>2, <2>1
  <2> HIDE DEF E
  <2> QED BY <1>1, <1>4, <2>2, <2>3, DirectRefilled
<1>13. HeapInv' /\ \A q \in Pages : Live(q)' = IF q = p THEN Lives(r) ELSE Live(q)
  BY <1>3, <1>4, <1>5, <1>10, <1>11, <1>12, LinkStep
<1>14. \A q \in Pages : Live(q) \in Nat /\ Live(q) = Lives(page[q])
  BY <1>1, LivesAreNumbers
<1>15. Lives(r) - Live(p) \in {-1, 0, 1}
  BY <1>4, <1>10, <1>14
<1> QED BY <1>13, <1>14, <1>15, LivesDiffer

LEMMA AllocHugeStep ==
  ASSUME HeapInv, AllocHuge
  PROVE  HeapInv' /\ OneLife
<1>1. QueuesAreSound /\ TypeOK /\ DirectEntriesValid
  BY DEF HeapInv, QueuesAreSound
<1>2. PICK b \in Bins : b = BinHuge /\ CapOf(b) = 1
  BY ThreadHeapAssumption DEF Bins, BinHuge, CapOf
<1>3. PICK p \in Pages \ Allocated :
        /\ queue' = [queue EXCEPT ![b] = <<p>> \o @]
        /\ page' = [page EXCEPT ![p] = Popped(Header(BinHuge, 1))]
        /\ UNCHANGED <<direct, rmin, rmax, mapped, exits>>
  BY <1>2 DEF AllocHuge
<1>4. p \in Pages /\ page[p].bin = 0 /\ p \notin InHeap /\ p \notin mapped /\ page[p] = NoPage
  BY <1>1, <1>3, Facts DEF Allocated, Sound
<1>5. PICK r : r = Popped(Header(b, CapOf(b)))
  OBVIOUS
<1>6. Sound(r) /\ r.bin = b /\ r.expire = 0 /\ r.used # 0 /\ Lives(r) = 1
  BY <1>5, CarvedHeader
<1>7. page' = [page EXCEPT ![p] = r] /\ mapped' = mapped \ {p}
  BY <1>2, <1>3, <1>4, <1>5
<1>8. direct' \in [SmallSizes -> Pages \cup {None}] /\ DirectEntriesValid'
  <2>1. /\ queue \in [Bins -> Seq(Pages)] /\ \A c \in Bins : IsInjective(queue[c])
        /\ \A c \in Bins : \A q \in Queued(c) : q \in InHeap
    BY <1>1, Facts
  <2>2. p \notin ToSet(queue[b])
    BY <1>4, <2>1 DEF Queued
  <2>6. PICK R : R = [queue EXCEPT ![b] = <<p>> \o @]
    OBVIOUS
  <2>7. \A c \in Bins : ToSet(R[c]) = ToSet(queue[c]) \cup (IF c = b THEN {p} ELSE {})
    BY <1>4, <2>1, <2>2, <2>6, FrontOfQueue
  <2>3. \A c \in Bins : Queued(c) \subseteq Queued(c)'
    BY <1>3, <2>6, <2>7 DEF Queued
  <2>4. \A y \in SmallSizes : SizeBin[y] \in Bins
    BY SizeBins, ThreadHeapAssumption
  <2>5. \A y \in SmallSizes : direct[y] # None => direct[y] \in Queued(SizeBin[y])'
    BY <1>1, <2>3, <2>4 DEF DirectEntriesValid
  <2> QED BY <1>1, <1>3, <2>5 DEF DirectEntriesValid, TypeOK
<1>9. HeapInv' /\ \A q \in Pages : Live(q)' = IF q = p THEN Lives(r) ELSE Live(q)
  <2>1. UNCHANGED <<rmin, rmax, exits>> /\ queue' = [queue EXCEPT ![b] = <<p>> \o @]
    BY <1>3
  <2>2. p \in Pages /\ p \notin InHeap /\ b \in Bins /\ (exits = 0 => r.used # 0 /\ r.expire = 0)
    BY <1>4, <1>6
  <2> QED BY <2>2, <1>6, <1>7, <1>8, <2>1, LinkStep
<1>10. \A q \in Pages : Live(q) \in Nat /\ Live(q) = Lives(page[q])
  BY <1>1, LivesAreNumbers
<1>11. Lives(r) - Live(p) \in {-1, 0, 1}
  BY <1>4, <1>6, <1>10, NoPageIsSound
<1> QED BY <1>9, <1>10, <1>11, LivesDiffer

\* What collect_retired(false) looks at and where the range is left.
LEMMA SweptPages ==
  ASSUME QueuesAreSound
  PROVE  /\ \A p \in Swept : p \in InHeap /\ page[p].expire # 0
         /\ Expired \subseteq Swept
         /\ LowOf(StillRetired) \in 1..BinFull /\ HighOf(StillRetired) \in 0..NBins
<1>1. /\ NBins \in Nat \ {0} /\ rmin \in 1..BinFull /\ rmax \in 0..NBins /\ BinFull = NBins + 2
      /\ SizeClasses = 1..NBins /\ Bins = 1..(NBins + 1)
  BY ThreadHeapAssumption DEF QueuesAreSound, TypeOK, BinFull, SizeClasses, Bins, BinHuge
<1>2. SweptBins \subseteq 1..NBins
  <2>1. \A b \in rmin..rmax : b \in 1..NBins
    BY <1>1
  <2> QED BY <2>1 DEF SweptBins
<1>3. ASSUME NEW b \in SweptBins PROVE queue[b][1] \in InHeap /\ page[queue[b][1]].expire # 0
  <2>1. b \in Bins /\ queue[b] # <<>> /\ page[queue[b][1]].expire # 0
    BY <1>1, <1>2 DEF SweptBins
  <2>2. queue[b] \in Seq(Pages)
    BY <2>1, Facts
  <2>3. queue[b][1] \in Queued(b)
    <3>1. PICK n : n = Len(queue[b])
      OBVIOUS
    <3>2. n \in Nat /\ n # 0 /\ DOMAIN queue[b] = 1..n
      BY <2>1, <2>2, <3>1, LenProperties, EmptySeq
    <3>3. 1 \in 1..n
      BY <3>2
    <3> QED BY <3>2, <3>3 DEF Queued, ToSet
  <2> QED BY <2>1, <2>3, Facts
<1>4. /\ \A p \in Swept : p \in InHeap /\ page[p].expire # 0
      /\ Expired \subseteq Swept
  BY <1>3 DEF Swept, Expired
<1>5. StillRetired \subseteq 1..NBins
  BY <1>2 DEF StillRetired
<1>6. CASE StillRetired = {}
  <2>1. LowOf(StillRetired) = BinFull /\ HighOf(StillRetired) = 0
    BY <1>6 DEF LowOf, HighOf
  <2> QED BY <1>1, <1>4, <2>1
<1>7. CASE StillRetired # {}
  <2>1. StillRetired \in SUBSET (0..NBins) /\ NBins \in Nat
    BY <1>1, <1>5
  <2>2. LowOf(StillRetired) \in StillRetired /\ HighOf(StillRetired) \in StillRetired
    BY <1>7, <2>1, Extremes
  <2>3. LowOf(StillRetired) \in 1..NBins /\ HighOf(StillRetired) \in 1..NBins
    BY <1>5, <2>2
  <2>4. LowOf(StillRetired) \in 1..BinFull /\ HighOf(StillRetired) \in 0..NBins
    BY <1>1, <2>3
  <2> QED BY <1>4, <2>4
<1> QED BY <1>6, <1>7

\* The headers a sweep leaves: only pages without a block in use are
\* released, and no countdown is started.
LEMMA SweptHeaders ==
  ASSUME HeapInv
  PROVE  /\ PageSwept \in [Pages -> Headers]
         /\ \A p \in Expired : PageSwept[p] = NoPage /\ p \in InHeap
         /\ \A p \in InHeap \ Expired :
              /\ Sound(PageSwept[p]) /\ PageSwept[p].bin = page[p].bin
              /\ exits = 0 /\ PageSwept[p].used = 0 => PageSwept[p].expire # 0
              /\ PageSwept[p].expire # 0 => page[p].expire # 0
         /\ \A p \in Pages \ InHeap : PageSwept[p] = page[p]
         /\ \A p \in Pages : Lives(PageSwept[p]) = Lives(page[p])
<1>1. QueuesAreSound /\ OneCountdown
  BY DEF HeapInv
<1>2. /\ page \in [Pages -> Headers] /\ \A p \in Pages : Sound(page[p])
      /\ \A p \in InHeap : p \in Pages /\ page[p].bin # 0
  BY <1>1, Facts
<1>3. /\ \A p \in Swept : p \in InHeap /\ page[p].expire # 0
      /\ Expired \subseteq Swept
  BY <1>1, SweptPages
<1>4. ASSUME NEW p \in Expired
      PROVE  PageSwept[p] = NoPage /\ p \in InHeap /\ Lives(PageSwept[p]) = Lives(page[p])
  <2>1. p \in InHeap /\ p \in Pages /\ PageSwept[p] = NoPage /\ page[p].used = 0
    BY <1>2, <1>3 DEF PageSwept, Expired
  <2>2. page[p].pend \in Nat /\ page[p].pend <= page[p].used
    BY <1>2, <2>1 DEF Sound, Headers
  <2>3. Lives(page[p]) = 0
    BY <2>1, <2>2 DEF Lives
  <2> QED BY <2>1, <2>3, NoPageIsSound
<1>5. ASSUME NEW p \in Swept \ Expired
      PROVE  /\ Sound(PageSwept[p]) /\ PageSwept[p].bin = page[p].bin
             /\ PageSwept[p].used = 0 => PageSwept[p].expire # 0
             /\ page[p].expire # 0 /\ Lives(PageSwept[p]) = Lives(page[p])
  <2>1. p \in Pages /\ page[p].expire # 0 /\ page[p].bin # 0 /\ Sound(page[p])
    BY <1>2, <1>3
  <2>2. page[p].expire \in Nat /\ page[p].used \in Nat
    BY <2>1 DEF Sound, Headers
  <2>3. page[p].used = 0 => page[p].expire # 1
    BY <1>5 DEF Expired
  <2>4. PICK e : e = IF page[p].used = 0 THEN page[p].expire - 1 ELSE 0
    OBVIOUS
  <2>5. e \in Nat /\ (page[p].used = 0 => e # 0)
    BY <2>1, <2>2, <2>3, <2>4
  <2>6. PICK r : r = [page[p] EXCEPT !.expire = e]
    OBVIOUS
  <2>7. PageSwept[p] = r
    BY <1>5, <2>1, <2>4, <2>6 DEF PageSwept
  <2>8. Sound(r) /\ r.bin = page[p].bin /\ r.expire = e /\ Lives(r) = Lives(page[p])
        /\ r.used = page[p].used
    BY <2>1, <2>5, <2>6, CountdownHeader
  <2> QED BY <2>1, <2>5, <2>7, <2>8
<1>6. \A p \in Pages \ Swept : PageSwept[p] = page[p]
  BY <1>3 DEF PageSwept
<1>7. PageSwept \in [Pages -> Headers]
  <2>1. \A p \in Pages : PageSwept[p] \in Headers
    BY <1>2, <1>4, <1>5, <1>6, NoPageIsSound DEF Sound
  <2>2. PageSwept = [p \in Pages |-> PageSwept[p]]
    BY DEF PageSwept
  <2> HIDE DEF PageSwept
  <2> QED BY <2>1, <2>2
<1>8. ASSUME NEW p \in InHeap \ Expired
      PROVE  /\ Sound(PageSwept[p]) /\ PageSwept[p].bin = page[p].bin
             /\ exits = 0 /\ PageSwept[p].used = 0 => PageSwept[p].expire # 0
             /\ PageSwept[p].expire # 0 => page[p].expire # 0
  <2>1. CASE p \in Swept
    BY <1>5, <2>1
  <2>2. CASE p \notin Swept
    BY <1>1, <1>2, <1>6, <2>2 DEF OneCountdown
  <2> QED BY <2>1, <2>2
<1>9. \A p \in Pages \ InHeap : PageSwept[p] = page[p]
  BY <1>3, <1>6
<1>10. \A p \in Pages : Lives(PageSwept[p]) = Lives(page[p])
  BY <1>4, <1>5, <1>6
<1> HIDE DEF PageSwept
<1> QED BY <1>4, <1>7, <1>8, <1>9, <1>10

LEMMA AllocNewStep ==
  ASSUME HeapInv, NEW z \in Sizes, AllocNew(z)
  PROVE  HeapInv' /\ OneLife
<1>1. QueuesAreSound /\ TypeOK /\ OneCountdown
  BY DEF HeapInv, QueuesAreSound
<1>2. PICK b \in Bins : b = SizeBin[z] /\ CapOf(b) = Cap
  BY SizeBins
<1>3. PICK G : G = Expired
  OBVIOUS
<1>4. PICK pg : pg = PageSwept
  OBVIOUS
<1>5. /\ pg \in [Pages -> Headers]
      /\ \A p \in G : pg[p] = NoPage /\ p \in InHeap
      /\ \A p \in InHeap \ G :
           /\ Sound(pg[p]) /\ pg[p].bin = page[p].bin
           /\ exits = 0 /\ pg[p].used = 0 => pg[p].expire # 0
           /\ pg[p].expire # 0 => page[p].expire # 0
      /\ \A p \in Pages \ InHeap : pg[p] = page[p]
      /\ \A p \in Pages : Lives(pg[p]) = Lives(page[p])
  BY <1>3, <1>4, SweptHeaders
<1>6. rmin' \in 1..BinFull /\ rmax' \in 0..NBins
  BY <1>1, SweptPages DEF AllocNew
<1>7. UNCHANGED <<mapped, exits>>
  BY DEF AllocNew
<1>8. /\ \A p \in InHeap : p \in Pages /\ page[p].bin # 0
      /\ \A c \in Bins : \A p \in Queued(c) : p \in InHeap
      /\ \A p \in mapped : p \in Pages /\ p \notin InHeap /\ page[p].bin # 0
      /\ \A p \in Pages : Sound(page[p])
  BY <1>1, Facts
<1>9. exits = 0 => \A c \in Bins : \A p, q \in Queued(c) \ G :
                     pg[p].expire # 0 /\ pg[q].expire # 0 => p = q
  BY <1>1, <1>5, <1>8 DEF OneCountdown
<1>10. \A q \in Pages : Live(q) \in Nat /\ Live(q) = Lives(page[q])
  BY <1>1, LivesAreNumbers
<1>11. CASE /\ queue' = QueueWithout(Expired) /\ direct' = DirectWithout(Expired)
            /\ page' = PageSwept
  <2>1. Headed(G)
    BY <1>4, <1>5, <1>9, <1>11 DEF Headed
  <2>2. HeapInv'
    BY <1>3, <1>5, <1>6, <1>7, <1>11, <2>1, UnlinkStep
  <2>3. \A q \in Pages : Live(q)' = Live(q)
    BY <1>4, <1>5, <1>10, <1>11 DEF Live, Lives
  <2>4. \A q \in Pages : Live(q)' - Live(q) = 0
    BY <1>10, <2>3
  <2> QED BY <2>2, <2>3, <2>4 DEF OneLife
<1>12. ASSUME NEW p \in (Pages \ Allocated) \cup Expired,
              queue' = [QueueWithout(Expired) EXCEPT ![b] = <<p>> \o @],
              direct' = DirectSet(DirectWithout(Expired), z, p),
              page' = [PageSwept EXCEPT ![p] = Popped(Header(b, Cap))]
       PROVE  HeapInv' /\ OneLife
  <2>1. p \in Pages /\ (p \in InHeap => p \in G) /\ p \notin mapped /\ Lives(page[p]) = 0
    <3>1. CASE p \in Expired
      BY <1>3, <1>5, <1>8, <3>1, NoPageIsSound
    <3>2. CASE p \in Pages \ Allocated
      BY <1>8, <3>2, NoPageIsSound DEF Allocated, Sound
    <3> QED BY <3>1, <3>2
  <2>2. PICK r : r = Popped(Header(b, CapOf(b)))
    OBVIOUS
  <2>3. Sound(r) /\ r.bin = b /\ r.expire = 0 /\ r.used # 0 /\ Lives(r) = 1
    BY <2>2, CarvedHeader
  <2>4. page' = [pg EXCEPT ![p] = r]
    BY <1>2, <1>4, <1>12, <2>2
  <2>5. page' \in [Pages -> Headers] /\ page'[p] = r /\ \A q \in Pages \ {p} : page'[q] = pg[q]
    BY <1>5, <2>1, <2>3, <2>4 DEF Sound
  <2>6. /\ queue' \in [Bins -> Seq(Pages)]
        /\ \A c \in Bins : /\ IsInjective(queue'[c])
                           /\ Queued(c)' = (Queued(c) \ G) \cup (IF c = b THEN {p} ELSE {})
    <3>1. PICK Q : Q = QueueWithout(G)
      OBVIOUS
    <3>2. /\ Q \in [Bins -> Seq(Pages)]
          /\ \A c \in Bins : IsInjective(Q[c]) /\ ToSet(Q[c]) = Queued(c) \ G
      BY <1>1, <3>1, UnlinkedQueues
    <3>3. p \notin ToSet(Q[b]) /\ b \in Bins /\ p \in Pages
      BY <1>8, <2>1, <3>2
    <3>4. PICK R : R = [Q EXCEPT ![b] = <<p>> \o @]
      OBVIOUS
    <3>5. /\ R \in [Bins -> Seq(Pages)]
          /\ \A c \in Bins : /\ IsInjective(R[c])
                             /\ ToSet(R[c]) = ToSet(Q[c]) \cup (IF c = b THEN {p} ELSE {})
      BY ONLY <3>2, <3>3, <3>4, FrontOfQueue
    <3>6. queue' = R
      BY <1>3, <1>12, <3>1, <3>4
    <3> QED BY <3>2, <3>5, <3>6 DEF Queued
  <2>7. direct' \in [SmallSizes -> Pages \cup {None}] /\ DirectEntriesValid'
    <3>1. \A c \in Bins : Queued(c)' = (Queued(c) \ G) \cup (IF c = SizeBin[z] THEN {p} ELSE {})
      BY <1>2, <2>6
    <3> QED BY <1>1, <1>3, <1>12, <2>1, <3>1, DirectRefilled
  <2>8. HeapInv'
    <3> PICK N : N = {p}
      OBVIOUS
    <3>1. \A c \in Bins : Queued(c)' = (Queued(c) \ G) \cup (IF c = b THEN N ELSE {})
      BY <2>6
    <3>2. G \subseteq InHeap /\ N \subseteq Pages /\ N \cap (InHeap \ G) = {} /\ mapped' = mapped \ N
      BY <1>5, <1>7, <2>1
    <3>3. \A q \in N : /\ Sound(page'[q]) /\ page'[q].bin = b
                       /\ page'[q].used # 0 /\ page'[q].expire = 0
      BY <2>3, <2>5
    <3>4. \A q \in Pages \ N : page'[q] = pg[q]
      BY <2>5
    <3>5. \A q \in InHeap \ G : page'[q] = pg[q]
      BY <1>8, <3>2, <3>4
    <3>6. \A q \in G \ N : page'[q] = NoPage
      BY <1>5, <1>8, <3>4
    <3>7. \A q \in Pages \ (InHeap \cup N) : page'[q] = page[q]
      BY <1>5, <3>4
    <3>8. exits = 0 => \A c \in Bins : \A x, y \in Queued(c) \ G :
                     page'[x].expire # 0 /\ page'[y].expire # 0 => x = y
      BY <1>8, <1>9, <3>5
    <3>9. Relinks(G, b, N)
      BY <1>5, <1>6, <1>7, <2>5, <2>6, <2>7, <3>1, <3>2, <3>3, <3>5, <3>6, <3>7, <3>8 DEF Relinks
    <3> QED BY <3>9, Relink
  <2>9. \A q \in Pages : Live(q)' = IF q = p THEN 1 ELSE Live(q)
    <3>1. \A q \in Pages : Live(q)' = Lives(page'[q])
      BY DEF Live, Lives
    <3> QED BY <1>5, <1>10, <2>3, <2>5, <3>1
  <2>10. 1 - Live(p) \in {-1, 0, 1}
    BY <1>10, <2>1
  <2> QED BY <1>10, <2>8, <2>9, <2>10, LivesDiffer
<1> QED BY <1>2, <1>11, <1>12 DEF AllocNew

\* The headers after every page of the heap is collected.
LEMMA CollectedPages ==
  ASSUME QueuesAreSound
  PROVE  /\ PageCollected \in [Pages -> Headers]
         /\ \A p \in InHeap : LET c == PageCollected[p] IN
              /\ Sound(c) /\ c.bin = page[p].bin /\ c.bin # 0 /\ c.expire = page[p].expire
              /\ Lives(c) = Live(p) /\ c.used = Live(p)
         /\ \A p \in Pages \ InHeap : PageCollected[p] = page[p]
         /\ \A p \in Empty : p \in InHeap /\ Live(p) = 0
<1>1. /\ page \in [Pages -> Headers] /\ \A p \in Pages : Sound(page[p])
      /\ \A p \in InHeap : p \in Pages /\ page[p].bin # 0
  BY Facts
<1>2. \A q \in Pages : Live(q) \in Nat /\ Live(q) = Lives(page[q])
  BY LivesAreNumbers
<1>3. ASSUME NEW p \in InHeap
      PROVE  LET c == PageCollected[p] IN
             /\ Sound(c) /\ c.bin = page[p].bin /\ c.bin # 0 /\ c.expire = page[p].expire
             /\ Lives(c) = Live(p) /\ c.used = Live(p)
  <2>1. PICK c : c = Collected(page[p])
    OBVIOUS
  <2>2. PageCollected[p] = c /\ Sound(page[p]) /\ page[p].bin # 0 /\ Live(p) = Lives(page[p])
    BY <1>1, <1>2, <2>1 DEF PageCollected
  <2>3. Sound(c) /\ c.bin = page[p].bin /\ c.expire = page[p].expire
        /\ Lives(c) = Lives(page[p]) /\ c.used = Lives(page[p])
    BY <2>1, <2>2, CollectedHeader
  <2> QED BY <2>2, <2>3
<1>4. \A p \in Pages \ InHeap : PageCollected[p] = page[p]
  BY DEF PageCollected
<1>5. PageCollected \in [Pages -> Headers]
  <2>1. \A p \in Pages : PageCollected[p] \in Headers
    BY <1>1, <1>3, <1>4 DEF Sound
  <2>2. PageCollected = [p \in Pages |-> PageCollected[p]]
    BY DEF PageCollected
  <2> HIDE DEF PageCollected
  <2> QED BY <2>1, <2>2
<1>6. \A p \in Empty : p \in InHeap /\ Live(p) = 0
  BY DEF Empty
<1> HIDE DEF PageCollected
<1> QED BY <1>3, <1>4, <1>5, <1>6

LEMMA CollectForceStep ==
  ASSUME HeapInv, CollectForce
  PROVE  HeapInv' /\ OneLife
<1>1. QueuesAreSound /\ TypeOK /\ OneCountdown
  BY DEF HeapInv, QueuesAreSound
<1>2. PICK G : G = Empty
  OBVIOUS
<1>3. PICK pg : pg = PageCollected
  OBVIOUS
<1>4. /\ pg \in [Pages -> Headers]
      /\ \A p \in InHeap : /\ Sound(pg[p]) /\ pg[p].bin = page[p].bin
                           /\ pg[p].expire = page[p].expire
                           /\ Lives(pg[p]) = Live(p) /\ pg[p].used = Live(p)
      /\ \A p \in Pages \ InHeap : pg[p] = page[p]
      /\ \A p \in G : p \in InHeap /\ Live(p) = 0
      /\ \A p \in InHeap \ G : Live(p) # 0
  BY <1>1, <1>2, <1>3, CollectedPages DEF Empty
<1>5. /\ queue' = QueueWithout(G) /\ direct' = DirectWithout(G)
      /\ page' = [p \in Pages |-> IF p \in G THEN NoPage ELSE pg[p]]
      /\ UNCHANGED <<mapped, exits>>
  BY <1>2, <1>3 DEF CollectForce, Released
<1>6. rmin' \in 1..BinFull /\ rmax' \in 0..NBins
  BY ThreadHeapAssumption DEF CollectForce, BinFull
<1>7. /\ \A p \in InHeap : p \in Pages
      /\ \A c \in Bins : \A p \in Queued(c) : p \in InHeap
  BY <1>1, Facts
<1>8. Headed(G)
  <2>1. page' \in [Pages -> Headers]
    BY <1>4, <1>5, NoPageIsSound DEF Sound
  <2>2. \A p \in G : page'[p] = NoPage
    BY <1>4, <1>5, <1>7
  <2>3. \A p \in InHeap \ G : page'[p] = pg[p]
    BY <1>5, <1>7
  <2>4. \A p \in Pages \ InHeap : page'[p] = page[p]
    BY <1>4, <1>5
  <2>5. exits = 0 => \A c \in Bins : \A p, q \in Queued(c) \ G :
                       page'[p].expire # 0 /\ page'[q].expire # 0 => p = q
    BY <1>1, <1>4, <1>7, <2>3 DEF OneCountdown
  <2> QED BY <1>4, <2>1, <2>2, <2>3, <2>4, <2>5 DEF Headed
<1>9. HeapInv'
  BY <1>4, <1>5, <1>6, <1>8, UnlinkStep
<1>10. \A q \in Pages : Live(q) \in Nat /\ Live(q) = Lives(page[q])
  BY <1>1, LivesAreNumbers
<1>11. \A q \in Pages : Live(q)' = Live(q)
  <2>1. \A q \in Pages : Live(q)' = Lives(page'[q])
    BY DEF Live, Lives
  <2> QED BY <1>4, <1>5, <1>10, <2>1, NoPageIsSound
<1>12. \A q \in Pages : Live(q)' - Live(q) = 0
  BY <1>10, <1>11
<1> QED BY <1>9, <1>11, <1>12 DEF OneLife

LEMMA LastQueued ==
  ASSUME QueuesAreSound, NEW b \in Bins, queue[b] # <<>>
  PROVE  Last(queue[b]) \in Queued(b)
<1>1. queue[b] \in Seq(Pages)
  BY Facts
<1>2. PICK n : n = Len(queue[b])
  OBVIOUS
<1>3. n \in Nat /\ n # 0 /\ DOMAIN queue[b] = 1..n
  BY <1>1, <1>2, LenProperties, EmptySeq
<1>4. n \in 1..n
  BY <1>3
<1> QED BY <1>2, <1>3, <1>4 DEF Last, Queued, ToSet

LEMMA CollectStep ==
  ASSUME HeapInv, Collect
  PROVE  HeapInv' /\ OneLife
<1>1. QueuesAreSound /\ TypeOK /\ OneCountdown
  BY DEF HeapInv, QueuesAreSound
<1>2. PICK T : T = {p \in Empty : page[p].expire = 0}
  OBVIOUS
<1>3. PICK A : A = {b \in SizeClasses : queue[b] # <<>> /\ Queued(b) \subseteq T}
  OBVIOUS
<1>4. PICK K : K = {Last(queue[b]) : b \in A}
  OBVIOUS
<1>5. PICK G : G = T \ K
  OBVIOUS
<1>6. PICK pg : pg = PageCollected
  OBVIOUS
<1>7. /\ queue' = QueueWithout(G) /\ direct' = DirectWithout(G)
      /\ page' = [p \in Pages |-> IF p \in G THEN NoPage ELSE
                    IF p \in K THEN [pg[p] EXCEPT !.expire = CyclesOf[page[p].bin]]
                    ELSE pg[p]]
      /\ rmin' = LowOf({rmin} \cup A) /\ rmax' = HighOf({rmax} \cup A)
      /\ UNCHANGED <<mapped, exits>>
  BY <1>2, <1>3, <1>4, <1>5, <1>6 DEF Collect, Released
<1>8. /\ pg \in [Pages -> Headers]
      /\ \A p \in InHeap : /\ Sound(pg[p]) /\ pg[p].bin = page[p].bin /\ pg[p].bin # 0
                           /\ pg[p].expire = page[p].expire
                           /\ Lives(pg[p]) = Live(p) /\ pg[p].used = Live(p)
      /\ \A p \in Pages \ InHeap : pg[p] = page[p]
      /\ \A p \in Empty : p \in InHeap /\ Live(p) = 0
      /\ \A p \in InHeap \ Empty : Live(p) # 0
  BY <1>1, <1>6, CollectedPages DEF Empty
<1>9. /\ \A p \in InHeap : p \in Pages
      /\ \A c \in Bins : \A p \in Queued(c) : page[p].bin = c /\ p \in InHeap
      /\ \A q \in Pages : Live(q) \in Nat /\ Live(q) = Lives(page[q])
  BY <1>1, Facts, LivesAreNumbers
<1>10. A \subseteq SizeClasses /\ \A b \in A : b \in Bins /\ CyclesOf[b] \in Nat \ {0}
  BY <1>3, ThreadHeapAssumption DEF SizeClasses, Bins, BinHuge
<1>11. \A b \in A : Last(queue[b]) \in Queued(b) /\ Queued(b) \subseteq T
  BY <1>1, <1>3, <1>10, LastQueued
<1>12. \A p \in K : page[p].bin \in A /\ p = Last(queue[page[p].bin]) /\ p \in InHeap /\ p \in T
  BY <1>4, <1>9, <1>10, <1>11
<1>13. rmin' \in 1..BinFull /\ rmax' \in 0..NBins
  BY <1>1, <1>7, <1>10, RangeWidened
<1>14. \A p \in G : p \in InHeap /\ Live(p) = 0
  BY <1>2, <1>5, <1>8
<1>15. \A p \in G : page'[p] = NoPage
  BY <1>7, <1>9, <1>14
<1>16. ASSUME NEW p \in K
       PROVE  /\ Sound(page'[p]) /\ page'[p].bin = page[p].bin /\ page'[p].expire # 0
              /\ Lives(page'[p]) = Live(p)
  <2>1. p \in InHeap /\ p \in Pages /\ p \notin G /\ CyclesOf[page[p].bin] \in Nat \ {0}
    BY <1>5, <1>9, <1>10, <1>12
  <2>2. PICK e \in Nat : e = CyclesOf[page[p].bin] /\ e # 0
    BY <2>1
  <2>3. PICK h : h = pg[p]
    OBVIOUS
  <2>4. PICK r : r = [h EXCEPT !.expire = e]
    OBVIOUS
  <2>5. page'[p] = r
    BY <1>7, <2>1, <2>2, <2>3, <2>4
  <2>6. Sound(h) /\ h.bin # 0 /\ h.bin = page[p].bin /\ Lives(h) = Live(p)
    BY <1>8, <2>1, <2>3
  <2>7. Sound(r) /\ r.bin = h.bin /\ r.expire = e /\ Lives(r) = Lives(h)
    BY <2>4, <2>6, CountdownHeader
  <2> QED BY <2>2, <2>5, <2>6, <2>7
<1>17. \A p \in Pages \ (G \cup K) : page'[p] = pg[p]
  BY <1>7
<1>18. Headed(G)
  <2>1. page' \in [Pages -> Headers]
    <3>1. \A p \in Pages : page'[p] \in Headers
      BY <1>8, <1>15, <1>16, <1>17, NoPageIsSound DEF Sound
    <3>2. DOMAIN page' = Pages /\ page' = [p \in Pages |-> page'[p]]
      BY <1>7
    <3> QED BY <3>1, <3>2
  <2>2. ASSUME NEW p \in InHeap \ G
        PROVE  /\ Sound(page'[p]) /\ page'[p].bin = page[p].bin
               /\ page'[p].used = 0 => page'[p].expire # 0
    <3>1. CASE p \in K
      BY <1>16, <3>1
    <3>2. CASE p \notin K
      <4>1. page'[p] = pg[p] /\ p \notin T
        BY <1>5, <1>9, <1>17, <2>2, <3>2
      <4>2. p \in Empty => page[p].expire # 0
        BY <1>2, <4>1
      <4> QED BY <1>8, <2>2, <4>1, <4>2
    <3> QED BY <3>1, <3>2
  <2>3. \A p \in Pages \ InHeap : page'[p] = page[p]
    BY <1>8, <1>12, <1>14, <1>17
  <2>4. ASSUME exits = 0, NEW c \in Bins, NEW p \in Queued(c) \ G, NEW q \in Queued(c) \ G,
               page'[p].expire # 0, page'[q].expire # 0
        PROVE  p = q
    <3>1. page[p].bin = c /\ page[q].bin = c /\ p \in InHeap /\ q \in InHeap
      BY <1>9, <2>4
    <3>2. CASE p \in K \/ q \in K
      <4>1. c \in A
        BY <1>12, <3>1, <3>2
      <4>2. p \in T /\ q \in T
        BY <1>11, <2>4, <4>1
      <4>3. p \in K /\ q \in K
        BY <1>5, <2>4, <4>2
      <4> QED BY <1>12, <3>1, <4>3
    <3>3. CASE p \notin K /\ q \notin K
      <4>1. page[p].expire # 0 /\ page[q].expire # 0
        BY <1>8, <1>9, <1>17, <2>4, <3>1, <3>3
      <4> QED BY <1>1, <2>4, <4>1 DEF OneCountdown
    <3> QED BY <3>2, <3>3
  <2> QED BY <1>15, <2>1, <2>2, <2>3, <2>4 DEF Headed
<1>19. HeapInv'
  BY <1>7, <1>13, <1>14, <1>18, UnlinkStep
<1>20. \A q \in Pages : Live(q)' = Live(q)
  <2>1. \A q \in Pages : Live(q)' = Lives(page'[q])
    BY DEF Live, Lives
  <2>2. \A q \in G \cup K : q \in Pages => Lives(page'[q]) = Live(q)
    BY <1>14, <1>15, <1>16, NoPageIsSound
  <2> QED BY <1>8, <1>9, <1>17, <2>1, <2>2
<1>21. \A q \in Pages : Live(q)' - Live(q) = 0
  BY <1>9, <1>20
<1> QED BY <1>19, <1>20, <1>21 DEF OneLife

\* After the first exit the invariant is that the indexes agree.
LEMMA LaterStep ==
  ASSUME queue' \in [Bins -> Seq(Pages)],
         \A c \in Bins : IsInjective(queue'[c]) /\ \A p \in Queued(c)' : page'[p].bin = c,
         direct' \in [SmallSizes -> Pages \cup {None}], DirectEntriesValid',
         rmin' \in 1..BinFull, rmax' \in 0..NBins,
         page' \in [Pages -> Headers], \A p \in Pages : Sound(page'[p]),
         \A p \in mapped' : /\ p \in Pages /\ p \notin InHeap'
                            /\ page'[p].bin # 0 /\ CanAlloc(page'[p]),
         exits' \in 0..MaxExits, exits' # 0
  PROVE  HeapInv'
<1>1. mapped' \subseteq AbandonedPages'
  BY DEF AbandonedPages, Allocated
<1>2. \A p \in Pages : /\ page'[p].pend <= page'[p].used
                       /\ page'[p].bin # 0 =>
                            page'[p].avail + page'[p].local + page'[p].used = CapOf(page'[p].bin)
                       /\ page'[p].bin = 0 => page'[p] = NoPage
  BY DEF Sound
<1>3. TypeOK'
  BY <1>1, <1>2 DEF TypeOK
<1>4. MappedHasRoom' /\ OneCountdown'
  BY DEF MappedHasRoom, OneCountdown
<1> QED BY <1>3, <1>4 DEF HeapInv, QueuesAreSound

LEMMA FreeAbandonedStep ==
  ASSUME HeapInv, NEW p \in Pages, FreeAbandoned(p)
  PROVE  HeapInv' /\ OneLife
<1>1. QueuesAreSound /\ TypeOK /\ OneCountdown /\ DirectEntriesValid
  BY DEF HeapInv, QueuesAreSound
<1>2. /\ page \in [Pages -> Headers] /\ \A q \in Pages : Sound(page[q])
      /\ queue \in [Bins -> Seq(Pages)]
      /\ \A c \in Bins : IsInjective(queue[c]) /\ \A q \in Queued(c) : page[q].bin = c /\ q \in InHeap
      /\ \A q \in mapped : /\ q \in Pages /\ q \notin InHeap
                           /\ page[q].bin # 0 /\ CanAlloc(page[q])
      /\ \A q \in Pages : Live(q) \in Nat /\ Live(q) = Lives(page[q])
  BY <1>1, Facts, LivesAreNumbers
<1>3. page[p].bin # 0 /\ p \notin InHeap /\ Lives(page[p]) > 0 /\ p \in AbandonedPages
  BY <1>2 DEF FreeAbandoned, AbandonedPages, Allocated
<1>4. exits \in 0..MaxExits /\ exits # 0
  BY <1>1, <1>3 DEF OneCountdown, TypeOK
<1>5. PICK h : h = [page[p] EXCEPT !.pend = @ + 1]
  OBVIOUS
<1>6. /\ Sound(h) /\ h.bin = page[p].bin /\ h.bin # 0 /\ Lives(h) = Lives(page[p]) - 1 /\ h.pend # 0
  BY <1>2, <1>3, <1>5, QueuedFree
<1>7. PICK r : r = Collected(h)
  OBVIOUS
<1>8. /\ Sound(r) /\ r.bin = page[p].bin /\ r.pend = 0 /\ r.local = 0
      /\ Lives(r) = Lives(page[p]) - 1 /\ r.used = Lives(page[p]) - 1 /\ r.avail > 0
  <2>1. /\ Sound(r) /\ r.bin = h.bin /\ Lives(r) = Lives(h) /\ r.used = Lives(h)
        /\ r.pend = 0 /\ r.local = 0 /\ r.avail = h.avail + h.local + h.pend
    BY <1>6, <1>7, CollectedHeader
  <2>2. h.avail \in Nat /\ h.local \in Nat /\ h.pend \in Nat
    BY <1>6 DEF Sound, Headers
  <2> QED BY <1>6, <2>1, <2>2
<1>9. CanAlloc(r)
  <2>1. Collected(r).avail = r.avail + r.local + r.pend /\ r.avail \in Nat
    BY <1>3, <1>8, CollectedHeader DEF Sound, Headers
  <2> QED BY <1>8, <2>1 DEF CanAlloc
<1>10. UNCHANGED <<queue, direct, rmin, rmax, exits>>
  BY DEF FreeAbandoned
<1>11. \/ r.used = 0 /\ page' = Released({p}, page) /\ mapped' = mapped \ {p}
       \/ page' = [page EXCEPT ![p] = r] /\ mapped' = mapped \cup {p}
  BY <1>5, <1>7 DEF FreeAbandoned
<1>12. PICK g : /\ page' = [q \in Pages |-> IF q = p THEN g ELSE page[q]]
                /\ Sound(g) /\ Lives(g) = Lives(page[p]) - 1
                /\ \/ g = r /\ mapped' = mapped \cup {p}
                   \/ mapped' = mapped \ {p}
  <2>1. CASE r.used = 0 /\ page' = Released({p}, page) /\ mapped' = mapped \ {p}
    <3>1. Lives(page[p]) - 1 = 0
      BY <1>8, <2>1
    <3>2. page' = [q \in Pages |-> IF q = p THEN NoPage ELSE page[q]]
      BY <2>1 DEF Released
    <3> QED BY <2>1, <3>1, <3>2, NoPageIsSound
  <2>2. CASE page' = [page EXCEPT ![p] = r] /\ mapped' = mapped \cup {p}
    <3>1. page' = [q \in Pages |-> IF q = p THEN r ELSE page[q]]
      BY <1>2, <2>2
    <3> QED BY <1>8, <2>2, <3>1
  <2> QED BY <1>11, <2>1, <2>2
<1>13. page' \in [Pages -> Headers] /\ \A q \in Pages : Sound(page'[q])
  BY <1>2, <1>12 DEF Sound
<1>14. InHeap' = InHeap /\ \A c \in Bins : Queued(c)' = Queued(c)
  BY <1>10 DEF InHeap, Queued
<1>15. \A c \in Bins : IsInjective(queue'[c]) /\ \A q \in Queued(c)' : page'[q].bin = c
  <2>1. \A c \in Bins : \A q \in Queued(c) : q # p /\ q \in Pages
    BY <1>1, <1>2, <1>3, Facts
  <2> QED BY <1>2, <1>10, <1>12, <1>14, <2>1
<1>16. \A q \in mapped' : /\ q \in Pages /\ q \notin InHeap'
                          /\ page'[q].bin # 0 /\ CanAlloc(page'[q])
  <2>1. ASSUME NEW q \in mapped', q # p
        PROVE  q \in Pages /\ q \notin InHeap' /\ page'[q].bin # 0 /\ CanAlloc(page'[q])
    <3>1. q \in mapped
      BY <1>12, <2>1
    <3>2. q \in Pages /\ page'[q] = page[q]
      BY <1>2, <1>12, <2>1, <3>1
    <3> QED BY <1>2, <1>14, <3>1, <3>2
  <2>2. ASSUME p \in mapped'
        PROVE  p \notin InHeap' /\ page'[p].bin # 0 /\ CanAlloc(page'[p])
    <3>1. page'[p] = r
      BY <1>12, <2>2
    <3> QED BY <1>3, <1>8, <1>9, <1>14, <3>1
  <2> QED BY <2>1, <2>2
<1>17. /\ direct' \in [SmallSizes -> Pages \cup {None}] /\ DirectEntriesValid'
       /\ rmin' \in 1..BinFull /\ rmax' \in 0..NBins /\ queue' \in [Bins -> Seq(Pages)]
  BY <1>1, <1>10 DEF TypeOK, DirectEntriesValid, Queued
<1>18. HeapInv'
  BY <1>4, <1>10, <1>13, <1>15, <1>16, <1>17, LaterStep
<1>19. \A q \in Pages : Live(q)' = IF q = p THEN Lives(g) ELSE Live(q)
  BY <1>12 DEF Live, Lives
<1>20. Lives(g) - Live(p) \in {-1, 0, 1}
  BY <1>2, <1>12
<1> QED BY <1>2, <1>18, <1>19, <1>20, LivesDiffer

LEMMA ThreadExitStep ==
  ASSUME HeapInv, ThreadExit
  PROVE  HeapInv' /\ OneLife
<1>1. QueuesAreSound /\ TypeOK
  BY DEF HeapInv, QueuesAreSound
<1>2. PICK G : G = Empty
  OBVIOUS
<1>3. PICK pg : pg = PageCollected
  OBVIOUS
<1>4. /\ pg \in [Pages -> Headers]
      /\ \A p \in InHeap : /\ Sound(pg[p]) /\ pg[p].bin = page[p].bin /\ pg[p].bin # 0
                           /\ Lives(pg[p]) = Live(p)
      /\ \A p \in Pages \ InHeap : pg[p] = page[p]
      /\ \A p \in G : p \in InHeap /\ Live(p) = 0
  BY <1>1, <1>2, <1>3, CollectedPages
<1>5. /\ queue' = [b \in Bins |-> <<>>] /\ direct' = [z \in SmallSizes |-> None]
      /\ rmin' = BinFull /\ rmax' = 0
      /\ page' = [p \in Pages |-> IF p \in G THEN NoPage ELSE pg[p]]
      /\ mapped' = mapped \cup ExitMapped /\ exits < MaxExits /\ exits' = exits + 1
  BY <1>2, <1>3 DEF ThreadExit, Released
<1>6. /\ \A p \in InHeap : p \in Pages /\ page[p].bin # 0
      /\ \A p \in Pages : Sound(page[p])
      /\ \A p \in mapped : /\ p \in Pages /\ p \notin InHeap
                           /\ page[p].bin # 0 /\ CanAlloc(page[p])
      /\ \A q \in Pages : Live(q) \in Nat /\ Live(q) = Lives(page[q])
  BY <1>1, Facts, LivesAreNumbers
<1>7. page' \in [Pages -> Headers] /\ \A p \in Pages : Sound(page'[p])
  BY <1>4, <1>5, <1>6, NoPageIsSound DEF Sound
<1>8. /\ queue' \in [Bins -> Seq(Pages)]
      /\ \A c \in Bins : IsInjective(queue'[c]) /\ Queued(c)' = {}
  BY <1>5 DEF IsInjective, Queued, ToSet
<1>9. InHeap' = {}
  BY <1>8 DEF InHeap
<1>10. ASSUME NEW p \in ExitMapped
       PROVE  p \in Pages /\ page'[p].bin # 0 /\ CanAlloc(page'[p])
  <2>1. p \in InHeap /\ p \in Pages /\ p \notin G /\ CanAlloc(page[p])
    BY <1>2, <1>6 DEF ExitMapped
  <2>2. PICK c : c = Collected(page[p])
    OBVIOUS
  <2>3. page'[p] = c
    BY <1>3, <1>5, <2>1, <2>2 DEF PageCollected
  <2>4. /\ Sound(c) /\ c.bin = page[p].bin /\ c.bin # 0 /\ c.pend = 0 /\ c.local = 0 /\ c.avail > 0
    BY <1>6, <2>1, <2>2, CollectedHeader DEF CanAlloc
  <2>5. Collected(c).avail = c.avail + c.local + c.pend /\ c.avail \in Nat
    BY <2>4, CollectedHeader DEF Sound, Headers
  <2>6. CanAlloc(c)
    BY <2>4, <2>5 DEF CanAlloc
  <2> QED BY <2>1, <2>3, <2>4, <2>6
<1>11. ASSUME NEW p \in mapped
       PROVE  p \in Pages /\ page'[p].bin # 0 /\ CanAlloc(page'[p])
  <2>1. p \in Pages /\ p \notin G /\ page'[p] = page[p]
    BY <1>4, <1>5, <1>6
  <2> QED BY <1>6, <2>1
<1>12. \A p \in mapped' : /\ p \in Pages /\ p \notin InHeap'
                          /\ page'[p].bin # 0 /\ CanAlloc(page'[p])
  BY <1>5, <1>9, <1>10, <1>11
<1>13. direct' \in [SmallSizes -> Pages \cup {None}] /\ DirectEntriesValid'
  BY <1>5 DEF DirectEntriesValid
<1>14. exits' \in 0..MaxExits /\ exits' # 0 /\ rmin' \in 1..BinFull /\ rmax' \in 0..NBins
  BY <1>1, <1>5, ThreadHeapAssumption DEF TypeOK, BinFull
<1>15. HeapInv'
  BY <1>7, <1>8, <1>12, <1>13, <1>14, LaterStep
<1>16. \A q \in Pages : Live(q)' = Live(q)
  <2>1. \A q \in Pages : Live(q)' = Lives(page'[q])
    BY DEF Live, Lives
  <2> QED BY <1>4, <1>5, <1>6, <2>1, NoPageIsSound
<1>17. \A q \in Pages : Live(q)' - Live(q) = 0
  BY <1>6, <1>16
<1> QED BY <1>15, <1>16, <1>17 DEF OneLife

-----------------------------------------------------------------------------
(***************************************************************************)
(* The theorems.                                                           *)
(***************************************************************************)
LEMMA InitHeapInv == Init => HeapInv
<1> SUFFICES ASSUME Init PROVE HeapInv
  OBVIOUS
<1>1. /\ queue = [b \in Bins |-> <<>>] /\ direct = [z \in SmallSizes |-> None]
      /\ rmin = BinFull /\ rmax = 0 /\ page = [p \in Pages |-> NoPage]
      /\ mapped = {} /\ exits = 0
  BY DEF Init
<1>2. /\ queue \in [Bins -> Seq(Pages)]
      /\ \A c \in Bins : IsInjective(queue[c]) /\ Queued(c) = {}
  BY <1>1 DEF IsInjective, Queued, ToSet
<1>3. \A p \in Pages : page[p] = NoPage /\ page[p].bin = 0 /\ Sound(page[p])
  BY <1>1, NoPageIsSound DEF NoPage, Header
<1>4. page \in [Pages -> Headers]
  BY <1>1, NoPageIsSound DEF Sound
<1>5. InHeap = {} /\ AbandonedPages = {}
  BY <1>2, <1>3 DEF InHeap, AbandonedPages, Allocated
<1>6. /\ direct \in [SmallSizes -> Pages \cup {None}] /\ DirectEntriesValid
  BY <1>1 DEF DirectEntriesValid
<1>7. rmin \in 1..BinFull /\ rmax \in 0..NBins /\ exits \in 0..MaxExits
  BY <1>1, ThreadHeapAssumption DEF BinFull
<1>8. \A p \in Pages : /\ page[p].pend <= page[p].used
                       /\ page[p].bin # 0 =>
                            page[p].avail + page[p].local + page[p].used = CapOf(page[p].bin)
                       /\ page[p].bin = 0 => page[p] = NoPage
  BY <1>3 DEF Sound
<1>9. TypeOK
  BY <1>1, <1>2, <1>4, <1>6, <1>7, <1>8 DEF TypeOK
<1>10. MappedHasRoom /\ OneCountdown
  BY <1>1, <1>2, <1>5 DEF MappedHasRoom, OneCountdown
<1> QED BY <1>6, <1>9, <1>10 DEF HeapInv, QueuesAreSound

\* A step is one of the operations.
LEMMA HeapStep ==
  ASSUME HeapInv, Next PROVE HeapInv' /\ OneLife
<1>1. ASSUME NEW z \in Sizes, AllocDirect(z) \/ AllocQueue(z) \/ AllocReclaim(z) \/ AllocNew(z)
      PROVE  HeapInv' /\ OneLife
  BY <1>1, AllocDirectStep, AllocQueueStep, AllocReclaimStep, AllocNewStep
<1>2. ASSUME NEW p \in Pages, FreeOwn(p) \/ FreeRemote(p) \/ FreeAbandoned(p)
      PROVE  HeapInv' /\ OneLife
  BY <1>2, FreeOwnStep, FreeRemoteStep, FreeAbandonedStep
<1>3. ASSUME AllocHuge \/ Collect \/ CollectForce \/ ThreadExit
      PROVE  HeapInv' /\ OneLife
  BY <1>3, AllocHugeStep, CollectStep, CollectForceStep, ThreadExitStep
<1> QED BY <1>1, <1>2, <1>3 DEF Next

LEMMA HeapStutter ==
  ASSUME HeapInv, UNCHANGED vars PROVE HeapInv'
BY DEF vars, HeapInv, OneCountdown, QueuesAreSound, TypeOK, DirectEntriesValid, MappedHasRoom,
       AbandonedPages, Allocated, InHeap, Queued

LEMMA HeapInvariant == Spec => []HeapInv
<1>1. HeapInv /\ [Next]_vars => HeapInv'
  BY HeapStep, HeapStutter
<1> QED BY InitHeapInv, <1>1, PTL DEF Spec

\* Through every sequence of allocations, frees, sweeps, collects, retires,
\* exits and adoptions (heap.rs, ThreadHeap): a page is in one bin queue at
\* most, once and in the queue of its bin, its blocks add up, every entry of
\* pages_free_direct is a page of the heap of the right class, and every page
\* the registry shows is outside the heap and can serve a request.
THEOREM QueuesStaySound == Spec => []QueuesAreSound
BY HeapInvariant, PTL DEF HeapInv

\* retire_page and collect keep at most one page without used blocks per bin,
\* whatever the countdowns, as long as the heap has adopted no page.
THEOREM EmptyPagesDoNotPileUp == Spec => []KeepsOneEmptyPage
<1>1. ASSUME HeapInv PROVE KeepsOneEmptyPage
  <2> SUFFICES ASSUME exits = 0, NEW b \in Bins
               PROVE  Cardinality({p \in Queued(b) : page[p].used = 0}) <= 1
    BY DEF KeepsOneEmptyPage
  <2>1. QueuesAreSound /\ OneCountdown
    BY <1>1 DEF HeapInv
  <2>2. \A p \in Queued(b) : p \in InHeap
    BY <2>1, Facts
  <2> DEFINE E == {p \in Queued(b) : page[p].used = 0}
  <2>3. \A p, q \in E : p = q
    BY <2>1, <2>2 DEF OneCountdown
  <2> HIDE DEF E
  <2>4. CASE E = {}
    BY <2>4, FS_EmptySet DEF E
  <2>5. CASE E # {}
    <3>1. PICK p : E = {p}
      BY <2>3, <2>5
    <3>2. Cardinality(E) = 1
      BY <3>1, FS_Singleton
    <3> QED BY <3>2 DEF E
  <2> QED BY <2>4, <2>5
<1> QED BY HeapInvariant, <1>1, PTL

\* No operation releases a page in use: a step changes the live blocks of one
\* page at most, and by one.  The sweep, both collects, retire_page and the
\* exit release only pages without live blocks (heap.rs).
THEOREM OnlyFreesEndLivesHolds == Spec => OnlyFreesEndLives
<1> DEFINE A == \A p, q \in Pages :
                  /\ Live(p)' - Live(p) \in {-1, 0, 1}
                  /\ Live(p)' # Live(p) /\ Live(q)' # Live(q) => p = q
<1>1. ASSUME HeapInv, [Next]_vars PROVE [A]_vars
  <2>1. CASE Next
    <3>1. PICK x : \A q \in Pages : /\ Live(q)' - Live(q) \in {-1, 0, 1}
                                    /\ q # x => Live(q)' = Live(q)
      BY <1>1, <2>1, HeapStep DEF OneLife
    <3>2. A
      BY <3>1
    <3> QED BY <3>2
  <2>2. CASE UNCHANGED vars
    BY <2>2
  <2> QED BY <1>1, <2>1, <2>2
<1>2. OnlyFreesEndLives <=> [][A]_vars
  BY DEF OnlyFreesEndLives
<1> HIDE DEF A
<1> QED BY HeapInvariant, <1>1, <1>2, PTL DEF Spec

=============================================================================
