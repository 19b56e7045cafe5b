------------------------ MODULE PageOwnershipProofs ------------------------
(***************************************************************************)
(* Proofs about PageOwnership, and about SliceReuse, which goes on where a *)
(* page ends.                                                              *)
(***************************************************************************)
EXTENDS PageOwnership, SliceReuse, FiniteSetTheorems, TLAPS

(***************************************************************************)
(* Cardinality of what is left when a subset is taken away.                *)
(***************************************************************************)
LEMMA CardMinus ==
  ASSUME NEW S, IsFiniteSet(S), NEW T, T \subseteq S
  PROVE  /\ IsFiniteSet(S \ T)
         /\ Cardinality(S \ T) = Cardinality(S) - Cardinality(T)
         /\ Cardinality(T) \in Nat
<1>1. S \cap T = T
  OBVIOUS
<1>2. IsFiniteSet(T)
  BY FS_Subset
<1> QED BY <1>1, <1>2, FS_Difference, FS_CardinalityType

(***************************************************************************)
(* Blocks made available so far are finitely many, at most Reserved.       *)
(***************************************************************************)
LEMMA Bounded ==
  ASSUME NEW c \in 0..Reserved, NEW S \in SUBSET (1..c)
  PROVE  /\ IsFiniteSet(S)
         /\ S \subseteq Blocks
         /\ Cardinality(S) \in 0..Reserved
<1>1. IsFiniteSet(Blocks) /\ Cardinality(Blocks) = Reserved
  BY FS_Interval, PageAssumption DEF Blocks
<1>2. S \in SUBSET Blocks
  BY PageAssumption DEF Blocks
<1>3. IsFiniteSet(S) /\ Cardinality(S) <= Cardinality(Blocks)
  BY <1>1, <1>2, FS_Subset
<1>4. Cardinality(S) \in Nat
  BY <1>3, FS_CardinalityType
<1> QED BY <1>1, <1>2, <1>3, <1>4, PageAssumption

\* The blocks outside the owner's lists are finitely many.
LEMMA OutFinite ==
  ASSUME TypeOK, BlockPartition
  PROVE  /\ IsFiniteSet(Out)
         /\ Out \subseteq Blocks
         /\ Cardinality(Out) \in 0..Reserved
<1>1. Out \in SUBSET (1..capacity)
  BY DEF Out, BlockPartition
<1> QED BY <1>1, Bounded DEF TypeOK

(***************************************************************************)
(* A page with a block in use, queued or on its way is not empty.          *)
(***************************************************************************)
LEMMA InUse ==
  ASSUME TypeOK, Counting, Out # {}
  PROVE  used # 0
BY OutFinite, FS_EmptySet DEF Counting, UsedIsExact

(***************************************************************************)
(* A step that leaves the pushers and their blocks alone leaves InFlight   *)
(* alone.                                                                  *)
(***************************************************************************)
LEMMA InFlightSame ==
  ASSUME TypeOK, blk' = blk,
         NEW t \in Threads, pc[t] # "push",
         NEW w, w # "push", pc' = [pc EXCEPT ![t] = w]
  PROVE  Pushers' = Pushers /\ InFlight' = InFlight
<1>1. Pushers' = Pushers
  BY DEF Pushers, TypeOK
<1> QED BY <1>1 DEF InFlight

(***************************************************************************)
(* Page::collect keeps the blocks partitioned and the count exact.         *)
(***************************************************************************)
LEMMA CollectCounts ==
  ASSUME TypeOK, Counting, Collect, live' = live, capacity' = capacity,
         Pushers' = Pushers, InFlight' = InFlight, blk' = blk
  PROVE  Counting'
<1>1. BlockPartition'
  BY DEF Counting, BlockPartition, Collect, Collected
<1>2. Out' = Out \ xfree
  BY DEF Collect, Out, Counting, BlockPartition
<1>3. xfree \subseteq Out
  BY DEF Out
<1>4. used' = Cardinality(Out')
  BY <1>2, <1>3, OutFinite, CardMinus
     DEF Counting, UsedIsExact, Collect, UsedCollected
<1> QED BY <1>1, <1>4 DEF Counting, UsedIsExact, Collect

(***************************************************************************)
(* Page::collect_partly does too.                                          *)
(***************************************************************************)
LEMMA CollectPartlyCounts ==
  ASSUME TypeOK, Counting, CollectPartly, live' = live, capacity' = capacity,
         Pushers' = Pushers, InFlight' = InFlight, blk' = blk
  PROVE  Counting'
<1>1. below \subseteq xfree
  BY DEF Counting
<1>2. BlockPartition'
  BY <1>1 DEF Counting, BlockPartition, CollectPartly, FreePartly, LocalPartly
<1>3. Out' = Out \ below
  BY <1>1 DEF CollectPartly, Out, Counting, BlockPartition
<1>4. below \subseteq Out
  BY <1>1 DEF Out
<1>5. used' = Cardinality(Out')
  BY <1>3, <1>4, OutFinite, CardMinus
     DEF Counting, UsedIsExact, CollectPartly, UsedPartly
<1> QED BY <1>2, <1>5 DEF Counting, UsedIsExact, CollectPartly

(***************************************************************************)
(* Page::extend_free makes the next blocks available, in order.            *)
(***************************************************************************)
LEMMA ExtensionCounts ==
  ASSUME TypeOK
  PROVE  /\ Cardinality(Extension) \in Nat
         /\ capacity + Cardinality(Extension) <= Reserved
         /\ 1..(capacity + Cardinality(Extension)) = (1..capacity) \cup Extension
         /\ Extension \cap (1..capacity) = {}
<1> DEFINE m == IF capacity + MaxExtend <= Reserved
                THEN capacity + MaxExtend ELSE Reserved
<1> USE PageAssumption DEF TypeOK
<1>1. m \in Nat /\ capacity <= m /\ m <= Reserved
  OBVIOUS
<1>2. Extension = (capacity + 1)..m
  BY DEF Extension, Blocks
<1>3. Cardinality((capacity + 1)..m) = m - capacity
  BY <1>1, FS_Interval
<1> HIDE DEF m
<1> QED BY <1>1, <1>2, <1>3


\* Every action keeps the hand-over of the page exclusive: the ownership
\* bit, the stamp and the queue link move together (claim, exit, adopt,
\* release).
LEMMA OwnershipStep ==
  ASSUME TypeOK, Ownership, Counting, EmptyWhenReleased, [Next]_vars
  PROVE  Ownership'
<1> USE PageAssumption DEF TypeOK, Ownership, ExclusiveOwner, Holds, Pcs,
        HoldPcs, ClaimPcs, ExitPcs, AdoptPcs, ReleasePcs, OwnStampPcs, Goto
<1>1. CASE UNCHANGED vars
  BY <1>1 DEF vars
<1>2. ASSUME NEW t \in Threads, NEW b \in Blocks, Alloc(t, b)
      PROVE  Ownership'
  BY <1>2 DEF Alloc, Owns
<1>3. ASSUME NEW t \in Threads, NEW b \in Blocks, AllocCollect(t, b)
      PROVE  Ownership'
  BY <1>3 DEF AllocCollect, Owns
<1>4. ASSUME NEW t \in Threads, NEW b \in Blocks, AllocExtend(t, b)
      PROVE  Ownership'
  BY <1>4 DEF AllocExtend, Owns
<1>5. ASSUME NEW t \in Threads, NEW b \in Blocks, FreeLocal(t, b)
      PROVE  Ownership'
  <2>1. alive /\ linked = t
    BY <1>5, InUse DEF FreeLocal, EmptyWhenReleased, Out, Counting
  <2> QED BY <1>5, <2>1 DEF FreeLocal
<1>6. ASSUME NEW t \in Threads, NEW b \in Blocks, FreeRemote(t, b)
      PROVE  Ownership'
  BY <1>6 DEF FreeRemote
<1>7. ASSUME NEW t \in Threads, OwnerCollect(t)
      PROVE  Ownership'
  BY <1>7 DEF OwnerCollect, Owns
<1>8. ASSUME NEW t \in Threads, Retire(t)
      PROVE  Ownership'
  BY <1>8 DEF Retire, Owns
<1>9. ASSUME NEW t \in Threads, Exit(t)
      PROVE  Ownership'
  BY <1>9 DEF Exit, Owns
<1>10. ASSUME NEW t \in Threads, See(t)
      PROVE  Ownership'
  BY <1>10 DEF See
<1>11. ASSUME NEW t \in Threads, Push(t)
      PROVE  Ownership'
  BY <1>11 DEF Push
<1>12. ASSUME NEW t \in Threads, Claimed(t)
      PROVE  Ownership'
  BY <1>12 DEF Claimed, AfterCollect
<1>13. ASSUME NEW t \in Threads, Recollect(t)
      PROVE  Ownership'
  BY <1>13 DEF Recollect, AfterCollect
<1>14. ASSUME NEW t \in Threads, IsFull(t)
      PROVE  Ownership'
  BY <1>14 DEF IsFull
<1>15. ASSUME NEW t \in Threads, Register(t)
      PROVE  Ownership'
  BY <1>15 DEF Register
<1>16. ASSUME NEW t \in Threads, StampMapped(t)
      PROVE  Ownership'
  BY <1>16 DEF StampMapped
<1>17. ASSUME NEW t \in Threads, TryUnown(t)
      PROVE  Ownership'
  BY <1>17 DEF TryUnown
<1>18. ASSUME NEW t \in Threads, Unabandon(t)
      PROVE  Ownership'
  BY <1>18 DEF Unabandon
<1>19. ASSUME NEW t \in Threads, Unmap(t)
      PROVE  Ownership'
  BY <1>19 DEF Unmap
<1>20. ASSUME NEW t \in Threads, FreeSlices(t)
      PROVE  Ownership'
  BY <1>20 DEF FreeSlices
<1>21. ASSUME NEW t \in Threads, ExitIsFull(t)
      PROVE  Ownership'
  BY <1>21 DEF ExitIsFull
<1>22. ASSUME NEW t \in Threads, ExitRegister(t)
      PROVE  Ownership'
  BY <1>22 DEF ExitRegister
<1>23. ASSUME NEW t \in Threads, ExitStamp(t)
      PROVE  Ownership'
  BY <1>23 DEF ExitStamp
<1>24. ASSUME NEW t \in Threads, ExitUnown(t)
      PROVE  Ownership'
  BY <1>24 DEF ExitUnown
<1>25. ASSUME NEW t \in Threads, ClaimOwnership(t)
      PROVE  Ownership'
  BY <1>25 DEF ClaimOwnership
<1>26. ASSUME NEW t \in Threads, ClearBit(t)
      PROVE  Ownership'
  BY <1>26 DEF ClearBit
<1>27. ASSUME NEW t \in Threads, Adopt(t)
      PROVE  Ownership'
  BY <1>27 DEF Adopt
<1>28. ASSUME NEW t \in Threads, AdoptCollect(t)
      PROVE  Ownership'
  BY <1>28 DEF AdoptCollect
<1> QED BY <1>1, <1>2, <1>3, <1>4, <1>5, <1>6, <1>7, <1>8, <1>9, <1>10,
  <1>11, <1>12, <1>13, <1>14, <1>15, <1>16, <1>17, <1>18, <1>19, <1>20,
  <1>21, <1>22, <1>23, <1>24, <1>25, <1>26, <1>27, <1>28 DEF Next, Begin,
  Step

\* Every action keeps the abandoned registry in step with the stamp
\* (page_abandon, page_unabandon, reclaim_abandoned).
LEMMA RegistryStep ==
  ASSUME TypeOK, Ownership, RegistryState, [Next]_vars
  PROVE  RegistryState'
<1> USE PageAssumption DEF TypeOK, Ownership, ExclusiveOwner, Holds, Pcs,
        HoldPcs, ClaimPcs, ExitPcs, AdoptPcs, ReleasePcs, OwnStampPcs, Goto,
        RegistryState
<1>1. CASE UNCHANGED vars
  BY <1>1 DEF vars
<1>2. ASSUME NEW t \in Threads, NEW b \in Blocks, Alloc(t, b)
      PROVE  RegistryState'
  BY <1>2 DEF Alloc, Owns
<1>3. ASSUME NEW t \in Threads, NEW b \in Blocks, AllocCollect(t, b)
      PROVE  RegistryState'
  BY <1>3 DEF AllocCollect, Owns
<1>4. ASSUME NEW t \in Threads, NEW b \in Blocks, AllocExtend(t, b)
      PROVE  RegistryState'
  BY <1>4 DEF AllocExtend, Owns
<1>5. ASSUME NEW t \in Threads, NEW b \in Blocks, FreeLocal(t, b)
      PROVE  RegistryState'
  BY <1>5 DEF FreeLocal
<1>6. ASSUME NEW t \in Threads, NEW b \in Blocks, FreeRemote(t, b)
      PROVE  RegistryState'
  BY <1>6 DEF FreeRemote
<1>7. ASSUME NEW t \in Threads, OwnerCollect(t)
      PROVE  RegistryState'
  BY <1>7 DEF OwnerCollect, Owns
<1>8. ASSUME NEW t \in Threads, Retire(t)
      PROVE  RegistryState'
  BY <1>8 DEF Retire, Owns
<1>9. ASSUME NEW t \in Threads, Exit(t)
      PROVE  RegistryState'
  BY <1>9 DEF Exit, Owns
<1>10. ASSUME NEW t \in Threads, See(t)
      PROVE  RegistryState'
  BY <1>10 DEF See
<1>11. ASSUME NEW t \in Threads, Push(t)
      PROVE  RegistryState'
  BY <1>11 DEF Push
<1>12. ASSUME NEW t \in Threads, Claimed(t)
      PROVE  RegistryState'
  BY <1>12 DEF Claimed, AfterCollect
<1>13. ASSUME NEW t \in Threads, Recollect(t)
      PROVE  RegistryState'
  BY <1>13 DEF Recollect, AfterCollect
<1>14. ASSUME NEW t \in Threads, IsFull(t)
      PROVE  RegistryState'
  BY <1>14 DEF IsFull
<1>15. ASSUME NEW t \in Threads, Register(t)
      PROVE  RegistryState'
  BY <1>15 DEF Register, PageAbandon
<1>16. ASSUME NEW t \in Threads, StampMapped(t)
      PROVE  RegistryState'
  BY <1>16 DEF StampMapped
<1>17. ASSUME NEW t \in Threads, TryUnown(t)
      PROVE  RegistryState'
  BY <1>17 DEF TryUnown
<1>18. ASSUME NEW t \in Threads, Unabandon(t)
      PROVE  RegistryState'
  BY <1>18 DEF Unabandon
<1>19. ASSUME NEW t \in Threads, Unmap(t)
      PROVE  RegistryState'
  BY <1>19 DEF Unmap
<1>20. ASSUME NEW t \in Threads, FreeSlices(t)
      PROVE  RegistryState'
  BY <1>20 DEF FreeSlices
<1>21. ASSUME NEW t \in Threads, ExitIsFull(t)
      PROVE  RegistryState'
  BY <1>21 DEF ExitIsFull
<1>22. ASSUME NEW t \in Threads, ExitRegister(t)
      PROVE  RegistryState'
  BY <1>22 DEF ExitRegister, PageAbandon
<1>23. ASSUME NEW t \in Threads, ExitStamp(t)
      PROVE  RegistryState'
  BY <1>23 DEF ExitStamp
<1>24. ASSUME NEW t \in Threads, ExitUnown(t)
      PROVE  RegistryState'
  BY <1>24 DEF ExitUnown
<1>25. ASSUME NEW t \in Threads, ClaimOwnership(t)
      PROVE  RegistryState'
  BY <1>25 DEF ClaimOwnership
<1>26. ASSUME NEW t \in Threads, ClearBit(t)
      PROVE  RegistryState'
  BY <1>26 DEF ClearBit
<1>27. ASSUME NEW t \in Threads, Adopt(t)
      PROVE  RegistryState'
  BY <1>27 DEF Adopt
<1>28. ASSUME NEW t \in Threads, AdoptCollect(t)
      PROVE  RegistryState'
  BY <1>28 DEF AdoptCollect
<1> QED BY <1>1, <1>2, <1>3, <1>4, <1>5, <1>6, <1>7, <1>8, <1>9, <1>10,
  <1>11, <1>12, <1>13, <1>14, <1>15, <1>16, <1>17, <1>18, <1>19, <1>20,
  <1>21, <1>22, <1>23, <1>24, <1>25, <1>26, <1>27, <1>28 DEF Next, Begin,
  Step

\* Every action keeps the verdict of is_full true until the page is let go.
LEMMA FullStep ==
  ASSUME TypeOK, Ownership, FullWhenHidden, [Next]_vars
  PROVE  FullWhenHidden'
<1> USE PageAssumption DEF TypeOK, Ownership, ExclusiveOwner, Holds, Pcs,
        HoldPcs, ClaimPcs, ExitPcs, AdoptPcs, ReleasePcs, OwnStampPcs, Goto,
        FullWhenHidden, NothingToGive
<1>1. CASE UNCHANGED vars
  BY <1>1 DEF vars
<1>2. ASSUME NEW t \in Threads, NEW b \in Blocks, Alloc(t, b)
      PROVE  FullWhenHidden'
  BY <1>2 DEF Alloc, Owns
<1>3. ASSUME NEW t \in Threads, NEW b \in Blocks, AllocCollect(t, b)
      PROVE  FullWhenHidden'
  BY <1>3 DEF AllocCollect, Owns
<1>4. ASSUME NEW t \in Threads, NEW b \in Blocks, AllocExtend(t, b)
      PROVE  FullWhenHidden'
  BY <1>4 DEF AllocExtend, Owns
<1>5. ASSUME NEW t \in Threads, NEW b \in Blocks, FreeLocal(t, b)
      PROVE  FullWhenHidden'
  BY <1>5 DEF FreeLocal
<1>6. ASSUME NEW t \in Threads, NEW b \in Blocks, FreeRemote(t, b)
      PROVE  FullWhenHidden'
  BY <1>6 DEF FreeRemote, lists
<1>7. ASSUME NEW t \in Threads, OwnerCollect(t)
      PROVE  FullWhenHidden'
  BY <1>7 DEF OwnerCollect, Owns, Collect
<1>8. ASSUME NEW t \in Threads, Retire(t)
      PROVE  FullWhenHidden'
  BY <1>8 DEF Retire, Owns, lists
<1>9. ASSUME NEW t \in Threads, Exit(t)
      PROVE  FullWhenHidden'
  BY <1>9 DEF Exit, Owns, Collect
<1>10. ASSUME NEW t \in Threads, See(t)
      PROVE  FullWhenHidden'
  BY <1>10 DEF See, lists
<1>11. ASSUME NEW t \in Threads, Push(t)
      PROVE  FullWhenHidden'
  BY <1>11 DEF Push
<1>12. ASSUME NEW t \in Threads, Claimed(t)
      PROVE  FullWhenHidden'
  BY <1>12 DEF Claimed, AfterCollect, Collect, CollectPartly, FreePartly
<1>13. ASSUME NEW t \in Threads, Recollect(t)
      PROVE  FullWhenHidden'
  BY <1>13 DEF Recollect, AfterCollect, Collect
<1>14. ASSUME NEW t \in Threads, IsFull(t)
      PROVE  FullWhenHidden'
  BY <1>14 DEF IsFull, Collect
<1>15. ASSUME NEW t \in Threads, Register(t)
      PROVE  FullWhenHidden'
  BY <1>15 DEF Register, PageAbandon, lists
<1>16. ASSUME NEW t \in Threads, StampMapped(t)
      PROVE  FullWhenHidden'
  BY <1>16 DEF StampMapped, lists
<1>17. ASSUME NEW t \in Threads, TryUnown(t)
      PROVE  FullWhenHidden'
  BY <1>17 DEF TryUnown, lists
<1>18. ASSUME NEW t \in Threads, Unabandon(t)
      PROVE  FullWhenHidden'
  BY <1>18 DEF Unabandon, lists
<1>19. ASSUME NEW t \in Threads, Unmap(t)
      PROVE  FullWhenHidden'
  BY <1>19 DEF Unmap, lists
<1>20. ASSUME NEW t \in Threads, FreeSlices(t)
      PROVE  FullWhenHidden'
  BY <1>20 DEF FreeSlices, lists
<1>21. ASSUME NEW t \in Threads, ExitIsFull(t)
      PROVE  FullWhenHidden'
  BY <1>21 DEF ExitIsFull, Collect
<1>22. ASSUME NEW t \in Threads, ExitRegister(t)
      PROVE  FullWhenHidden'
  BY <1>22 DEF ExitRegister, PageAbandon, lists
<1>23. ASSUME NEW t \in Threads, ExitStamp(t)
      PROVE  FullWhenHidden'
  BY <1>23 DEF ExitStamp, lists
<1>24. ASSUME NEW t \in Threads, ExitUnown(t)
      PROVE  FullWhenHidden'
  BY <1>24 DEF ExitUnown, lists
<1>25. ASSUME NEW t \in Threads, ClaimOwnership(t)
      PROVE  FullWhenHidden'
  BY <1>25 DEF ClaimOwnership, lists
<1>26. ASSUME NEW t \in Threads, ClearBit(t)
      PROVE  FullWhenHidden'
  BY <1>26 DEF ClearBit, lists
<1>27. ASSUME NEW t \in Threads, Adopt(t)
      PROVE  FullWhenHidden'
  BY <1>27 DEF Adopt, lists
<1>28. ASSUME NEW t \in Threads, AdoptCollect(t)
      PROVE  FullWhenHidden'
  BY <1>28 DEF AdoptCollect, Collect
<1> QED BY <1>1, <1>2, <1>3, <1>4, <1>5, <1>6, <1>7, <1>8, <1>9, <1>10,
  <1>11, <1>12, <1>13, <1>14, <1>15, <1>16, <1>17, <1>18, <1>19, <1>20,
  <1>21, <1>22, <1>23, <1>24, <1>25, <1>26, <1>27, <1>28 DEF Next, Begin,
  Step

\* Every action keeps the blocks partitioned and `used` exact: pops, local
\* frees, pushes, whole and partial collects, extensions.
LEMMA CountingStep ==
  ASSUME TypeOK, Counting, Ownership, [Next]_vars
  PROVE  Counting'
<1> USE DEF Goto
<1>1. CASE UNCHANGED vars
  BY <1>1 DEF vars, Counting, BlockPartition, UsedIsExact, Out, InFlight, Pushers
<1>2. ASSUME NEW t \in Threads, NEW b \in Blocks, Alloc(t, b)
      PROVE  Counting'
  <2>1. Pushers' = Pushers /\ InFlight' = InFlight
    BY <1>2 DEF Alloc, Pushers, InFlight
  <2>2. BlockPartition'
    BY <1>2, <2>1 DEF Alloc, Counting, BlockPartition
  <2>3. Out' = Out \cup {b} /\ b \notin Out
    BY <1>2, <2>1 DEF Alloc, Out, Counting, BlockPartition
  <2>4. used' = Cardinality(Out')
    BY <1>2, <2>3, OutFinite, FS_AddElement DEF Alloc, Counting, UsedIsExact
  <2> QED BY <1>2, <2>2, <2>4 DEF Alloc, Counting, UsedIsExact
<1>3. ASSUME NEW t \in Threads, NEW b \in Blocks, AllocCollect(t, b)
      PROVE  Counting'
  <2>1. Pushers' = Pushers /\ InFlight' = InFlight
    BY <1>3 DEF AllocCollect, Pushers, InFlight
  <2>2. BlockPartition'
    BY <1>3, <2>1 DEF AllocCollect, Collected, Counting, BlockPartition
  <2>3. Out' = (Out \ xfree) \cup {b} /\ b \notin Out \ xfree
    BY <1>3, <2>1 DEF AllocCollect, Collected, Out, Counting, BlockPartition
  <2>4. xfree \subseteq Out
    BY DEF Out
  <2>5. /\ IsFiniteSet(Out \ xfree)
        /\ Cardinality(Out \ xfree) = used - Cardinality(xfree)
    BY <2>4, OutFinite, CardMinus DEF Counting, UsedIsExact
  <2>6. used' = Cardinality(Out')
    BY <1>3, <2>3, <2>5, FS_AddElement DEF AllocCollect, UsedCollected
  <2> QED BY <1>3, <2>2, <2>6 DEF AllocCollect, Counting, UsedIsExact
<1>4. ASSUME NEW t \in Threads, NEW b \in Blocks, AllocExtend(t, b)
      PROVE  Counting'
  <2>1. Pushers' = Pushers /\ InFlight' = InFlight
    BY <1>4 DEF AllocExtend, Pushers, InFlight
  <2>2. Out \subseteq 1..capacity
    BY DEF Out, Counting, BlockPartition
  <2>3. BlockPartition'
    BY <1>4, <2>1, <2>2, ExtensionCounts
       DEF AllocExtend, Collected, Counting, BlockPartition, Out
  <2>4. Out' = Out \cup {b} /\ b \notin Out
    BY <1>4, <2>1, <2>2, ExtensionCounts DEF AllocExtend, Out
  <2>5. used' = Cardinality(Out')
    BY <1>4, <2>4, OutFinite, FS_AddElement
       DEF AllocExtend, Counting, UsedIsExact
  <2> QED BY <1>4, <2>3, <2>5 DEF AllocExtend, Counting, UsedIsExact
<1>5. ASSUME NEW t \in Threads, NEW b \in Blocks, FreeLocal(t, b)
      PROVE  Counting'
  <2>1. Pushers' = Pushers /\ InFlight' = InFlight
    BY <1>5, InFlightSame DEF FreeLocal, Pushers, InFlight
  <2>2. BlockPartition'
    BY <1>5, <2>1 DEF FreeLocal, Counting, BlockPartition
  <2>3. Out' = Out \ {b} /\ b \in Out
    BY <1>5, <2>1 DEF FreeLocal, Out, Counting, BlockPartition
  <2>4. used' = Cardinality(Out')
    BY <1>5, <2>3, OutFinite, FS_RemoveElement
       DEF FreeLocal, Counting, UsedIsExact
  <2> QED BY <1>5, <2>2, <2>4 DEF FreeLocal, Counting, UsedIsExact
<1>6. ASSUME NEW t \in Threads, NEW b \in Blocks, FreeRemote(t, b)
      PROVE  Counting'
  <2>1. Pushers' = Pushers \cup {t} /\ t \notin Pushers
    BY <1>6 DEF FreeRemote, Pushers, TypeOK
  <2>2. /\ \A u \in Pushers : blk'[u] = blk[u]
        /\ blk'[t] = b
    BY <1>6, <2>1 DEF FreeRemote, Pushers, TypeOK
  <2>3. InFlight' = InFlight \cup {b}
    BY <2>1, <2>2 DEF InFlight
  <2>4. BlockPartition'
    BY <1>6, <2>1, <2>2, <2>3
       DEF FreeRemote, lists, Counting, BlockPartition, InFlight
  <2>5. Out' = Out
    BY <1>6, <2>3 DEF FreeRemote, lists, Out
  <2> QED BY <1>6, <2>4, <2>5 DEF FreeRemote, lists, Counting, UsedIsExact
<1>7. ASSUME NEW t \in Threads, OwnerCollect(t)
      PROVE  Counting'
  <2>1. Pushers' = Pushers /\ InFlight' = InFlight
    BY <1>7, InFlightSame DEF OwnerCollect, Owns, Pushers, InFlight
  <2> QED BY <1>7, <2>1, CollectCounts DEF OwnerCollect
<1>8. ASSUME NEW t \in Threads, Retire(t)
      PROVE  Counting'
  <2>1. Pushers' = Pushers /\ InFlight' = InFlight
    BY <1>8, InFlightSame DEF Retire, Owns
  <2> QED
    BY <1>8, <2>1 DEF Retire, lists, Counting, BlockPartition, UsedIsExact, Out
<1>9. ASSUME NEW t \in Threads, Exit(t)
      PROVE  Counting'
  <2>1. Pushers' = Pushers /\ InFlight' = InFlight
    BY <1>9, InFlightSame DEF Exit, Owns
  <2> QED BY <1>9, <2>1, CollectCounts DEF Exit
<1>10. ASSUME NEW t \in Threads, See(t)
      PROVE  Counting'
  <2>1. Pushers' = Pushers /\ InFlight' = InFlight
    BY <1>10, InFlightSame DEF See
  <2> QED
    BY <1>10, <2>1 DEF See, lists, Counting, BlockPartition, UsedIsExact, Out
<1>11. ASSUME NEW t \in Threads, Push(t)
      PROVE  Counting'
  <2>1. Pushers' = Pushers \ {t} /\ t \in Pushers
    BY <1>11 DEF Push, Pushers, TypeOK
  <2>2. InFlight' = InFlight \ {blk[t]} /\ blk[t] \in InFlight
    BY <1>11, <2>1 DEF Push, InFlight, Counting, BlockPartition
  <2>3. BlockPartition'
    BY <1>11, <2>1, <2>2 DEF Push, Counting, BlockPartition
  <2>4. Out' = Out
    BY <1>11, <2>2 DEF Push, Out
  <2>5. below' \subseteq xfree'
    BY <1>11 DEF Push, Counting
  <2> QED BY <1>11, <2>3, <2>4, <2>5 DEF Push, Counting, UsedIsExact
<1>12. ASSUME NEW t \in Threads, Claimed(t)
      PROVE  Counting'
  <2>1. Pushers' = Pushers /\ InFlight' = InFlight
    BY <1>12, InFlightSame DEF Claimed, AfterCollect
  <2>2. CASE CollectPartly
    BY <1>12, <2>1, <2>2, CollectPartlyCounts DEF Claimed
  <2>3. CASE Collect
    BY <1>12, <2>1, <2>3, CollectCounts DEF Claimed
  <2> QED BY <1>12, <2>2, <2>3 DEF Claimed
<1>13. ASSUME NEW t \in Threads, Recollect(t)
      PROVE  Counting'
  <2>1. Pushers' = Pushers /\ InFlight' = InFlight
    BY <1>13, InFlightSame DEF Recollect, AfterCollect
  <2> QED BY <1>13, <2>1, CollectCounts DEF Recollect
<1>14. ASSUME NEW t \in Threads, IsFull(t)
      PROVE  Counting'
  <2>1. Pushers' = Pushers /\ InFlight' = InFlight
    BY <1>14, InFlightSame DEF IsFull
  <2> QED BY <1>14, <2>1, CollectCounts DEF IsFull
<1>15. ASSUME NEW t \in Threads, Register(t)
      PROVE  Counting'
  <2>1. Pushers' = Pushers /\ InFlight' = InFlight
    BY <1>15, InFlightSame DEF Register
  <2> QED
    BY <1>15, <2>1 DEF Register, lists, Counting, BlockPartition, UsedIsExact, Out
<1>16. ASSUME NEW t \in Threads, StampMapped(t)
      PROVE  Counting'
  <2>1. Pushers' = Pushers /\ InFlight' = InFlight
    BY <1>16, InFlightSame DEF StampMapped
  <2> QED
    BY <1>16, <2>1 DEF StampMapped, lists, Counting, BlockPartition, UsedIsExact, Out
<1>17. ASSUME NEW t \in Threads, TryUnown(t)
      PROVE  Counting'
  <2>1. Pushers' = Pushers /\ InFlight' = InFlight
    BY <1>17, InFlightSame DEF TryUnown
  <2> QED
    BY <1>17, <2>1 DEF TryUnown, lists, Counting, BlockPartition, UsedIsExact, Out
<1>18. ASSUME NEW t \in Threads, Unabandon(t)
      PROVE  Counting'
  <2>1. Pushers' = Pushers /\ InFlight' = InFlight
    BY <1>18, InFlightSame DEF Unabandon
  <2> QED
    BY <1>18, <2>1 DEF Unabandon, lists, Counting, BlockPartition, UsedIsExact, Out
<1>19. ASSUME NEW t \in Threads, Unmap(t)
      PROVE  Counting'
  <2>1. Pushers' = Pushers /\ InFlight' = InFlight
    BY <1>19, InFlightSame DEF Unmap
  <2> QED
    BY <1>19, <2>1 DEF Unmap, lists, Counting, BlockPartition, UsedIsExact, Out
<1>20. ASSUME NEW t \in Threads, FreeSlices(t)
      PROVE  Counting'
  <2>1. Pushers' = Pushers /\ InFlight' = InFlight
    BY <1>20, InFlightSame DEF FreeSlices
  <2> QED
    BY <1>20, <2>1 DEF FreeSlices, lists, Counting, BlockPartition, UsedIsExact, Out
<1>21. ASSUME NEW t \in Threads, ExitIsFull(t)
      PROVE  Counting'
  <2>1. Pushers' = Pushers /\ InFlight' = InFlight
    BY <1>21, InFlightSame DEF ExitIsFull
  <2> QED BY <1>21, <2>1, CollectCounts DEF ExitIsFull
<1>22. ASSUME NEW t \in Threads, ExitRegister(t)
      PROVE  Counting'
  <2>1. Pushers' = Pushers /\ InFlight' = InFlight
    BY <1>22, InFlightSame DEF ExitRegister
  <2> QED
    BY <1>22, <2>1 DEF ExitRegister, lists, Counting, BlockPartition, UsedIsExact, Out
<1>23. ASSUME NEW t \in Threads, ExitStamp(t)
      PROVE  Counting'
  <2>1. Pushers' = Pushers /\ InFlight' = InFlight
    BY <1>23, InFlightSame DEF ExitStamp
  <2> QED
    BY <1>23, <2>1 DEF ExitStamp, lists, Counting, BlockPartition, UsedIsExact, Out
<1>24. ASSUME NEW t \in Threads, ExitUnown(t)
      PROVE  Counting'
  <2>1. Pushers' = Pushers /\ InFlight' = InFlight
    BY <1>24, InFlightSame DEF ExitUnown
  <2> QED
    BY <1>24, <2>1 DEF ExitUnown, lists, Counting, BlockPartition, UsedIsExact, Out
<1>25. ASSUME NEW t \in Threads, ClaimOwnership(t)
      PROVE  Counting'
  <2>1. Pushers' = Pushers /\ InFlight' = InFlight
    BY <1>25, InFlightSame DEF ClaimOwnership
  <2> QED
    BY <1>25, <2>1 DEF ClaimOwnership, lists, Counting, BlockPartition, UsedIsExact, Out
<1>26. ASSUME NEW t \in Threads, ClearBit(t)
      PROVE  Counting'
  <2>1. Pushers' = Pushers /\ InFlight' = InFlight
    BY <1>26, InFlightSame DEF ClearBit
  <2> QED
    BY <1>26, <2>1 DEF ClearBit, lists, Counting, BlockPartition, UsedIsExact, Out
<1>27. ASSUME NEW t \in Threads, Adopt(t)
      PROVE  Counting'
  <2>1. Pushers' = Pushers /\ InFlight' = InFlight
    BY <1>27, InFlightSame DEF Adopt
  <2> QED
    BY <1>27, <2>1 DEF Adopt, lists, Counting, BlockPartition, UsedIsExact, Out
<1>28. ASSUME NEW t \in Threads, AdoptCollect(t)
      PROVE  Counting'
  <2>1. Pushers' = Pushers /\ InFlight' = InFlight
    BY <1>28, InFlightSame DEF AdoptCollect
  <2> QED BY <1>28, <2>1, CollectCounts DEF AdoptCollect
<1> QED BY <1>1, <1>2, <1>3, <1>4, <1>5, <1>6, <1>7, <1>8, <1>9, <1>10,
  <1>11, <1>12, <1>13, <1>14, <1>15, <1>16, <1>17, <1>18, <1>19, <1>20,
  <1>21, <1>22, <1>23, <1>24, <1>25, <1>26, <1>27, <1>28 DEF Next, Begin,
  Step

\* Every action keeps used = 0 on the way to release_page_slices.
LEMMA EmptyStep ==
  ASSUME TypeOK, Ownership, Counting, EmptyWhenReleased, [Next]_vars
  PROVE  EmptyWhenReleased'
<1> USE PageAssumption DEF TypeOK, Ownership, ExclusiveOwner, Holds, Pcs,
        HoldPcs, ClaimPcs, ExitPcs, AdoptPcs, ReleasePcs, Goto,
        EmptyWhenReleased
<1>1. CASE UNCHANGED vars
  BY <1>1 DEF vars
<1>2. ASSUME NEW t \in Threads, NEW b \in Blocks, Alloc(t, b)
      PROVE  EmptyWhenReleased'
  BY <1>2 DEF Alloc, Owns
<1>3. ASSUME NEW t \in Threads, NEW b \in Blocks, AllocCollect(t, b)
      PROVE  EmptyWhenReleased'
  BY <1>3 DEF AllocCollect, Owns
<1>4. ASSUME NEW t \in Threads, NEW b \in Blocks, AllocExtend(t, b)
      PROVE  EmptyWhenReleased'
  BY <1>4 DEF AllocExtend, Owns
<1>5. ASSUME NEW t \in Threads, NEW b \in Blocks, FreeLocal(t, b)
      PROVE  EmptyWhenReleased'
  <2>1. alive /\ linked = t
    BY <1>5, InUse DEF FreeLocal, OwnStampPcs, Out, Counting
  <2> QED BY <1>5, <2>1 DEF FreeLocal
<1>6. ASSUME NEW t \in Threads, NEW b \in Blocks, FreeRemote(t, b)
      PROVE  EmptyWhenReleased'
  BY <1>6 DEF FreeRemote, lists
<1>7. ASSUME NEW t \in Threads, OwnerCollect(t)
      PROVE  EmptyWhenReleased'
  BY <1>7 DEF OwnerCollect, Owns, Collect
<1>8. ASSUME NEW t \in Threads, Retire(t)
      PROVE  EmptyWhenReleased'
  BY <1>8 DEF Retire, Owns, lists
<1>9. ASSUME NEW t \in Threads, Exit(t)
      PROVE  EmptyWhenReleased'
  BY <1>9 DEF Exit, Owns, Collect
<1>10. ASSUME NEW t \in Threads, See(t)
      PROVE  EmptyWhenReleased'
  BY <1>10 DEF See, lists
<1>11. ASSUME NEW t \in Threads, Push(t)
      PROVE  EmptyWhenReleased'
  BY <1>11 DEF Push
<1>12. ASSUME NEW t \in Threads, Claimed(t)
      PROVE  EmptyWhenReleased'
  BY <1>12 DEF Claimed, AfterCollect, Collect, CollectPartly
<1>13. ASSUME NEW t \in Threads, Recollect(t)
      PROVE  EmptyWhenReleased'
  BY <1>13 DEF Recollect, AfterCollect, Collect
<1>14. ASSUME NEW t \in Threads, IsFull(t)
      PROVE  EmptyWhenReleased'
  BY <1>14 DEF IsFull, Collect
<1>15. ASSUME NEW t \in Threads, Register(t)
      PROVE  EmptyWhenReleased'
  BY <1>15 DEF Register, PageAbandon, lists
<1>16. ASSUME NEW t \in Threads, StampMapped(t)
      PROVE  EmptyWhenReleased'
  BY <1>16 DEF StampMapped, lists
<1>17. ASSUME NEW t \in Threads, TryUnown(t)
      PROVE  EmptyWhenReleased'
  BY <1>17 DEF TryUnown, lists
<1>18. ASSUME NEW t \in Threads, Unabandon(t)
      PROVE  EmptyWhenReleased'
  BY <1>18 DEF Unabandon, lists
<1>19. ASSUME NEW t \in Threads, Unmap(t)
      PROVE  EmptyWhenReleased'
  BY <1>19 DEF Unmap, lists
<1>20. ASSUME NEW t \in Threads, FreeSlices(t)
      PROVE  EmptyWhenReleased'
  BY <1>20 DEF FreeSlices, lists
<1>21. ASSUME NEW t \in Threads, ExitIsFull(t)
      PROVE  EmptyWhenReleased'
  BY <1>21 DEF ExitIsFull, Collect
<1>22. ASSUME NEW t \in Threads, ExitRegister(t)
      PROVE  EmptyWhenReleased'
  BY <1>22 DEF ExitRegister, PageAbandon, lists
<1>23. ASSUME NEW t \in Threads, ExitStamp(t)
      PROVE  EmptyWhenReleased'
  BY <1>23 DEF ExitStamp, lists
<1>24. ASSUME NEW t \in Threads, ExitUnown(t)
      PROVE  EmptyWhenReleased'
  BY <1>24 DEF ExitUnown, lists
<1>25. ASSUME NEW t \in Threads, ClaimOwnership(t)
      PROVE  EmptyWhenReleased'
  BY <1>25 DEF ClaimOwnership, lists
<1>26. ASSUME NEW t \in Threads, ClearBit(t)
      PROVE  EmptyWhenReleased'
  BY <1>26 DEF ClearBit, lists
<1>27. ASSUME NEW t \in Threads, Adopt(t)
      PROVE  EmptyWhenReleased'
  BY <1>27 DEF Adopt, lists
<1>28. ASSUME NEW t \in Threads, AdoptCollect(t)
      PROVE  EmptyWhenReleased'
  BY <1>28 DEF AdoptCollect, Collect
<1> QED BY <1>1, <1>2, <1>3, <1>4, <1>5, <1>6, <1>7, <1>8, <1>9, <1>10,
  <1>11, <1>12, <1>13, <1>14, <1>15, <1>16, <1>17, <1>18, <1>19, <1>20,
  <1>21, <1>22, <1>23, <1>24, <1>25, <1>26, <1>27, <1>28 DEF Next, Begin,
  Step

\* Every action keeps the variables in their types; `used` stays within
\* 0..Reserved because it counts blocks.
LEMMA TypeStep ==
  ASSUME TypeOK, Counting, Counting', [Next]_vars
  PROVE  TypeOK'
<1>1. capacity' \in 0..Reserved => used' \in 0..Reserved
  <2>1. Out' \in SUBSET (1..capacity')
    BY DEF Out, Counting, BlockPartition
  <2> QED BY <2>1, Bounded DEF Counting, UsedIsExact
<1> USE PageAssumption DEF TypeOK, Pcs,
        HoldPcs, ClaimPcs, ExitPcs, AdoptPcs, ReleasePcs, Goto
<1>2. CASE UNCHANGED vars
  BY <1>2, <1>1 DEF vars
<1>3. ASSUME NEW t \in Threads, NEW b \in Blocks, Alloc(t, b)
      PROVE  TypeOK'
  BY <1>3, <1>1 DEF Alloc, Owns
<1>4. ASSUME NEW t \in Threads, NEW b \in Blocks, AllocCollect(t, b)
      PROVE  TypeOK'
  BY <1>4, <1>1 DEF AllocCollect, Owns, Collect, Collected
<1>5. ASSUME NEW t \in Threads, NEW b \in Blocks, AllocExtend(t, b)
      PROVE  TypeOK'
  <2>1. capacity' \in 0..Reserved
    BY <1>5, ExtensionCounts DEF AllocExtend
  <2> QED BY <1>5, <1>1, <2>1 DEF AllocExtend, Extension
<1>6. ASSUME NEW t \in Threads, NEW b \in Blocks, FreeLocal(t, b)
      PROVE  TypeOK'
  BY <1>6, <1>1 DEF FreeLocal
<1>7. ASSUME NEW t \in Threads, NEW b \in Blocks, FreeRemote(t, b)
      PROVE  TypeOK'
  BY <1>7, <1>1 DEF FreeRemote, lists
<1>8. ASSUME NEW t \in Threads, OwnerCollect(t)
      PROVE  TypeOK'
  BY <1>8, <1>1 DEF OwnerCollect, Owns, Collect, Collected
<1>9. ASSUME NEW t \in Threads, Retire(t)
      PROVE  TypeOK'
  BY <1>9, <1>1 DEF Retire, Owns, lists
<1>10. ASSUME NEW t \in Threads, Exit(t)
      PROVE  TypeOK'
  BY <1>10, <1>1 DEF Exit, Owns, Collect, Collected
<1>11. ASSUME NEW t \in Threads, See(t)
      PROVE  TypeOK'
  BY <1>11, <1>1 DEF See, lists
<1>12. ASSUME NEW t \in Threads, Push(t)
      PROVE  TypeOK'
  BY <1>12, <1>1 DEF Push
<1>13. ASSUME NEW t \in Threads, Claimed(t)
      PROVE  TypeOK'
  BY <1>13, <1>1 DEF Claimed, AfterCollect, Collect, Collected, CollectPartly, FreePartly, LocalPartly
<1>14. ASSUME NEW t \in Threads, Recollect(t)
      PROVE  TypeOK'
  BY <1>14, <1>1 DEF Recollect, AfterCollect, Collect, Collected
<1>15. ASSUME NEW t \in Threads, IsFull(t)
      PROVE  TypeOK'
  BY <1>15, <1>1 DEF IsFull, Collect, Collected
<1>16. ASSUME NEW t \in Threads, Register(t)
      PROVE  TypeOK'
  BY <1>16, <1>1 DEF Register, PageAbandon, lists
<1>17. ASSUME NEW t \in Threads, StampMapped(t)
      PROVE  TypeOK'
  BY <1>17, <1>1 DEF StampMapped, lists
<1>18. ASSUME NEW t \in Threads, TryUnown(t)
      PROVE  TypeOK'
  BY <1>18, <1>1 DEF TryUnown, lists
<1>19. ASSUME NEW t \in Threads, Unabandon(t)
      PROVE  TypeOK'
  BY <1>19, <1>1 DEF Unabandon, lists
<1>20. ASSUME NEW t \in Threads, Unmap(t)
      PROVE  TypeOK'
  BY <1>20, <1>1 DEF Unmap, lists
<1>21. ASSUME NEW t \in Threads, FreeSlices(t)
      PROVE  TypeOK'
  BY <1>21, <1>1 DEF FreeSlices, lists
<1>22. ASSUME NEW t \in Threads, ExitIsFull(t)
      PROVE  TypeOK'
  BY <1>22, <1>1 DEF ExitIsFull, Collect, Collected
<1>23. ASSUME NEW t \in Threads, ExitRegister(t)
      PROVE  TypeOK'
  BY <1>23, <1>1 DEF ExitRegister, PageAbandon, lists
<1>24. ASSUME NEW t \in Threads, ExitStamp(t)
      PROVE  TypeOK'
  BY <1>24, <1>1 DEF ExitStamp, lists
<1>25. ASSUME NEW t \in Threads, ExitUnown(t)
      PROVE  TypeOK'
  BY <1>25, <1>1 DEF ExitUnown, lists
<1>26. ASSUME NEW t \in Threads, ClaimOwnership(t)
      PROVE  TypeOK'
  BY <1>26, <1>1 DEF ClaimOwnership, lists
<1>27. ASSUME NEW t \in Threads, ClearBit(t)
      PROVE  TypeOK'
  BY <1>27, <1>1 DEF ClearBit, lists
<1>28. ASSUME NEW t \in Threads, Adopt(t)
      PROVE  TypeOK'
  BY <1>28, <1>1 DEF Adopt, lists
<1>29. ASSUME NEW t \in Threads, AdoptCollect(t)
      PROVE  TypeOK'
  BY <1>29, <1>1 DEF AdoptCollect, Collect, Collected
<1> QED BY <1>2, <1>3, <1>4, <1>5, <1>6, <1>7, <1>8, <1>9, <1>10, <1>11,
  <1>12, <1>13, <1>14, <1>15, <1>16, <1>17, <1>18, <1>19, <1>20, <1>21,
  <1>22, <1>23, <1>24, <1>25, <1>26, <1>27, <1>28, <1>29 DEF Next, Begin,
  Step

-----------------------------------------------------------------------------
\* A page fresh from new_page satisfies the inductive invariant.
LEMMA InitIndInv == Init => IndInv
<1> SUFFICES ASSUME Init PROVE IndInv
  OBVIOUS
<1> USE PageAssumption DEF Init
<1>1. Pushers = {} /\ InFlight = {} /\ Out = {}
  BY DEF Pushers, InFlight, Out
<1>2. TypeOK
  <2>1. 1 \in Blocks /\ "idle" \in Pcs
    BY DEF Blocks, Pcs
  <2>2. pc \in [Threads -> Pcs] /\ blk \in [Threads -> Blocks]
    BY <2>1
  <2>3. used \in 0..Reserved /\ capacity \in 0..Reserved
    OBVIOUS
  <2>4. /\ owned \in BOOLEAN /\ registered \in BOOLEAN
        /\ inMap \in BOOLEAN /\ alive \in BOOLEAN
    BY Zenon
  <2> QED BY <2>2, <2>3, <2>4 DEF TypeOK
<1>3. Ownership
  BY DEF Ownership, ExclusiveOwner, Holds, HoldPcs, ClaimPcs, ExitPcs,
         AdoptPcs, ReleasePcs, OwnStampPcs
<1>4. Counting
  BY <1>1, FS_EmptySet DEF Counting, BlockPartition, UsedIsExact
<1>5. EmptyWhenReleased /\ RegistryState /\ FullWhenHidden
  BY DEF EmptyWhenReleased, RegistryState, FullWhenHidden, ReleasePcs
<1> QED BY <1>2, <1>3, <1>4, <1>5 DEF IndInv

\* The parts of the inductive invariant together are preserved by every step.
LEMMA NextIndInv == IndInv /\ [Next]_vars => IndInv'
<1> SUFFICES ASSUME IndInv, [Next]_vars PROVE IndInv'
  OBVIOUS
<1> USE DEF IndInv
<1>1. Counting'
  BY CountingStep
<1>2. TypeOK'
  BY <1>1, TypeStep
<1>3. Ownership' /\ EmptyWhenReleased'
  BY OwnershipStep, EmptyStep
<1>4. RegistryState' /\ FullWhenHidden'
  BY RegistryStep, FullStep
<1> QED BY <1>1, <1>2, <1>3, <1>4

(***************************************************************************)
(* The inductive invariant holds in every reachable state, for any number  *)
(* of threads and blocks: it is what the other theorems rest on.           *)
(***************************************************************************)
THEOREM Invariance == Spec => []IndInv
BY InitIndInv, NextIndInv, PTL DEF Spec

-----------------------------------------------------------------------------
(***************************************************************************)
(* The properties of PageOwnership, for every set of threads, page size    *)
(* and extension step.                                                     *)
(***************************************************************************)

\* The counters and lists of a page stay in range: `used`, a wrapping
\* counter in the code, never passes zero or Reserved.
THEOREM TypeCorrect == Spec => []TypeOK
BY Invariance, PTL DEF IndInv

\* At most one thread runs a page, and the ownership bit says whether one
\* does (thread_free_push, claim_ownership, try_unown, set_unowned).
THEOREM ExclusiveOwnership == Spec => []ExclusiveOwner
<1>1. IndInv => ExclusiveOwner
  BY DEF IndInv, Ownership
<1> QED BY <1>1, Invariance, PTL

\* The xthread_id test of heap::free never sends a thread that does not own
\* the page down the unsynchronised path.
THEOREM DispatchIsSound == Spec => []DispatchSound
<1>1. IndInv => DispatchSound
  BY DEF IndInv, Ownership, DispatchSound, OwnStampPcs, ReleasePcs
<1> QED BY <1>1, Invariance, PTL

\* Blocks stay partitioned and `used` stays exact under every interleaving
\* of allocations, frees, pushes and collects.
THEOREM BlockAccounting == Spec => [](BlockPartition /\ UsedIsExact)
<1>1. IndInv => BlockPartition /\ UsedIsExact
  BY DEF IndInv, Counting
<1> QED BY <1>1, Invariance, PTL

\* used = 0 means that no block is out.
LEMMA EmptyOut ==
  ASSUME IndInv, used = 0
  PROVE  live = {} /\ xfree = {} /\ InFlight = {} /\ Pushers = {}
<1>1. Out = {}
  BY InUse DEF IndInv
<1> QED BY <1>1 DEF Out, InFlight

\* release_page_slices only ever runs on a page nobody can reach.
THEOREM SafeRelease == Spec => []ReleaseIsSafe
<1>1. ASSUME IndInv PROVE ReleaseIsSafe
  <2> SUFFICES ASSUME ~alive \/ \E t \in Threads : pc[t] \in ReleasePcs
               PROVE  /\ live = {} /\ xfree = {} /\ Pushers = {}
                      /\ ~registered
    BY DEF ReleaseIsSafe
  <2>1. used = 0
    BY <1>1 DEF IndInv, EmptyWhenReleased
  <2>2. ~registered
    BY <1>1 DEF IndInv, RegistryState, TypeOK
  <2> QED BY <1>1, <2>1, <2>2, EmptyOut
<1> QED BY <1>1, Invariance, PTL

\* A pointer the program has not freed resolves to a live page.
THEOREM LivePointersResolve == Spec => []LiveIsMapped
<1>1. ASSUME IndInv PROVE LiveIsMapped
  <2> SUFFICES ASSUME ~inMap \/ ~alive PROVE live \cup InFlight = {}
    BY <1>1 DEF LiveIsMapped, IndInv, TypeOK
  <2>1. used = 0
    BY <1>1 DEF IndInv, EmptyWhenReleased, ReleasePcs
  <2> QED BY <1>1, <2>1, EmptyOut
<1> QED BY <1>1, Invariance, PTL

\* The registry shows only unowned pages stamped Mapped (and all of them, if
\* the OS maps the registry).  What an unowned page that is not stamped so could
\* give is queued in xthread_free, where frees pushed since is_full have put it;
\* the page may be empty by then.
THEOREM RegistryIsTrue == Spec => [](RegistryMatchesStamp /\ HiddenRoomIsQueued)
<1>1. ASSUME IndInv PROVE RegistryMatchesStamp /\ HiddenRoomIsQueued
  <2>1. alive /\ ~owned => \A t \in Threads : pc[t] \notin HoldPcs
    BY <1>1 DEF IndInv, Ownership, ExclusiveOwner, Holds
  <2>2. RegistryMatchesStamp
    BY <1>1, <2>1 DEF IndInv, RegistryState, RegistryMatchesStamp, HoldPcs,
       ClaimPcs, ExitPcs, AdoptPcs, ReleasePcs, TypeOK
  <2>3. HiddenRoomIsQueued
    BY <1>1 DEF IndInv, FullWhenHidden, NothingToGive, HiddenRoomIsQueued,
       Counting, BlockPartition, Blocks
  <2> QED BY <2>2, <2>3
<1> QED BY <1>1, Invariance, PTL

-----------------------------------------------------------------------------
(***************************************************************************)
(* The page implements the block store.  Each action is a step of          *)
(* BlockStore or leaves `live`, `xfree \cup InFlight` and `alive` alone.   *)
(***************************************************************************)
LEMMA StoreStep ==
  ASSUME IndInv, [Next]_vars
  PROVE  [Store!StoreNext]_(Store!storeVars)
<1> DEFINE Goal == [Store!StoreNext]_(Store!storeVars)
<1> USE DEF Store!StoreNext, Store!storeVars, Goto
<1>0. TypeOK /\ Counting /\ BlockPartition
  BY DEF IndInv, Counting
<1>a. ASSUME Collect, live' = live, alive' = alive, InFlight' = InFlight, alive
      PROVE  Goal
  <2>1. Store!Recycle(xfree)
    BY <1>a, <1>0 DEF Store!Recycle, Collect, BlockPartition
  <2>2. xfree \in SUBSET Blocks
    BY <1>0 DEF TypeOK
  <2> QED BY <2>1, <2>2
<1>b. \A t \in Threads : Holds(t) => alive
  BY DEF IndInv, Ownership
<1> USE DEF Holds, HoldPcs, ClaimPcs, ExitPcs, AdoptPcs, ReleasePcs
<1>1. CASE UNCHANGED vars
  BY <1>1 DEF vars, InFlight, Pushers
<1>2. ASSUME NEW t \in Threads, NEW b \in Blocks, Alloc(t, b)
      PROVE  Goal
  <2>1. InFlight' = InFlight
    BY <1>2 DEF Alloc, Pushers, InFlight
  <2>2. Store!Malloc(b)
    BY <1>2, <1>0, <1>b, <2>1 DEF Alloc, Owns, Store!Malloc, BlockPartition
  <2> QED BY <2>2
<1>3. ASSUME NEW t \in Threads, NEW b \in Blocks, AllocCollect(t, b)
      PROVE  Goal
  <2>1. InFlight' = InFlight
    BY <1>3 DEF AllocCollect, Pushers, InFlight
  <2>2. xfree \in SUBSET Blocks
    BY <1>0 DEF TypeOK
  <2>3. Store!MallocRecycle(b, xfree)
    BY <1>3, <1>0, <1>b, <2>1
       DEF AllocCollect, Owns, Collected, Store!MallocRecycle, BlockPartition
  <2> QED BY <2>2, <2>3
<1>4. ASSUME NEW t \in Threads, NEW b \in Blocks, AllocExtend(t, b)
      PROVE  Goal
  <2>1. InFlight' = InFlight
    BY <1>4 DEF AllocExtend, Pushers, InFlight
  <2>2. b \notin live \cup (xfree \cup InFlight)
    BY <1>4, <1>0, ExtensionCounts DEF AllocExtend, BlockPartition
  <2>3. Store!Malloc(b)
    BY <1>4, <1>b, <2>1, <2>2 DEF AllocExtend, Owns, Store!Malloc
  <2> QED BY <2>3
<1>5. ASSUME NEW t \in Threads, NEW b \in Blocks, FreeLocal(t, b)
      PROVE  Goal
  <2>1. InFlight' = InFlight
    BY <1>5, <1>0, InFlightSame DEF FreeLocal, Pushers, InFlight
  <2>2. Store!FreeNow(b)
    BY <1>5, <2>1 DEF FreeLocal, Store!FreeNow
  <2> QED BY <2>2
<1>6. ASSUME NEW t \in Threads, NEW b \in Blocks, FreeRemote(t, b)
      PROVE  Goal
  <2>1. Pushers' = Pushers \cup {t} /\ t \notin Pushers
    BY <1>6, <1>0 DEF FreeRemote, Pushers, TypeOK
  <2>2. /\ \A u \in Pushers : blk'[u] = blk[u]
        /\ blk'[t] = b
    BY <1>6, <1>0, <2>1 DEF FreeRemote, TypeOK, Pushers
  <2>3. InFlight' = InFlight \cup {b}
    BY <2>1, <2>2 DEF InFlight
  <2>4. Store!FreeLater(b)
    BY <1>6, <2>3 DEF FreeRemote, lists, Store!FreeLater
  <2> QED BY <2>4
<1>7. ASSUME NEW t \in Threads, OwnerCollect(t)
      PROVE  Goal
  <2>1. InFlight' = InFlight
    BY <1>7, <1>0, InFlightSame DEF OwnerCollect, Owns, Pushers, InFlight
  <2> QED BY <1>7, <2>1, <1>a, <1>b DEF OwnerCollect, Owns
<1>8. ASSUME NEW t \in Threads, Retire(t)
      PROVE  Goal
  <2>1. InFlight' = InFlight
    BY <1>8, <1>0, InFlightSame DEF Retire, Owns
  <2> QED BY <1>8, <2>1 DEF Retire, lists
<1>9. ASSUME NEW t \in Threads, Exit(t)
      PROVE  Goal
  <2>1. InFlight' = InFlight
    BY <1>9, <1>0, InFlightSame DEF Exit, Owns
  <2> QED BY <1>9, <2>1, <1>a, <1>b DEF Exit, Owns
<1>10. ASSUME NEW t \in Threads, See(t)
      PROVE  Goal
  <2>1. InFlight' = InFlight
    BY <1>10, <1>0, InFlightSame DEF See
  <2> QED BY <1>10, <2>1 DEF See, lists
<1>11. ASSUME NEW t \in Threads, Push(t)
      PROVE  Goal
  <2>1. Pushers' = Pushers \ {t} /\ t \in Pushers
    BY <1>11, <1>0 DEF Push, Pushers, TypeOK
  <2>2. InFlight' = InFlight \ {blk[t]} /\ blk[t] \in InFlight
    BY <1>11, <1>0, <2>1 DEF Push, InFlight, BlockPartition
  <2> QED BY <1>11, <2>2 DEF Push
<1>12. ASSUME NEW t \in Threads, Claimed(t)
      PROVE  Goal
  <2>1. InFlight' = InFlight
    BY <1>12, <1>0, InFlightSame DEF Claimed, AfterCollect
  <2>2. CASE CollectPartly
    <3>1. below \in SUBSET Blocks /\ below \subseteq xfree
      BY <1>0 DEF TypeOK, Counting
    <3>2. Store!Recycle(below)
      BY <1>12, <1>0, <1>b, <2>1, <2>2, <3>1
         DEF Claimed, CollectPartly, Store!Recycle, BlockPartition
    <3> QED BY <3>1, <3>2
  <2>3. CASE Collect
    BY <1>12, <2>1, <2>3, <1>a, <1>b DEF Claimed
  <2> QED BY <1>12, <2>2, <2>3 DEF Claimed
<1>13. ASSUME NEW t \in Threads, Recollect(t)
      PROVE  Goal
  <2>1. InFlight' = InFlight
    BY <1>13, <1>0, InFlightSame DEF Recollect, AfterCollect
  <2> QED BY <1>13, <2>1, <1>a, <1>b DEF Recollect
<1>14. ASSUME NEW t \in Threads, IsFull(t)
      PROVE  Goal
  <2>1. InFlight' = InFlight
    BY <1>14, <1>0, InFlightSame DEF IsFull
  <2> QED BY <1>14, <2>1, <1>a, <1>b DEF IsFull
<1>15. ASSUME NEW t \in Threads, Register(t)
      PROVE  Goal
  <2>1. InFlight' = InFlight
    BY <1>15, <1>0, InFlightSame DEF Register
  <2> QED BY <1>15, <2>1 DEF Register, lists
<1>16. ASSUME NEW t \in Threads, StampMapped(t)
      PROVE  Goal
  <2>1. InFlight' = InFlight
    BY <1>16, <1>0, InFlightSame DEF StampMapped
  <2> QED BY <1>16, <2>1 DEF StampMapped, lists
<1>17. ASSUME NEW t \in Threads, TryUnown(t)
      PROVE  Goal
  <2>1. InFlight' = InFlight
    BY <1>17, <1>0, InFlightSame DEF TryUnown
  <2> QED BY <1>17, <2>1 DEF TryUnown, lists
<1>18. ASSUME NEW t \in Threads, Unabandon(t)
      PROVE  Goal
  <2>1. InFlight' = InFlight
    BY <1>18, <1>0, InFlightSame DEF Unabandon
  <2> QED BY <1>18, <2>1 DEF Unabandon, lists
<1>19. ASSUME NEW t \in Threads, Unmap(t)
      PROVE  Goal
  <2>1. InFlight' = InFlight
    BY <1>19, <1>0, InFlightSame DEF Unmap
  <2> QED BY <1>19, <2>1 DEF Unmap, lists
<1>20. ASSUME NEW t \in Threads, FreeSlices(t)
      PROVE  Goal
  <2>1. InFlight' = InFlight
    BY <1>20, <1>0, InFlightSame DEF FreeSlices
  <2>2. used = 0 /\ alive
    BY <1>20, <1>b DEF FreeSlices, IndInv, EmptyWhenReleased
  <2>3. live = {} /\ xfree \cup InFlight = {}
    BY <2>2, EmptyOut
  <2>4. Store!GiveBack
    BY <1>20, <2>1, <2>2, <2>3 DEF Store!GiveBack, FreeSlices, lists
  <2> QED BY <2>4
<1>21. ASSUME NEW t \in Threads, ExitIsFull(t)
      PROVE  Goal
  <2>1. InFlight' = InFlight
    BY <1>21, <1>0, InFlightSame DEF ExitIsFull
  <2> QED BY <1>21, <2>1, <1>a, <1>b DEF ExitIsFull
<1>22. ASSUME NEW t \in Threads, ExitRegister(t)
      PROVE  Goal
  <2>1. InFlight' = InFlight
    BY <1>22, <1>0, InFlightSame DEF ExitRegister
  <2> QED BY <1>22, <2>1 DEF ExitRegister, lists
<1>23. ASSUME NEW t \in Threads, ExitStamp(t)
      PROVE  Goal
  <2>1. InFlight' = InFlight
    BY <1>23, <1>0, InFlightSame DEF ExitStamp
  <2> QED BY <1>23, <2>1 DEF ExitStamp, lists
<1>24. ASSUME NEW t \in Threads, ExitUnown(t)
      PROVE  Goal
  <2>1. InFlight' = InFlight
    BY <1>24, <1>0, InFlightSame DEF ExitUnown
  <2> QED BY <1>24, <2>1 DEF ExitUnown, lists
<1>25. ASSUME NEW t \in Threads, ClaimOwnership(t)
      PROVE  Goal
  <2>1. InFlight' = InFlight
    BY <1>25, <1>0, InFlightSame DEF ClaimOwnership
  <2> QED BY <1>25, <2>1 DEF ClaimOwnership, lists
<1>26. ASSUME NEW t \in Threads, ClearBit(t)
      PROVE  Goal
  <2>1. InFlight' = InFlight
    BY <1>26, <1>0, InFlightSame DEF ClearBit
  <2> QED BY <1>26, <2>1 DEF ClearBit, lists
<1>27. ASSUME NEW t \in Threads, Adopt(t)
      PROVE  Goal
  <2>1. InFlight' = InFlight
    BY <1>27, <1>0, InFlightSame DEF Adopt
  <2> QED BY <1>27, <2>1 DEF Adopt, lists
<1>28. ASSUME NEW t \in Threads, AdoptCollect(t)
      PROVE  Goal
  <2>1. InFlight' = InFlight
    BY <1>28, <1>0, InFlightSame DEF AdoptCollect
  <2> QED BY <1>28, <2>1, <1>a, <1>b DEF AdoptCollect
<1> QED BY <1>1, <1>2, <1>3, <1>4, <1>5, <1>6, <1>7, <1>8, <1>9, <1>10,
  <1>11, <1>12, <1>13, <1>14, <1>15, <1>16, <1>17, <1>18, <1>19, <1>20,
  <1>21, <1>22, <1>23, <1>24, <1>25, <1>26, <1>27, <1>28 DEF Next, Begin,
  Step

\* The page implements the abstract block store: no block is handed out
\* while held or on its way back, none comes back that was not handed out,
\* and the slices go back to the arena only when every block is home.
THEOREM PageImplementsStore == Spec => StoreRefined
<1>1. Init => Store!StoreInit
  BY DEF Init, Store!StoreInit, InFlight, Pushers
<1>2. IndInv /\ [Next]_vars => [Store!StoreNext]_(Store!storeVars)
  BY StoreStep
<1> QED BY <1>1, <1>2, Invariance, PTL DEF Spec, StoreRefined, Store!StoreSpec

-----------------------------------------------------------------------------
(***************************************************************************)
(* The slice after the page: SliceReuse, on variables of its own.  What    *)
(* the search of the abandoned registry may rely on until a search that    *)
(* was overtaken claims what it finds, for any number of threads, of size  *)
(* classes and of pages in succession.                                     *)
(***************************************************************************)
\* A thread that has claimed the page and not yet let go of it.
Claiming(t) == doing[t] \in {"freeing", "clearBit", "adopt"}

(***************************************************************************)
(* The hand-over of the ownership bit.  A page with an owner, or with a    *)
(* thread busy with a claim, is allocated and its header says owned; the   *)
(* header a released page leaves behind keeps saying so as long as a       *)
(* search that saw the registry bit is under way and was not overtaken, so *)
(* its claim fails.                                                        *)
(***************************************************************************)
HandOver ==
  /\ owner # NoOwner => allocated /\ hdrOwned
  /\ \A t \in SliceThreads : Claiming(t) => allocated /\ hdrOwned
  /\ \A t \in SliceThreads : doing[t] = "adopt" => registry = {}

\* The header says for which class the slice is registered, searched and
\* claimed.
RightClass ==
  /\ allocated => hdrBin \in Bins
  /\ registry \subseteq {hdrBin}
  /\ \A t \in SliceThreads :
       doing[t] \in {"clearBit", "adopt"} => hdrBin = want[t]
  /\ \A t \in Searching \ overtaken :
       hdrBin = want[t] /\ (~allocated => hdrOwned)

\* The inductive invariant of a slice on which no search was misled.
SliceInv ==
  /\ SliceTypeOK
  /\ ~misled => OneOwner /\ RegistryShowsOnlyAbandoned /\ HandOver /\ RightClass

\* A fresh arena satisfies the invariant.
LEMMA SliceBegins == SliceInit => SliceInv
<1> SUFFICES ASSUME SliceInit PROVE SliceInv
  OBVIOUS
<1> USE ReuseAssumption DEF SliceInit
<1>1. SliceTypeOK
  <2>1. /\ doing \in [SliceThreads -> {"idle", "freeing", "seen", "clearBit", "adopt"}]
        /\ lives \in 0..MaxLives
    OBVIOUS
  <2>2. /\ allocated \in BOOLEAN /\ hdrOwned \in BOOLEAN
        /\ hdrBin \in Bins \cup {NoBin}
        /\ owner \in SliceThreads \cup {NoOwner}
        /\ registry \subseteq Bins
    OBVIOUS
  <2> QED BY <2>1, <2>2 DEF SliceTypeOK
<1>2. OneOwner /\ RegistryShowsOnlyAbandoned
  BY DEF OneOwner, RegistryShowsOnlyAbandoned
<1>3. HandOver /\ RightClass
  BY DEF HandOver, RightClass, Claiming, Searching
<1> QED BY <1>1, <1>2, <1>3 DEF SliceInv

\* Every step keeps the types.
LEMMA SliceTypeStep ==
  ASSUME SliceTypeOK, [SliceNext]_sliceVars
  PROVE  SliceTypeOK'
<1> USE ReuseAssumption DEF SliceTypeOK, MoveTo, Searching, PageAbandoned, history
<1>1. ASSUME NEW t \in SliceThreads, NEW b \in Bins, NewPage(t, b) PROVE SliceTypeOK'
  BY <1>1 DEF NewPage
<1>2. ASSUME NEW t \in SliceThreads, NEW b \in Bins, SeeBit(t, b) PROVE SliceTypeOK'
  BY <1>2 DEF SeeBit
<1>3. ASSUME NEW t \in SliceThreads, Abandon(t) PROVE SliceTypeOK'
  BY <1>3 DEF Abandon
<1>4. ASSUME NEW t \in SliceThreads, OwnerRelease(t) PROVE SliceTypeOK'
  BY <1>4 DEF OwnerRelease
<1>5. ASSUME NEW t \in SliceThreads, FreeClaim(t) PROVE SliceTypeOK'
  BY <1>5 DEF FreeClaim
<1>6. ASSUME NEW t \in SliceThreads, FreeRelease(t) PROVE SliceTypeOK'
  BY <1>6 DEF FreeRelease
<1>7. ASSUME NEW t \in SliceThreads, FreeUnown(t) PROVE SliceTypeOK'
  BY <1>7 DEF FreeUnown
<1>8. ASSUME NEW t \in SliceThreads, Claim(t) PROVE SliceTypeOK'
  BY <1>8 DEF Claim
<1>9. ASSUME NEW t \in SliceThreads, ClearSeenBit(t) PROVE SliceTypeOK'
  BY <1>9 DEF ClearSeenBit
<1>10. ASSUME NEW t \in SliceThreads, Reclaim(t) PROVE SliceTypeOK'
  BY <1>10 DEF Reclaim
<1>11. CASE Purge
  BY <1>11 DEF Purge
<1>12. CASE UNCHANGED sliceVars
  BY <1>12 DEF sliceVars
<1> QED BY <1>1, <1>2, <1>3, <1>4, <1>5, <1>6, <1>7, <1>8, <1>9, <1>10,
           <1>11, <1>12 DEF SliceNext

\* What is known of owner, header and registry while no search was misled.
Undeceived == OneOwner /\ RegistryShowsOnlyAbandoned /\ HandOver /\ RightClass

\* Every step keeps it: new_page, abandonment, the frees that claim, the purge
\* and the three steps of a search, the claim only if it is not misled.
LEMMA SliceStep ==
  ASSUME SliceTypeOK, Undeceived, [SliceNext]_sliceVars, ~misled'
  PROVE  Undeceived'
<1> USE ReuseAssumption DEF SliceTypeOK, Undeceived, OneOwner,
        RegistryShowsOnlyAbandoned, HandOver, RightClass, Claiming, MoveTo,
        Searching, PageAbandoned, history
<1>1. ASSUME NEW t \in SliceThreads, NEW b \in Bins, NewPage(t, b) PROVE Undeceived'
  BY <1>1 DEF NewPage
<1>2. ASSUME NEW t \in SliceThreads, NEW b \in Bins, SeeBit(t, b) PROVE Undeceived'
  BY <1>2 DEF SeeBit
<1>3. ASSUME NEW t \in SliceThreads, Abandon(t) PROVE Undeceived'
  BY <1>3 DEF Abandon
<1>4. ASSUME NEW t \in SliceThreads, OwnerRelease(t) PROVE Undeceived'
  BY <1>4 DEF OwnerRelease
<1>5. ASSUME NEW t \in SliceThreads, FreeClaim(t) PROVE Undeceived'
  BY <1>5 DEF FreeClaim
<1>6. ASSUME NEW t \in SliceThreads, FreeRelease(t) PROVE Undeceived'
  <2>1. Claiming(t) /\ \A u \in SliceThreads \ {t} : ~Claiming(u)
    BY <1>6 DEF FreeRelease
  <2>2. registry' = {} /\ hdrOwned /\ allocated
    BY <1>6, <2>1 DEF FreeRelease
  <2>3. OneOwner' /\ RegistryShowsOnlyAbandoned'
    BY <1>6, <2>1, <2>2 DEF FreeRelease
  <2>4. HandOver' /\ RightClass'
    BY <1>6, <2>1, <2>2 DEF FreeRelease
  <2> QED BY <2>3, <2>4
<1>7. ASSUME NEW t \in SliceThreads, FreeUnown(t) PROVE Undeceived'
  <2>1. Claiming(t) /\ \A u \in SliceThreads \ {t} : ~Claiming(u)
    BY <1>7 DEF FreeUnown
  <2>2. OneOwner' /\ RegistryShowsOnlyAbandoned'
    BY <1>7, <2>1 DEF FreeUnown
  <2>3. HandOver' /\ RightClass'
    BY <1>7, <2>1 DEF FreeUnown
  <2> QED BY <2>2, <2>3
<1>8. ASSUME NEW t \in SliceThreads, Claim(t) PROVE Undeceived'
  BY <1>8 DEF Claim
<1>9. ASSUME NEW t \in SliceThreads, ClearSeenBit(t) PROVE Undeceived'
  BY <1>9 DEF ClearSeenBit
<1>10. ASSUME NEW t \in SliceThreads, Reclaim(t) PROVE Undeceived'
  BY <1>10 DEF Reclaim
<1>11. CASE Purge
  BY <1>11 DEF Purge
<1>12. CASE UNCHANGED sliceVars
  BY <1>12 DEF sliceVars
<1> QED BY <1>1, <1>2, <1>3, <1>4, <1>5, <1>6, <1>7, <1>8, <1>9, <1>10,
           <1>11, <1>12 DEF SliceNext

\* A search that was misled stays recorded.
LEMMA MisledStays ==
  ASSUME misled, SliceTypeOK, [SliceNext]_sliceVars
  PROVE  misled'
BY DEF SliceTypeOK, SliceNext, sliceVars, history, NewPage, SeeBit, Abandon, OwnerRelease,
       FreeClaim, FreeRelease, FreeUnown, Claim, ClearSeenBit, Reclaim, Purge

\* The invariant holds throughout.
LEMMA SliceInvariant == SliceSpec => []SliceInv
<1>1. ASSUME SliceInv, [SliceNext]_sliceVars PROVE SliceInv'
  <2>1. ~misled' => ~misled
    BY <1>1, MisledStays DEF SliceInv
  <2>2. ~misled' => Undeceived'
    BY <1>1, <2>1, SliceStep DEF SliceInv, Undeceived
  <2> QED BY <1>1, <2>2, SliceTypeStep DEF SliceInv, Undeceived
<1> QED BY <1>1, SliceBegins, PTL DEF SliceSpec

\* However claims, releases, abandonments and purges follow each other, at a
\* slice of any number of size classes, it has one owner, and the abandoned
\* registry shows it only while it is abandoned, until a search claims what a
\* purge or a page of another class has put at the slice since it read the bit.
THEOREM SliceReuseIsSound == SliceSpec => []SliceStateIsSound
<1>1. SliceInv => SliceStateIsSound
  BY DEF SliceInv, SliceStateIsSound
<1> QED BY <1>1, SliceInvariant, PTL

\* Until then, whoever has claimed a page through the registry has a live page
\* of the size class it asked for, though the page it saw may have been
\* released and another one made there for the class.
THEOREM SearchFindsWhatItSought == SliceSpec => []ClaimedPageIsTheOneSought
<1>1. SliceInv => ClaimedPageIsTheOneSought
  BY DEF SliceInv, HandOver, RightClass, Claiming, ClaimedPageIsTheOneSought
<1> QED BY <1>1, SliceInvariant, PTL

=============================================================================
