-------------------------- MODULE ArenaPurgeProofs --------------------------
(***************************************************************************)
(* Proofs about ArenaPurge, for every number of threads and slices and     *)
(* every set of configurations: the bitmaps account for every slice, what  *)
(* is handed out is accessible but where the code's all-or-nothing clear   *)
(* has kept a commit bit too many, and zero where it is said to be, and    *)
(* scheduled slices are waited for or left behind by the same clear.       *)
(* Last, about Geometry: the ranges these purges, and the mapping of an    *)
(* arena, hand to the OS are exact.                                        *)
(***************************************************************************)
EXTENDS ArenaPurge, Geometry, FiniteSetTheorems, WellFoundedInduction, TLAPS

\* Most steps leave the history alone.
USE DEF history

\* A non-empty bounded set of naturals has a greatest element.
LEMMA Greatest ==
  ASSUME NEW n \in Nat, NEW S, S \subseteq 0..n, S # {}
  PROVE  \E j \in S : \A k \in S : k <= j
<1> DEFINE T == {n - j : j \in S}
           R == OpToRel(<, Nat)
<1>1. T \subseteq Nat /\ T # {}
  <2>1. \A j \in S : n - j \in Nat
    OBVIOUS
  <2>2. PICK j \in S : TRUE
    OBVIOUS
  <2> QED BY <2>1, <2>2
<1>2. IsWellFoundedOn(R, Nat)
  BY NatLessThanWellFounded
<1>3. \A x, y \in Nat : x < y => <<x, y>> \in R
  BY DEF OpToRel
<1> HIDE DEF R
<1>4. PICK x \in T : \A y \in T : ~(<<y, x>> \in R)
  <2> HIDE DEF T
  <2> QED BY <1>1, <1>2, WFMin
<1>5. PICK j \in S : x = n - j
  BY <1>4
<1>6. ASSUME NEW k \in S PROVE k <= j
  <2>1. n - k \in T /\ n - k \in Nat /\ x \in Nat
    BY <1>1, <1>4
  <2>2. ~(n - k < x)
    BY <1>3, <1>4, <2>1
  <2> QED BY <1>5, <2>2
<1> QED BY <1>6

\* The run of scheduled slices run_purge finds starts where it looks.
LEMMA ScheduledRunIsARun ==
  ASSUME NEW i \in Slices, i \in purge
  PROVE  /\ ScheduledRun(i) \in FieldRuns
         /\ \E j \in Slices : i <= j /\ ScheduledRun(i) = Run(i, j)
<1> DEFINE ends == {j \in Slices : j >= i /\ Run(i, j) \in FieldRuns
                                          /\ Run(i, j) \subseteq purge}
           e == CHOOSE j \in ends : \A k \in ends : k <= j
<1>1. NSlices - 1 \in Nat /\ ends \subseteq 0..(NSlices - 1)
  BY ArenaAssumption DEF Slices
<1>2. i \in ends
  <2>1. i \in Int /\ Run(i, i) = {i}
    BY ArenaAssumption DEF Slices, Run
  <2>2. Run(i, i) \in Runs
    BY <2>1 DEF Runs
  <2>3. Run(i, i) \in FieldRuns
    BY <2>1, <2>2 DEF FieldRuns
  <2> QED BY <2>1, <2>3
<1>3. e \in ends
  <2> HIDE DEF ends
  <2>1. \E j \in ends : \A k \in ends : k <= j
    BY <1>1, <1>2, Greatest
  <2> QED BY <2>1
<1>4. ScheduledRun(i) = Run(i, e)
  BY DEF ScheduledRun
<1> QED BY <1>3, <1>4

-----------------------------------------------------------------------------
(***************************************************************************)
(* What a thread's run is at each step: an allocation or a purge holds a   *)
(* whole run, and the run of a purge starts where the walk has come to.    *)
(***************************************************************************)
Walking == {"claimFree", "purge", "clearBits", "setFree", "unmark"}

RunsOf(t) ==
  /\ pc[t] \in Holding => run[t] \in FieldRuns
  /\ pc[t] \in Walking =>
       \E j \in Slices : scan[t] <= j /\ run[t] = Run(scan[t], j)

SliceInv == TypeOK /\ EachSliceInOnePlace /\ \A t \in Threads : RunsOf(t)

\* A step that leaves what the other threads do alone.
Alone(t) == \A u \in Threads \ {t} :
  pc'[u] = pc[u] /\ run'[u] = run[u] /\ scan'[u] = scan[u]

\* Runs are non-empty sets of slices.
LEMMA RunsAreSlices == \A R \in FieldRuns : R \subseteq Slices /\ R # {}
BY ArenaAssumption DEF FieldRuns, Runs, Run, Slices

(***************************************************************************)
(* A step of one thread keeps every slice in one place if it only moves    *)
(* slices between the free bitmap, the program and the thread.             *)
(***************************************************************************)
LEMMA Moves ==
  ASSUME EachSliceInOnePlace, NEW t \in Threads, Alone(t),
         NEW H, H = UNION held, NEW G, G = UNION held',
         free' \cup G \cup Taken(t)' = free \cup H \cup Taken(t),
         free' \cap G = {}, Taken(t)' \cap (free' \cup G) = {},
         \A R, Q \in held' : R = Q \/ R \cap Q = {}
  PROVE  EachSliceInOnePlace'
<1>1. \A u \in Threads \ {t} : Taken(u)' = Taken(u)
  BY DEF Alone, Taken
<1>2. \A u \in Threads \ {t} : Taken(u) \cap (free \cup H \cup Taken(t)) = {}
  BY DEF EachSliceInOnePlace
<1>3. \A u \in Threads : Taken(u)' \cap (free' \cup G) = {}
  BY <1>1, <1>2
<1>4. \A u, v \in Threads : u = v \/ Taken(u)' \cap Taken(v)' = {}
  BY <1>1, <1>2 DEF EachSliceInOnePlace
<1>5. free' \cup G \cup UNION {Taken(u)' : u \in Threads}
        = free \cup H \cup UNION {Taken(u) : u \in Threads}
  <2> DEFINE U == UNION {Taken(u) : u \in Threads}
             V == UNION {Taken(u)' : u \in Threads}
  <2>1. \A x : x \in U <=> x \in Taken(t) \/ \E u \in Threads \ {t} : x \in Taken(u)
    OBVIOUS
  <2>2. \A x : x \in V <=> x \in Taken(t)' \/ \E u \in Threads \ {t} : x \in Taken(u)'
    OBVIOUS
  <2>3. \A x : (\E u \in Threads \ {t} : x \in Taken(u))
               <=> \E u \in Threads \ {t} : x \in Taken(u)'
    BY <1>1
  <2> HIDE DEF U, V
  <2>4. free' \cup G \cup V = free \cup H \cup U
    BY <2>1, <2>2, <2>3
  <2> QED BY <2>4 DEF U, V
<1>6. (Slices = free \cup (UNION held) \cup UNION {Taken(u) : u \in Threads})'
  <2>1. Slices = free \cup H \cup UNION {Taken(u) : u \in Threads}
    BY DEF EachSliceInOnePlace
  <2>2. Slices = free' \cup G \cup UNION {Taken(u)' : u \in Threads}
    BY <1>5, <2>1
  <2> QED BY <2>2 DEF Slices
<1>7. \A R \in held' : R \cap free' = {}
  OBVIOUS
<1> QED BY <1>3, <1>4, <1>6, <1>7 DEF EachSliceInOnePlace

\* The same for a step that leaves the program's runs alone.
LEMMA MovesFree ==
  ASSUME EachSliceInOnePlace, NEW t \in Threads, Alone(t), held' = held,
         free' \cup Taken(t)' = free \cup Taken(t),
         Taken(t)' \cap free' = {}
  PROVE  EachSliceInOnePlace'
<1> DEFINE H == UNION held
<1>1. H = UNION held /\ H = UNION held'
  OBVIOUS
<1>2. H \cap (free \cup Taken(t)) = {}
  BY DEF EachSliceInOnePlace
<1>3. \A R, Q \in held' : R = Q \/ R \cap Q = {}
  BY DEF EachSliceInOnePlace
<1> HIDE DEF H
<1>4. /\ free' \cup H \cup Taken(t)' = free \cup H \cup Taken(t)
      /\ free' \cap H = {} /\ Taken(t)' \cap (free' \cup H) = {}
  BY <1>2
<1> QED BY <1>1, <1>3, <1>4, Moves

\* The runs are the same as long as the configuration is.
LEMMA FieldRunsKept == ASSUME conf' = conf PROVE FieldRuns' = FieldRuns
BY DEF FieldRuns, FieldOf, Runs, Slices, Run

\* Arena::create.
LEMMA SliceInit == Init => SliceInv
<1> SUFFICES ASSUME Init PROVE SliceInv
  OBVIOUS
<1>1. TypeOK
  <2>1. 0 \in 0..NSlices /\ 0 \in 0..MaxAllocs /\ claims \subseteq UNION held
    BY ArenaAssumption DEF Init
  <2>2. /\ commit \subseteq Slices /\ accessible \subseteq Slices
        /\ scan \in [Threads -> 0..NSlices] /\ allocs \in 0..MaxAllocs
    BY <2>1 DEF Init
  <2> QED BY <2>1, <2>2 DEF Init, TypeOK, Pcs
<1>2. \A t \in Threads : Taken(t) = {}
  BY DEF Init, Taken, Holding
<1>3. EachSliceInOnePlace
  <2>1. UNION {Taken(t) : t \in Threads} = {} /\ UNION held = {}
    BY <1>2 DEF Init
  <2> QED BY <1>2, <2>1 DEF Init, EachSliceInOnePlace
<1>4. \A t \in Threads : RunsOf(t)
  BY DEF Init, RunsOf, Holding, Walking
<1> QED BY <1>1, <1>3, <1>4 DEF SliceInv

\* alloc_slices takes a run.
LEMMA AllocClaimStep ==
  ASSUME SliceInv, NEW t \in Threads, NEW R \in FieldRuns, AllocClaim(t, R)
  PROVE  SliceInv'
<1>1. FieldRuns' = FieldRuns /\ R \subseteq Slices
  BY FieldRunsKept, RunsAreSlices DEF AllocClaim
<1>2. TypeOK'
  BY <1>1, ArenaAssumption DEF SliceInv, TypeOK, AllocClaim, Goto, SetRun, Pcs, os
<1>3. /\ Alone(t) /\ Taken(t) = {} /\ Taken(t)' = R
      /\ \A u \in Threads : RunsOf(u)'
  BY <1>1 DEF SliceInv, TypeOK, AllocClaim, Goto, SetRun, Alone, Taken, Holding,
              Walking, RunsOf
<1>4. EachSliceInOnePlace'
  BY <1>3, MovesFree DEF AllocClaim, SliceInv
<1> QED BY <1>2, <1>3, <1>4 DEF SliceInv

\* Steps that leave the free bitmap, the program's runs and what the thread
\* holds alone.
LEMMA QuietStep ==
  ASSUME SliceInv, NEW t \in Threads, Alone(t), free' = free, held' = held,
         Taken(t)' = Taken(t), TypeOK', RunsOf(t)', conf' = conf
  PROVE  SliceInv'
<1>1. EachSliceInOnePlace'
  <2>1. Taken(t) \cap free = {}
    BY DEF SliceInv, EachSliceInOnePlace
  <2> QED BY <2>1, MovesFree DEF SliceInv
<1>2. \A u \in Threads : RunsOf(u)'
  BY FieldRunsKept DEF SliceInv, RunsOf, Alone, Slices, Run
<1> QED BY <1>1, <1>2 DEF SliceInv

LEMMA CommitStep ==
  ASSUME SliceInv, NEW t \in Threads, Commit(t) \/ CommitFails(t)
  PROVE  SliceInv'
<1>1. conf' = conf /\ FieldRuns' = FieldRuns
  BY FieldRunsKept DEF Commit, CommitFails
<1>2. run[t] \subseteq Slices
  BY RunsAreSlices DEF SliceInv, TypeOK
<1>3. TypeOK'
  BY <1>1, <1>2 DEF SliceInv, TypeOK, Commit, CommitFails, Goto, Pcs, program, os, bitmaps
<1>4. Alone(t) /\ Taken(t)' = Taken(t) /\ RunsOf(t)' /\ free' = free /\ held' = held
  BY <1>1 DEF SliceInv, TypeOK, Commit, CommitFails, Goto, Alone, Taken, Holding, Walking,
              RunsOf, program, bitmaps
<1> QED BY <1>1, <1>3, <1>4, QuietStep

\* The run is handed out.
LEMMA AllocFinishStep ==
  ASSUME SliceInv, NEW t \in Threads, AllocFinish(t)
  PROVE  SliceInv'
<1>1. conf' = conf /\ FieldRuns' = FieldRuns
  BY FieldRunsKept DEF AllocFinish
<1>2. run[t] \in FieldRuns /\ run[t] \subseteq Slices
  BY RunsAreSlices DEF SliceInv, RunsOf, AllocFinish, Holding
<1>3. UNION held' = (UNION held) \cup run[t]
  BY DEF AllocFinish
<1>4. TypeOK'
  BY <1>1, <1>2, <1>3 DEF SliceInv, TypeOK, AllocFinish, Goto, SetRun, Pcs, os
<1>5. /\ Alone(t) /\ Taken(t) = run[t] /\ Taken(t)' = {} /\ free' = free
      /\ \A u \in Threads : RunsOf(u)'
  BY <1>1 DEF SliceInv, TypeOK, AllocFinish, Goto, SetRun, Alone, Taken, Holding,
              Walking, RunsOf
<1>6. /\ free \cap run[t] = {} /\ (UNION held) \cap run[t] = {}
      /\ free \cap UNION held = {}
      /\ \A R \in held : R \cap run[t] = {}
  BY <1>5 DEF SliceInv, EachSliceInOnePlace
<1>7. \A R, Q \in held' : R = Q \/ R \cap Q = {}
  BY <1>6 DEF SliceInv, EachSliceInOnePlace, AllocFinish
<1>8. EachSliceInOnePlace'
  <2> DEFINE H == UNION held
             G == UNION held'
  <2>1. H = UNION held /\ G = UNION held' /\ G = H \cup run[t]
        /\ H \cap run[t] = {} /\ free \cap H = {}
    BY <1>3, <1>6
  <2> HIDE DEF H, G
  <2>2. /\ free' \cup G \cup Taken(t)' = free \cup H \cup Taken(t)
        /\ free' \cap G = {} /\ Taken(t)' \cap (free' \cup G) = {}
    BY <1>5, <1>6, <2>1
  <2> QED BY <1>5, <1>7, <2>1, <2>2, Moves DEF SliceInv
<1> QED BY <1>4, <1>5, <1>8 DEF SliceInv

\* free_slices gives a run back.
LEMMA FreeStep ==
  ASSUME SliceInv, NEW t \in Threads, NEW R \in held, Free(t, R)
  PROVE  SliceInv'
<1>1. conf' = conf /\ FieldRuns' = FieldRuns
  BY FieldRunsKept DEF Free
<1>2. R \in FieldRuns /\ R \subseteq Slices
  BY RunsAreSlices DEF SliceInv, TypeOK
<1>3. \A Q \in held : R = Q \/ R \cap Q = {}
  BY DEF SliceInv, EachSliceInOnePlace
<1>4. UNION held = (UNION held') \cup R /\ (UNION held') \cap R = {}
  BY <1>3 DEF Free
<1>5. TypeOK'
  BY <1>1, <1>2, <1>4 DEF SliceInv, TypeOK, Free, Goto, SetRun, Pcs, os
<1>6. /\ Alone(t) /\ Taken(t) = {} /\ Taken(t)' = {} /\ free' = free \cup R
      /\ \A u \in Threads : RunsOf(u)'
  BY <1>1 DEF SliceInv, TypeOK, Free, Goto, SetRun, Alone, Taken, Holding,
              Walking, RunsOf
<1>7. free \cap UNION held = {}
  BY DEF SliceInv, EachSliceInOnePlace
<1>8. \A P, Q \in held' : P = Q \/ P \cap Q = {}
  BY DEF SliceInv, EachSliceInOnePlace, Free
<1>9. EachSliceInOnePlace'
  <2> DEFINE H == UNION held
             G == UNION held'
  <2>1. H = UNION held /\ G = UNION held' /\ H = G \cup R
        /\ G \cap R = {} /\ free \cap H = {}
    BY <1>4, <1>7
  <2> HIDE DEF H, G
  <2>2. /\ free' \cup G \cup Taken(t)' = free \cup H \cup Taken(t)
        /\ free' \cap G = {} /\ Taken(t)' \cap (free' \cup G) = {}
    BY <1>6, <2>1
  <2> QED BY <1>6, <1>8, <2>1, <2>2, Moves DEF SliceInv
<1> QED BY <1>5, <1>6, <1>9 DEF SliceInv

\* A run a thread held goes back to the free bitmap: a failed commit, or the
\* end of a purge.
LEMMA GiveBackStep ==
  ASSUME SliceInv, NEW t \in Threads, FreeUncommitted(t) \/ SetFree(t)
  PROVE  SliceInv'
<1>1. conf' = conf /\ FieldRuns' = FieldRuns
  BY FieldRunsKept DEF FreeUncommitted, SetFree
<1>2. run[t] \subseteq Slices
  BY RunsAreSlices DEF SliceInv, TypeOK
<1>3. TypeOK'
  BY <1>1, <1>2 DEF SliceInv, TypeOK, FreeUncommitted, SetFree, Goto, Pcs, program, os
<1>4. /\ Alone(t) /\ Taken(t) = run[t] /\ Taken(t)' = {}
      /\ free' = free \cup run[t] /\ held' = held
      /\ \A u \in Threads : RunsOf(u)'
  BY <1>1 DEF SliceInv, TypeOK, FreeUncommitted, SetFree, Goto, Alone, Taken,
              Holding, Walking, RunsOf, program
<1>5. EachSliceInOnePlace'
  BY <1>4, MovesFree DEF SliceInv
<1> QED BY <1>3, <1>4, <1>5 DEF SliceInv

\* The rest of free_slices, and the start and the steps of a walk that take
\* nothing.
LEMMA WalkStep ==
  ASSUME SliceInv, NEW t \in Threads,
         Schedule(t) \/ Arm(t) \/ StartPurge(t) \/ ScanOn(t)
  PROVE  SliceInv'
<1>1. conf' = conf /\ FieldRuns' = FieldRuns
  BY FieldRunsKept DEF Schedule, Arm, StartPurge, ScanOn
<1>2. run[t] \subseteq Slices
  BY RunsAreSlices DEF SliceInv, TypeOK
<1>3. scan' \in [Threads -> 0..NSlices]
  BY ArenaAssumption DEF SliceInv, TypeOK, Schedule, Arm, StartPurge, ScanOn
<1>4. TypeOK'
  BY <1>1, <1>2, <1>3 DEF SliceInv, TypeOK, Schedule, Arm, StartPurge, ScanOn, Goto,
                          SetRun, Pcs, program, os, bitmaps
<1>5. /\ Alone(t) /\ Taken(t)' = Taken(t) /\ RunsOf(t)'
      /\ free' = free /\ held' = held
  BY <1>1 DEF SliceInv, TypeOK, Schedule, Arm, StartPurge, ScanOn, Goto, SetRun,
              Alone, Taken, Holding, Walking, RunsOf, program, bitmaps
<1> QED BY <1>1, <1>4, <1>5, QuietStep

\* The walk has come to a scheduled run.
LEMMA ScanRunStep ==
  ASSUME SliceInv, NEW t \in Threads, ScanRun(t)
  PROVE  SliceInv'
<1>1. conf' = conf /\ FieldRuns' = FieldRuns
  BY FieldRunsKept DEF ScanRun
<1>2. /\ ScheduledRun(scan[t]) \in FieldRuns
      /\ \E j \in Slices : scan[t] <= j /\ ScheduledRun(scan[t]) = Run(scan[t], j)
  BY ScheduledRunIsARun DEF SliceInv, TypeOK, ScanRun
<1>3. TypeOK'
  BY <1>1, <1>2 DEF SliceInv, TypeOK, ScanRun, Goto, SetRun, Pcs, program, os, bitmaps
<1>4. Alone(t) /\ Taken(t)' = Taken(t) /\ free' = free /\ held' = held
  BY DEF SliceInv, TypeOK, ScanRun, Goto, SetRun, Alone, Taken, Holding, program, bitmaps
<1>5. RunsOf(t)'
  <2>1. pc'[t] = "claimFree" /\ run'[t] = ScheduledRun(scan[t]) /\ scan'[t] = scan[t]
    BY DEF SliceInv, TypeOK, ScanRun, Goto, SetRun
  <2>2. \E j \in Slices' : scan'[t] <= j /\ run'[t] = Run(scan'[t], j)
    BY <1>2, <2>1 DEF Slices
  <2> QED BY <2>1, <2>2 DEF RunsOf, Holding, Walking, Run
<1> QED BY <1>1, <1>3, <1>4, <1>5, QuietStep

\* The run is claimed from the free bitmap, whole or not at all.
LEMMA ClaimFreeStep ==
  ASSUME SliceInv, NEW t \in Threads, ClaimFree(t)
  PROVE  SliceInv'
<1>1. conf' = conf /\ FieldRuns' = FieldRuns
  BY FieldRunsKept DEF ClaimFree
<1>2. TypeOK'
  BY <1>1 DEF SliceInv, TypeOK, ClaimFree, Cleared, Goto, Pcs, program, os
<1>3. /\ Alone(t) /\ Taken(t) = {} /\ held' = held
      /\ Taken(t)' = (IF run[t] \subseteq free THEN run[t] ELSE {})
  BY DEF SliceInv, TypeOK, ClaimFree, Goto, Alone, Taken, Holding, program
<1>4. EachSliceInOnePlace'
  BY <1>3, MovesFree DEF ClaimFree, Cleared, SliceInv
<1>5. run[t] \in FieldRuns
  <2>1. PICK j \in Slices : scan[t] <= j /\ run[t] = Run(scan[t], j)
    BY DEF SliceInv, RunsOf, ClaimFree, Walking
  <2>2. scan[t] \in run[t]
    BY <2>1, ArenaAssumption DEF SliceInv, TypeOK, Run, Slices
  <2> QED BY <2>2 DEF SliceInv, TypeOK
<1>6. \A u \in Threads : RunsOf(u)'
  BY <1>1, <1>5 DEF SliceInv, TypeOK, ClaimFree, Goto, Holding, Walking, RunsOf
<1> QED BY <1>2, <1>4, <1>6 DEF SliceInv

\* The OS purges the run, and the commit and dirty bits follow.
LEMMA OsPurgeStep ==
  ASSUME SliceInv, NEW t \in Threads, OsPurge(t) \/ ClearBits(t)
  PROVE  SliceInv'
<1>1. conf' = conf /\ FieldRuns' = FieldRuns
  BY FieldRunsKept DEF OsPurge, ClearBits
<1>2. run[t] \subseteq Slices
  BY RunsAreSlices DEF SliceInv, TypeOK
<1>3. accessible' \subseteq Slices /\ zeroed' \subseteq Slices
  BY <1>2 DEF SliceInv, TypeOK, OsPurge, ClearBits, os
<1>4. commit' \subseteq Slices /\ dirty' \subseteq Slices
  BY DEF SliceInv, TypeOK, OsPurge, ClearBits, Cleared, bitmaps
<1>5. /\ pc' \in [Threads -> Pcs]
      /\ UNCHANGED <<free, purge, armed, run, scan, held, claims, allocs>>
  BY DEF SliceInv, TypeOK, OsPurge, ClearBits, Goto, Pcs, program, bitmaps
<1>a. stale' \subseteq Slices /\ left' = left
  BY <1>2 DEF SliceInv, TypeOK, OsPurge, ClearBits
<1>6. TypeOK'
  BY <1>1, <1>3, <1>4, <1>5, <1>a DEF SliceInv, TypeOK, Slices
<1>7. pc[t] \in {"purge", "clearBits"} /\ pc'[t] \in {"clearBits", "setFree"}
      /\ \A u \in Threads \ {t} : pc'[u] = pc[u]
  BY DEF SliceInv, TypeOK, OsPurge, ClearBits, Goto
<1>8. Alone(t) /\ Taken(t)' = Taken(t)
  BY <1>5, <1>7 DEF Alone, Taken, Holding
<1>9. RunsOf(t)'
  BY <1>1, <1>5, <1>7 DEF SliceInv, RunsOf, Holding, Walking, Slices, Run
<1> QED BY <1>1, <1>5, <1>6, <1>8, <1>9, QuietStep

\* The walk goes on behind the run.
LEMMA UnmarkStep ==
  ASSUME SliceInv, NEW t \in Threads, Unmark(t)
  PROVE  SliceInv'
<1>1. conf' = conf /\ FieldRuns' = FieldRuns
  BY FieldRunsKept DEF Unmark
<1>2. scan[t] + Cardinality(run[t]) \in 0..NSlices
  <2>1. PICK j \in Slices : scan[t] <= j /\ run[t] = scan[t]..j
    BY DEF SliceInv, RunsOf, Unmark, Walking, Run
  <2>2. scan[t] \in Nat /\ j \in Nat /\ j < NSlices
    BY ArenaAssumption DEF SliceInv, TypeOK, Slices
  <2>3. Cardinality(run[t]) = j - scan[t] + 1
    BY <2>1, <2>2, FS_Interval
  <2> QED BY <2>1, <2>2, <2>3, ArenaAssumption
<1>3. TypeOK'
  BY <1>1, <1>2 DEF SliceInv, TypeOK, Unmark, Cleared, Goto, SetRun, Pcs, program, os
<1>4. /\ Alone(t) /\ Taken(t)' = Taken(t) /\ RunsOf(t)'
      /\ free' = free /\ held' = held
  BY DEF SliceInv, TypeOK, Unmark, Goto, SetRun, Alone, Taken, Holding, Walking,
         RunsOf, program
<1> QED BY <1>1, <1>3, <1>4, QuietStep

\* The program writes to its memory.
LEMMA WriteStep ==
  ASSUME SliceInv, NEW R \in held, Write(R)
  PROVE  SliceInv'
<1>1. conf' = conf /\ FieldRuns' = FieldRuns
  BY FieldRunsKept DEF Write
<1>2. TypeOK'
  BY <1>1 DEF SliceInv, TypeOK, Write, bitmaps
<1>3. EachSliceInOnePlace'
  BY DEF SliceInv, EachSliceInOnePlace, Write, bitmaps, Taken, Slices
<1>4. \A u \in Threads : RunsOf(u)'
  BY <1>1 DEF SliceInv, RunsOf, Write, Slices, Run
<1> QED BY <1>2, <1>3, <1>4 DEF SliceInv

-----------------------------------------------------------------------------
\* Every step keeps the slices accounted for.
LEMMA SliceStep ==
  ASSUME SliceInv, [Next]_vars
  PROVE  SliceInv'
<1>1. CASE UNCHANGED vars
  <2>1. FieldRuns' = FieldRuns
    BY <1>1, FieldRunsKept DEF vars
  <2>2. TypeOK'
    BY <1>1, <2>1 DEF SliceInv, TypeOK, vars, bitmaps, os, program
  <2>3. EachSliceInOnePlace'
    BY <1>1 DEF SliceInv, EachSliceInOnePlace, vars, bitmaps, program, Taken, Slices
  <2>4. \A u \in Threads : RunsOf(u)'
    BY <1>1, <2>1 DEF SliceInv, RunsOf, vars, Slices, Run
  <2> QED BY <2>2, <2>3, <2>4 DEF SliceInv
<1>2. CASE Next
  BY <1>2, AllocClaimStep, FreeStep, CommitStep, AllocFinishStep, GiveBackStep,
     WalkStep, ScanRunStep, ClaimFreeStep, OsPurgeStep, UnmarkStep, WriteStep
     DEF Next
<1> QED BY <1>1, <1>2

LEMMA SliceInvariant == Spec => []SliceInv
BY SliceInit, SliceStep, PTL DEF Spec

\* However allocations, releases, failed commits and purges of any number of
\* threads interleave, in every configuration, no slice of the arena is lost
\* and none is given out twice.
THEOREM SlicesStaySound == Spec => []SlicesAreSound
<1>1. SliceInv => SlicesAreSound
  BY DEF SliceInv, SlicesAreSound
<1> QED BY <1>1, SliceInvariant, PTL

-----------------------------------------------------------------------------
(***************************************************************************)
(* A slice without access has no commit bit, unless a purge is about to    *)
(* clear it, with the rest of a committed run, or it is one of the stale   *)
(* ones.  The same goes for every run handed out or about to be.           *)
(***************************************************************************)
AccessInv ==
  /\ stale \cap accessible = {}
  /\ \A s \in commit : \/ s \in accessible \cup stale
                       \/ \E t \in Threads : /\ pc[t] = "clearBits" /\ s \in run[t]
                                             /\ run[t] \subseteq commit
  /\ \A R \in held : R \subseteq accessible \cup stale
  /\ \A t \in Threads : pc[t] = "finish" => run[t] \subseteq accessible \cup stale

\* What is free or held by somebody else is not being purged.
LEMMA TakenApart ==
  ASSUME SliceInv, NEW t \in Threads, pc[t] \in Holding
  PROVE  /\ run[t] \cap free = {}
         /\ \A R \in held : run[t] \cap R = {}
         /\ \A u \in Threads : u # t /\ pc[u] \in Holding => run[t] \cap run[u] = {}
<1>1. Taken(t) = run[t] /\ \A u \in Threads : pc[u] \in Holding => Taken(u) = run[u]
  BY DEF Taken
<1> QED BY <1>1 DEF SliceInv, EachSliceInOnePlace

\* Every step keeps it.
LEMMA AccessStep ==
  ASSUME SliceInv, AccessInv, [Next]_vars
  PROVE  AccessInv'
<1> USE DEF AccessInv, Goto, SetRun, bitmaps, os, program
<1>0. /\ pc \in [Threads -> Pcs] /\ run \in [Threads -> FieldRuns \cup {{}}]
      /\ conf \in Configs
  BY DEF SliceInv, TypeOK
<1>1. ASSUME NEW t \in Threads, NEW R \in FieldRuns, AllocClaim(t, R) PROVE AccessInv'
  <2>1. R \subseteq commit => R \subseteq accessible \cup stale
    <3>1. \A u \in Threads : pc[u] = "clearBits" => run[u] \cap free = {}
      BY TakenApart DEF Holding
    <3> QED BY <1>1, <3>1 DEF AllocClaim
  <2> QED BY <1>0, <1>1, <2>1 DEF AllocClaim
<1>2. ASSUME NEW t \in Threads, NEW R \in held, Free(t, R) PROVE AccessInv'
  BY <1>0, <1>2 DEF Free
<1>3. ASSUME NEW t \in Threads, Commit(t) PROVE AccessInv'
  BY <1>0, <1>3 DEF Commit
<1>4. ASSUME NEW t \in Threads, AllocFinish(t) PROVE AccessInv'
  BY <1>0, <1>4 DEF AllocFinish
<1>5. ASSUME NEW t \in Threads, CommitFails(t) \/ FreeUncommitted(t) \/ Schedule(t)
                                \/ Arm(t) \/ StartPurge(t) \/ ScanOn(t)
      PROVE AccessInv'
  BY <1>0, <1>5 DEF CommitFails, FreeUncommitted, Schedule, Arm, StartPurge, ScanOn
<1>6. ASSUME NEW t \in Threads, ScanRun(t) \/ ClaimFree(t) \/ SetFree(t) \/ Unmark(t)
      PROVE AccessInv'
  BY <1>0, <1>6 DEF ScanRun, ClaimFree, SetFree, Unmark
<1>7. ASSUME NEW t \in Threads, OsPurge(t) PROVE AccessInv'
  <2>1. /\ pc[t] = "purge" /\ UNCHANGED <<conf, free, commit, run, held>>
        /\ \A u \in Threads \ {t} : pc'[u] = pc[u]
        /\ pc'[t] \in {"clearBits", "setFree"}
    BY <1>0, <1>7 DEF OsPurge
  <2>2. /\ \A R \in held : run[t] \cap R = {}
        /\ \A u \in Threads : u # t /\ pc[u] = "finish" => run[t] \cap run[u] = {}
    BY <2>1, TakenApart DEF Holding
  <2>3. CASE accessible' = accessible /\ stale' = stale
    BY <2>1, <2>3
  <2>4. CASE /\ conf.strips /\ conf.decommits /\ pc'[t] = "clearBits"
             /\ accessible' = accessible \ run[t]
             /\ stale' = IF run[t] \subseteq commit THEN stale
                         ELSE stale \cup (run[t] \cap commit)
    <3>1. stale' \cap accessible' = {}
      BY <2>4
    <3>2. ASSUME NEW s \in commit'
          PROVE  \/ s \in accessible' \cup stale'
                 \/ \E u \in Threads : /\ pc'[u] = "clearBits" /\ s \in run'[u]
                                       /\ run'[u] \subseteq commit'
      BY <2>1, <2>4, <3>2
    <3>3. \A R \in held' : R \subseteq accessible' \cup stale'
      BY <2>1, <2>2, <2>4
    <3>4. \A u \in Threads : pc'[u] = "finish" => run'[u] \subseteq accessible' \cup stale'
      BY <2>1, <2>2, <2>4
    <3> QED BY <3>1, <3>2, <3>3, <3>4
  <2> QED BY <1>0, <1>7, <2>3, <2>4 DEF OsPurge
<1>8. ASSUME NEW t \in Threads, ClearBits(t) PROVE AccessInv'
  <2>1. /\ pc[t] = "clearBits" /\ commit' = Cleared(commit, run[t]) /\ pc'[t] = "setFree"
        /\ UNCHANGED <<run, held, accessible, stale>>
        /\ \A u \in Threads \ {t} : pc'[u] = pc[u]
    BY <1>0, <1>8 DEF ClearBits
  <2>2. \A u \in Threads : u # t /\ pc[u] = "clearBits" => run[t] \cap run[u] = {}
    BY <2>1, TakenApart DEF Holding
  <2>3. CASE run[t] \subseteq commit
    BY <2>1, <2>2, <2>3 DEF Cleared
  <2>4. CASE ~(run[t] \subseteq commit)
    BY <2>1, <2>4 DEF Cleared
  <2> QED BY <2>3, <2>4
<1>9. ASSUME NEW R \in held, Write(R) PROVE AccessInv'
  BY <1>9 DEF Write
<1>10. CASE UNCHANGED vars
  BY <1>10 DEF vars
<1> QED BY <1>1, <1>2, <1>3, <1>4, <1>5, <1>6, <1>7, <1>8, <1>9, <1>10 DEF Next

\* arena.rs: "The commit bitmap is authoritative, so a purge that decommits
\* clears the bits and reuse re-commits".  Whoever committed it and however
\* purges meet allocations, memory that is handed out can be touched unless it
\* was last decommitted as part of a partly committed run; and then, where
\* decommit takes access away, it cannot.
THEOREM HandedOutStaysAccessible == Spec => []HandedOutIsAccessible
<1>1. Init => AccessInv
  BY DEF Init, AccessInv
<1>2. AccessInv => HandedOutIsAccessible
  BY DEF AccessInv, HandedOutIsAccessible
<1> QED BY <1>1, <1>2, SliceInvariant, AccessStep, PTL DEF Spec

-----------------------------------------------------------------------------
(***************************************************************************)
(* A clean slice reads as zero; slices handed out are dirty, and so are    *)
(* not taken for clean when they come back.                                *)
(***************************************************************************)
ZeroInv == ~conf.decommitFails =>
  /\ Slices \ dirty \subseteq zeroed
  /\ \A R \in held : R \subseteq dirty
  /\ \A t \in Threads : pc[t] = "clearBits" => run[t] \subseteq zeroed
  /\ claims \subseteq zeroed

\* Every step keeps it.
LEMMA ZeroStep ==
  ASSUME SliceInv, ZeroInv, [Next]_vars
  PROVE  ZeroInv'
<1> USE DEF ZeroInv, Goto, SetRun, bitmaps, os, program, Slices
<1>0. /\ pc \in [Threads -> Pcs] /\ run \in [Threads -> FieldRuns \cup {{}}]
      /\ \A t \in Threads : run[t] \subseteq Slices
  BY RunsAreSlices DEF SliceInv, TypeOK
<1>1. ASSUME NEW t \in Threads, NEW R \in FieldRuns, AllocClaim(t, R) PROVE ZeroInv'
  BY <1>0, <1>1 DEF AllocClaim
<1>2. ASSUME NEW t \in Threads, NEW R \in held, Free(t, R) PROVE ZeroInv'
  BY <1>0, <1>2 DEF Free
<1>3. ASSUME NEW t \in Threads, Commit(t) \/ CommitFails(t) \/ FreeUncommitted(t)
                                \/ Schedule(t) \/ Arm(t)
      PROVE ZeroInv'
  BY <1>0, <1>3 DEF Commit, CommitFails, FreeUncommitted, Schedule, Arm
<1>4. ASSUME NEW t \in Threads, AllocFinish(t) PROVE ZeroInv'
  BY <1>0, <1>4 DEF AllocFinish
<1>5. ASSUME NEW t \in Threads, StartPurge(t) \/ ScanOn(t) \/ ScanRun(t)
                                \/ ClaimFree(t) \/ SetFree(t) \/ Unmark(t)
      PROVE ZeroInv'
  BY <1>0, <1>5 DEF StartPurge, ScanOn, ScanRun, ClaimFree, SetFree, Unmark
<1>6. ASSUME NEW t \in Threads, OsPurge(t) PROVE ZeroInv'
  <2>1. /\ zeroed \subseteq zeroed'
        /\ UNCHANGED <<conf, dirty, held, claims, run>>
        /\ \A u \in Threads \ {t} : pc'[u] = pc[u]
        /\ pc'[t] = "clearBits" /\ ~conf.decommitFails => run[t] \subseteq zeroed'
    BY <1>0, <1>6 DEF OsPurge
  <2> QED BY <2>1
<1>7. ASSUME NEW t \in Threads, ClearBits(t) PROVE ZeroInv'
  <2>1. /\ pc[t] = "clearBits" /\ dirty' = Cleared(dirty, run[t]) /\ pc'[t] = "setFree"
        /\ UNCHANGED <<conf, zeroed, run, held, claims>>
        /\ \A u \in Threads \ {t} : pc'[u] = pc[u]
    BY <1>0, <1>7 DEF ClearBits
  <2>2. \A R \in held : run[t] \cap R = {}
    BY <2>1, TakenApart DEF Holding
  <2>3. dirty \ run[t] \subseteq dirty' /\ (dirty' = dirty \/ dirty' = dirty \ run[t])
    BY <2>1 DEF Cleared
  <2> QED BY <2>1, <2>2, <2>3
<1>8. ASSUME NEW R \in held, Write(R) PROVE ZeroInv'
  <2>1. \A t \in Threads : pc[t] = "clearBits" => run[t] \cap R = {}
    BY TakenApart DEF Holding
  <2> QED BY <1>8, <2>1 DEF Write
<1>9. CASE UNCHANGED vars
  BY <1>9 DEF vars
<1> QED BY <1>1, <1>2, <1>3, <1>4, <1>5, <1>6, <1>7, <1>8, <1>9 DEF Next

\* Slices handed out as "guaranteed OS-zeroed" read as zero until the program
\* writes to them, where the OS does what a decommit asks of it.
THEOREM ZeroClaimsStayTrue == Spec => []ZeroClaimsAreTrue
<1>1. Init => ZeroInv
  BY DEF Init, ZeroInv
<1>2. ZeroInv => ZeroClaimsAreTrue
  BY DEF ZeroInv, ZeroClaimsAreTrue
<1> QED BY <1>1, <1>2, SliceInvariant, ZeroStep, PTL DEF Spec

-----------------------------------------------------------------------------
(***************************************************************************)
(* A scheduled slice waits for the timer, for a thread that is about to    *)
(* set it, or for a walk that has not passed it, or was left behind.       *)
(***************************************************************************)
ArmInv ==
  \A s \in purge \ left :
    \/ armed
    \/ \E t \in Threads :
         \/ pc[t] = "arm"
         \/ pc[t] \in {"scan"} \cup Walking /\ scan[t] <= s

\* Every step keeps it.
LEMMA ArmStep ==
  ASSUME SliceInv, ArmInv, [Next]_vars
  PROVE  ArmInv'
<1> USE DEF ArmInv, Goto, SetRun, bitmaps, os, program, Walking
<1>0. /\ pc \in [Threads -> Pcs] /\ run \in [Threads -> FieldRuns \cup {{}}]
      /\ scan \in [Threads -> 0..NSlices] /\ conf \in Configs
      /\ purge \subseteq 0..(NSlices - 1) /\ NSlices \in Nat
  BY ArenaAssumption DEF SliceInv, TypeOK, Slices
<1>1. ASSUME NEW t \in Threads, NEW R \in FieldRuns, AllocClaim(t, R) PROVE ArmInv'
  BY <1>0, <1>1 DEF AllocClaim
<1>2. ASSUME NEW t \in Threads, NEW R \in held, Free(t, R) PROVE ArmInv'
  BY <1>0, <1>2 DEF Free
<1>3. ASSUME NEW t \in Threads, \/ Commit(t) \/ CommitFails(t) \/ AllocFinish(t)
                                \/ FreeUncommitted(t)
      PROVE ArmInv'
  <2>1. /\ UNCHANGED <<purge, left, armed, scan>>
        /\ pc[t] \notin {"arm", "scan"} \cup Walking
        /\ \A u \in Threads \ {t} : pc'[u] = pc[u]
    BY <1>0, <1>3 DEF Commit, CommitFails, AllocFinish, FreeUncommitted
  <2> QED BY <2>1
<1>4. ASSUME NEW t \in Threads, Schedule(t) PROVE ArmInv'
  <2>1. /\ purge' = purge \cup run[t] /\ left' = left \ run[t] /\ armed' = armed
        /\ scan'[t] = 0 /\ pc'[t] \in {"scan", "arm"} /\ pc[t] = "schedule"
        /\ \A u \in Threads \ {t} : pc'[u] = pc[u] /\ scan'[u] = scan[u]
    BY <1>0, <1>4 DEF Schedule
  <2>2. \A s \in purge' : 0 <= s
    BY <1>0, <2>1, RunsAreSlices DEF Slices
  <2> QED BY <2>1, <2>2
<1>5. ASSUME NEW t \in Threads, Arm(t) PROVE ArmInv'
  BY <1>0, <1>5 DEF Arm
<1>6. ASSUME NEW t \in Threads, StartPurge(t) PROVE ArmInv'
  <2>1. pc'[t] = "scan" /\ scan'[t] = 0 /\ purge' = purge /\ left' = left
    BY <1>0, <1>6 DEF StartPurge
  <2> QED BY <1>0, <2>1
<1>7. ASSUME NEW t \in Threads, ScanOn(t) PROVE ArmInv'
  <2>1. /\ pc[t] = "scan" /\ scan[t] \notin purge /\ UNCHANGED <<purge, left, armed>>
        /\ \A u \in Threads \ {t} : pc'[u] = pc[u] /\ scan'[u] = scan[u]
        /\ scan[t] # NSlices => pc'[t] = "scan" /\ scan'[t] = scan[t] + 1
    BY <1>0, <1>7 DEF ScanOn
  <2>2. \A s \in purge : scan[t] <= s => scan[t] # NSlices /\ scan[t] + 1 <= s
    BY <1>0, <2>1
  <2> QED BY <2>1, <2>2
<1>8. ASSUME NEW t \in Threads, ScanRun(t) \/ ClaimFree(t) \/ OsPurge(t)
                                \/ ClearBits(t) \/ SetFree(t)
      PROVE ArmInv'
  <2>1. /\ UNCHANGED <<purge, left, armed, scan>>
        /\ pc[t] \in {"scan"} \cup Walking /\ pc'[t] \in Walking
        /\ \A u \in Threads \ {t} : pc'[u] = pc[u]
    BY <1>0, <1>8 DEF ScanRun, ClaimFree, OsPurge, ClearBits, SetFree
  <2> QED BY <2>1
<1>9. ASSUME NEW t \in Threads, Unmark(t) PROVE ArmInv'
  <2>1. /\ pc[t] = "unmark" /\ purge' = Cleared(purge, run[t]) /\ pc'[t] = "scan"
        /\ left' = IF run[t] \subseteq purge THEN left \ run[t]
                   ELSE left \cup (run[t] \cap purge)
        /\ scan'[t] = scan[t] + Cardinality(run[t])
        /\ armed' = armed
        /\ \A u \in Threads \ {t} : pc'[u] = pc[u] /\ scan'[u] = scan[u]
    BY <1>0, <1>9 DEF Unmark
  <2>2. PICK j \in Slices : scan[t] <= j /\ run[t] = scan[t]..j
    BY <2>1 DEF SliceInv, RunsOf, Run
  <2>3. scan[t] \in Nat /\ j \in Nat
    BY <1>0, <2>2 DEF Slices
  <2>4. Cardinality(run[t]) = j - scan[t] + 1
    BY <2>2, <2>3, FS_Interval
  <2>5. purge' \ left' \subseteq (purge \ left) \ run[t]
    BY <2>1 DEF Cleared
  <2>6. \A s \in purge' \ left' : scan[t] <= s => scan'[t] <= s
    <3> SUFFICES ASSUME NEW s \in purge' \ left', scan[t] <= s PROVE j + 1 <= s
      BY <2>1, <2>3, <2>4
    <3>1. s \in purge /\ s \notin run[t]
      BY <2>5
    <3>2. s \in Nat /\ s \notin scan[t]..j
      BY <1>0, <2>2, <3>1
    <3> QED BY <2>3, <3>2
  <2> QED BY <2>1, <2>5, <2>6
<1>10. ASSUME NEW R \in held, Write(R) PROVE ArmInv'
  BY <1>10 DEF Write
<1>11. CASE UNCHANGED vars
  BY <1>11 DEF vars
<1> QED BY <1>1, <1>2, <1>3, <1>4, <1>5, <1>6, <1>7, <1>8, <1>9, <1>10, <1>11
        DEF Next

\* heap.rs: "so nothing is dropped".  For fields of any width and with or
\* without a delay: the timer is armed whenever all threads are at rest and a
\* slice is scheduled that was not left behind by a purge whose run another
\* purge had unmarked in part.
THEOREM ScheduledStaysArmed == Spec => []ScheduledIsArmed
<1>1. Init => ArmInv
  BY DEF Init, ArmInv
<1>2. ArmInv => ScheduledIsArmed
  BY DEF ArmInv, ScheduledIsArmed, AllIdle, Walking
<1> QED BY <1>1, <1>2, SliceInvariant, ArmStep, PTL DEF Spec

-----------------------------------------------------------------------------
(***************************************************************************)
(* The ranges handed to the OS (Geometry), for every size of a word, of an *)
(* OS page and of a region, every alignment and every address.             *)
(***************************************************************************)
\* What the quotient leaves over.
LEMMA Division ==
  ASSUME NEW a \in Nat \ {0}, NEW x \in Nat
  PROVE  /\ x \div a \in Nat /\ (x \div a) * a \in Nat
         /\ (x \div a) * a <= x /\ x < (x \div a) * a + a
<1>1. x \div a \in Nat /\ x % a \in 0..(a - 1) /\ x = a * (x \div a) + (x % a)
  OBVIOUS
<1>2. (x \div a) * a \in Nat /\ (x \div a) * a = a * (x \div a)
  BY <1>1
<1> QED BY <1>1, <1>2

\* Rounding down to a multiple of a.
LEMMA RoundedDown ==
  ASSUME NEW a \in Nat \ {0}, NEW x \in Nat
  PROVE  /\ align_down(x, a) \in Nat
         /\ align_down(x, a) <= x /\ x < align_down(x, a) + a
         /\ is_aligned(align_down(x, a), a)
<1> DEFINE q == x \div a
<1>1. q \in Nat /\ q * a \in Nat /\ q * a <= x /\ x < q * a + a
  BY Division
<1>2. (q * a) % a = 0
  BY <1>1
<1> QED BY <1>1, <1>2 DEF align_down, is_aligned

\* A sum that does not reach the end of the word is not wrapped.
LEMMA NoWrap ==
  ASSUME NEW u \in Nat, NEW x \in Nat, x < u
  PROVE  x % u = x
OBVIOUS

\* Rounding up to a multiple of a, where the sum stays below the end of the
\* word.
LEMMA RoundedUp ==
  ASSUME NEW a \in Nat \ {0}, NEW x \in Nat, x + a <= Usize
  PROVE  /\ align_up(x, a) \in Nat
         /\ x <= align_up(x, a) /\ align_up(x, a) < x + a
         /\ is_aligned(align_up(x, a), a)
<1>1. Usize \in Nat
  BY RegionsAssumption DEF Usize
<1>2. x + a - 1 \in Nat /\ x + a - 1 < Usize
  BY <1>1
<1>3. align_up(x, a) = align_down(x + a - 1, a)
  BY <1>1, <1>2, NoWrap DEF align_up, align_down
<1>4. /\ align_down(x + a - 1, a) \in Nat
      /\ align_down(x + a - 1, a) <= x + a - 1
      /\ x + a - 1 < align_down(x + a - 1, a) + a
      /\ is_aligned(align_down(x + a - 1, a), a)
  BY <1>2, RoundedDown
<1> QED BY <1>3, <1>4

\* os::alloc_aligned keeps mapped what it returns, whether the first mapping
\* will do or a larger one is trimmed.
LEMMA RegionAnswer ==
  ASSUME NEW size \in OsSizes, NEW base \in OsBases, NEW al \in Aligns,
         OsDirect(size, al, base) \/ OsTrim(size, al, base)
  PROVE  OsRangesAreExact'
<1> DEFINE sz == align_up(size, OsPage)
           at == align_up(base, al)
<1>1. /\ size \in Nat /\ base \in Nat /\ al \in Nat \ {0} /\ OsPage \in Nat \ {0}
      /\ size + OsPage <= Usize /\ base + al <= Usize
  <2>1. base + size + OsPage + al <= Usize /\ Usize \in Nat
    BY RegionsAssumption DEF Usize
  <2> QED BY <2>1, RegionsAssumption
<1>2. sz \in Nat /\ size <= sz
  BY <1>1, RoundedUp
<1>3. at \in Nat /\ is_aligned(at, al)
  BY <1>1, RoundedUp
<1>4. CASE OsDirect(size, al, base)
  <2>1. ans' = [kind |-> "region", size |-> size, align |-> al, at |-> base,
                len |-> sz, mapped |-> [from |-> base, to |-> base + sz]]
        /\ is_aligned(base, al)
    BY <1>4 DEF OsDirect
  <2> HIDE DEF sz, at
  <2> QED BY <1>2, <2>1 DEF OsRangesAreExact, OsRegionIsExact, PurgeStaysInside
<1>5. CASE OsTrim(size, al, base)
  <2>1. ans' = [kind |-> "region", size |-> size, align |-> al, at |-> at, len |-> sz,
                mapped |-> [from |-> base + (at - base),
                            to |-> base + sz + al - (sz + al - (at - base) - sz)]]
    BY <1>5 DEF OsTrim, Trimmed
  <2> HIDE DEF sz, at
  <2>2. /\ base + (at - base) = at
        /\ base + sz + al - (sz + al - (at - base) - sz) = at + sz
    BY <1>1, <1>2, <1>3
  <2> QED BY <1>2, <1>3, <2>1, <2>2
          DEF OsRangesAreExact, OsRegionIsExact, PurgeStaysInside
<1> QED BY <1>4, <1>5

\* commit, decommit and reset: page_align_conservative finds the whole OS
\* pages of the range, and misses none.
LEMMA TouchAnswer ==
  ASSUME NEW size \in OsSizes, NEW base \in OsBases, NEW d \in {0, 1, OsPage - 1},
         OsTouch(base + d, size)
  PROVE  OsRangesAreExact'
<1> DEFINE addr == base + d
           from == align_up(addr, OsPage)
           to == align_down(addr + size, OsPage)
<1>1. /\ addr \in Nat /\ size \in Nat /\ OsPage \in Nat \ {0}
      /\ addr + OsPage <= Usize
  <2>1. base + size + OsPage + OsPage <= Usize /\ Usize \in Nat
    BY RegionsAssumption DEF Usize
  <2>2. base \in Nat /\ size \in Nat /\ OsPage \in Nat \ {0} /\ d \in 0..OsPage
    BY RegionsAssumption
  <2> QED BY <2>1, <2>2
<1>2. ans' = [kind |-> "purge", addr |-> addr, size |-> size,
              range |-> [from |-> from, to |-> to]]
  BY DEF OsTouch, Conservative
<1>3. /\ from \in Nat /\ addr <= from /\ from < addr + OsPage
      /\ is_aligned(from, OsPage)
  BY <1>1, RoundedUp
<1>4. /\ to \in Nat /\ to <= addr + size /\ addr + size < to + OsPage
      /\ is_aligned(to, OsPage)
  <2>1. \A x \in Nat : /\ align_down(x, OsPage) \in Nat
                       /\ align_down(x, OsPage) <= x
                       /\ x < align_down(x, OsPage) + OsPage
                       /\ is_aligned(align_down(x, OsPage), OsPage)
    BY <1>1, RoundedDown
  <2>2. addr + size \in Nat
    BY <1>1
  <2> QED BY <2>1, <2>2
<1> HIDE DEF addr, from, to
<1>5. from - addr < OsPage /\ addr + size - to < OsPage
  BY <1>1, <1>3, <1>4
<1> QED BY <1>2, <1>3, <1>4, <1>5
        DEF OsRangesAreExact, OsRegionIsExact, PurgeStaysInside

\* What os::alloc_aligned leaves mapped is exactly the region it returns, at
\* the alignment asked for, and what commit, decommit and reset touch is
\* exactly the whole OS pages of their range.
THEOREM OsRangesStayExact == GeometrySpec => []OsRangesAreExact
<1>1. GeometryInit => OsRangesAreExact
  BY DEF GeometryInit, NoAnswer, OsRangesAreExact, OsRegionIsExact, PurgeStaysInside
<1>2. OsRangesAreExact /\ [GeometryNext]_geometryVars => OsRangesAreExact'
  <2> SUFFICES ASSUME OsRangesAreExact, [GeometryNext]_geometryVars
               PROVE  OsRangesAreExact'
    OBVIOUS
  <2>1. CASE UNCHANGED ans
    BY <2>1 DEF OsRangesAreExact, OsRegionIsExact, PurgeStaysInside
  <2>2. CASE Build \/ UNCHANGED geometryVars
    BY <2>1, <2>2 DEF Build, geometryVars
  <2>3. CASE Answered
    BY <2>3 DEF Answered, NoAnswer, OsRangesAreExact, OsRegionIsExact, PurgeStaysInside
  <2>4. ASSUME NEW size \in Sizes, NEW align \in Aligns, NEW i \in Indices,
               AllocAligned(size, align, i)
        PROVE  OsRangesAreExact'
    <3>1. ans'.kind = "block"
      BY <2>4 DEF AllocAligned
    <3> QED BY <3>1 DEF OsRangesAreExact, OsRegionIsExact, PurgeStaysInside
  <2>5. ASSUME NEW size \in Sizes, NEW align \in Aligns, AllocRefused(size, align)
        PROVE  OsRangesAreExact'
    <3>1. ans'.kind = "refused"
      BY <2>5 DEF AllocRefused
    <3> QED BY <3>1 DEF OsRangesAreExact, OsRegionIsExact, PurgeStaysInside
  <2>6. ASSUME NEW size \in OsSizes, NEW base \in OsBases,
               NEW al \in {a \in Aligns : a >= OsPage},
               OsDirect(size, al, base) \/ OsTrim(size, al, base)
        PROVE  OsRangesAreExact'
    BY <2>6, RegionAnswer
  <2>7. ASSUME NEW size \in OsSizes, NEW base \in OsBases,
               NEW d \in {0, 1, OsPage - 1}, OsTouch(base + d, size)
        PROVE  OsRangesAreExact'
    BY <2>7, TouchAnswer
  <2> QED BY <2>2, <2>3, <2>4, <2>5, <2>6, <2>7 DEF GeometryNext
<1> QED BY <1>1, <1>2, PTL DEF GeometrySpec

-----------------------------------------------------------------------------
(***************************************************************************)
(* Blocks (Geometry): where alloc_aligned puts a request, and what free    *)
(* and usable_size make of the pointer.                                    *)
(***************************************************************************)
\* The position of a byte in the blocks of a page.
LEMMA Quotient ==
  ASSUME NEW a \in Nat \ {0}, NEW k \in Nat, NEW r \in 0..(a - 1)
  PROVE  (k * a + r) \div a = k /\ (k * a + r) % a = r
OBVIOUS

\* Bytes to words: exact for whole words ...
LEMMA ExactWords ==
  ASSUME NEW q \in Nat
  PROVE  wsize_from_size(q * IntptrSize) = q
<1>1. IntptrSize \in Nat \ {0} /\ IntptrSize - 1 \in 0..(IntptrSize - 1)
  BY LayoutAssumption
<1>2. (q * IntptrSize + (IntptrSize - 1)) \div IntptrSize = q
  BY <1>1, Quotient
<1>3. q * IntptrSize \in Nat
  BY <1>1
<1> QED BY <1>1, <1>2, <1>3 DEF wsize_from_size

\* ... and rounded up.
LEMMA Words ==
  ASSUME NEW size \in Nat
  PROVE  /\ wsize_from_size(size) \in Nat
         /\ size <= wsize_from_size(size) * IntptrSize
         /\ wsize_from_size(size) * IntptrSize < size + IntptrSize
         /\ wsize_from_size(wsize_from_size(size) * IntptrSize) = wsize_from_size(size)
         /\ size > 0 => wsize_from_size(size) > 0
<1> DEFINE z == size + IntptrSize - 1
           q == wsize_from_size(size)
<1>1. IntptrSize \in Nat \ {0} /\ IntptrSize - 1 \in 0..(IntptrSize - 1)
      /\ size + IntptrSize - 1 \in Nat
  BY LayoutAssumption
<1>2. q \in Nat /\ q * IntptrSize <= z /\ z < q * IntptrSize + IntptrSize
  <2>1. z \in Nat /\ q = z \div IntptrSize
    BY <1>1 DEF wsize_from_size
  <2> HIDE DEF z, q
  <2> QED BY <1>1, <2>1, Division
<1>3. q * IntptrSize \in Nat
  BY <1>1, <1>2
<1>4. size <= q * IntptrSize
  BY <1>1, <1>2, <1>3
<1>5. q * IntptrSize < size + IntptrSize
  BY <1>1, <1>2, <1>3
<1>6. wsize_from_size(q * IntptrSize) = q
  BY <1>2, ExactWords
<1>7. size > 0 => q > 0
  BY <1>1, <1>2, <1>4
<1> QED BY <1>2, <1>4, <1>5, <1>6, <1>7

\* Multiples of the word.
WholeWords(n) == \E k \in Nat : n = k * IntptrSize

\* BIN_SIZES so far: entries are whole words, and the entry of a class holds
\* every word size of the class that the loop has met.
TableInv ==
  /\ w \in Nat /\ table \in [Bins -> Nat]
  /\ \A b \in Bins : WholeWords(table[b])
  /\ \A v \in 1..LargeMaxWSize : v < w /\ bin(v * IntptrSize) < BinHuge =>
       table[bin(v * IntptrSize)] >= v * IntptrSize

\* One round of the loop.
LEMMA TableGrows ==
  ASSUME TableInv, Build
  PROVE  TableInv'
<1> DEFINE sz == w * IntptrSize
           b0 == bin(sz)
<1>1. IntptrSize \in Nat /\ BinHuge \in Nat /\ w \in Nat /\ w' = w + 1 /\ w <= LargeMaxWSize
  BY LayoutAssumption DEF TableInv, Build
<1>2. sz \in Nat /\ WholeWords(sz)
  BY <1>1 DEF WholeWords
<1>3. table' = IF b0 < BinHuge /\ sz > table[b0] THEN [table EXCEPT ![b0] = sz] ELSE table
  BY DEF Build
<1> HIDE DEF sz, b0
<1>4. table' \in [Bins -> Nat] /\ \A b \in Bins : table'[b] >= table[b]
  <2>1. CASE table' = table
    BY <2>1 DEF TableInv
  <2>2. CASE b0 < BinHuge /\ sz > table[b0] /\ table' = [table EXCEPT ![b0] = sz]
    <3>1. \A b \in Bins : table'[b] = IF b = b0 THEN sz ELSE table[b]
      BY <2>2 DEF TableInv
    <3>2. table' \in [Bins -> Nat]
      BY <1>2, <2>2 DEF TableInv
    <3> QED BY <1>2, <2>2, <3>1, <3>2 DEF TableInv
  <2> QED BY <1>3, <2>1, <2>2
<1>5. \A b \in Bins : WholeWords(table'[b])
  BY <1>2, <1>3 DEF TableInv
<1>6. ASSUME NEW v \in 1..LargeMaxWSize, v < w + 1, bin(v * IntptrSize) < BinHuge
      PROVE  table'[bin(v * IntptrSize)] >= v * IntptrSize
  <2>1. bin(v * IntptrSize) \in Bins /\ v * IntptrSize \in Nat
    BY <1>1, BinsAssumption DEF Bins
  <2>2. CASE v < w
    <3>1. table[bin(v * IntptrSize)] >= v * IntptrSize
      BY <1>6, <2>2 DEF TableInv
    <3> QED BY <1>4, <2>1, <3>1 DEF TableInv
  <2>3. CASE v = w
    <3>1. b0 \in Bins /\ b0 < BinHuge
      BY <1>6, <2>1, <2>3 DEF b0, sz
    <3>2. table'[b0] >= sz
      BY <1>2, <1>3, <3>1 DEF TableInv
    <3> QED BY <2>3, <3>2 DEF b0, sz
  <2> QED BY <1>1, <1>6, <2>2, <2>3
<1> QED BY <1>1, <1>4, <1>5, <1>6 DEF TableInv, WholeWords

\* The finished table holds what falls into its classes.
LEMMA ClassHolds ==
  ASSUME TableInv, w > LargeMaxWSize, NEW size \in Nat, size > 0
  PROVE  /\ bin(size) \in Bins /\ bin(size) <= BinHuge
         /\ bin(size) < BinHuge =>
              table[bin(size)] \in Nat /\ table[bin(size)] >= size
              /\ WholeWords(table[bin(size)])
<1> DEFINE q == wsize_from_size(size)
<1>1. /\ q \in Nat /\ q > 0 /\ size <= q * IntptrSize
      /\ wsize_from_size(q * IntptrSize) = q
  BY Words
<1>2. bin(size) = bin(q * IntptrSize)
  BY <1>1 DEF bin
<1>3. LargeMaxWSize \in Nat /\ LargeMaxWSize >= 8 /\ IntptrSize \in Nat /\ BinHuge \in Nat
  <2>1. IntptrSize \in Nat \ {0} /\ LargeMaxObj \in Nat /\ LargeMaxObj >= 8 * IntptrSize
        /\ BinHuge \in Nat
    BY LayoutAssumption
  <2>2. LargeMaxWSize \in Nat /\ LargeMaxObj < LargeMaxWSize * IntptrSize + IntptrSize
    BY <2>1, Division DEF LargeMaxWSize
  <2>3. LargeMaxWSize <= 7 => LargeMaxWSize * IntptrSize <= 7 * IntptrSize
    BY <2>1, <2>2
  <2> QED BY <2>1, <2>2, <2>3
<1> HIDE DEF q
<1>4. CASE q <= LargeMaxWSize
  <2>1. q \in 1..LargeMaxWSize /\ q < w /\ q * IntptrSize \in Nat
    BY <1>1, <1>3, <1>4 DEF TableInv
  <2>2. bin(size) \in 1..BinHuge
    BY <1>2, <1>3, <2>1, BinsAssumption
  <2>3. bin(size) < BinHuge => table[bin(size)] >= q * IntptrSize
    BY <1>2, <2>1 DEF TableInv
  <2> QED BY <1>1, <1>3, <2>1, <2>2, <2>3 DEF TableInv, Bins
<1>5. CASE q > LargeMaxWSize
  <2>1. bin(size) = BinHuge
    BY <1>1, <1>3, <1>5 DEF bin, q
  <2>2. BinHuge > 0
    <3>1. bin(1 * IntptrSize) \in 1..(BinHuge - 1)
      BY <1>3, BinsAssumption
    <3> QED BY <1>3, <3>1
  <2> QED BY <1>3, <2>1, <2>2 DEF Bins
<1> QED BY <1>1, <1>3, <1>4, <1>5

\* Multiples of the word compare by the word: a block that lacks at most one
\* byte of an alignment has the whole of it.
LEMMA WholeWordsCompare ==
  ASSUME NEW m, NEW n, WholeWords(m), WholeWords(n), m >= n - 1
  PROVE  m >= n
<1>1. PICK j \in Nat : m = j * IntptrSize
  BY DEF WholeWords
<1>2. PICK k \in Nat : n = k * IntptrSize
  BY DEF WholeWords
<1>3. IntptrSize \in Nat /\ IntptrSize >= 2
  BY LayoutAssumption
<1>4. j < k => j * IntptrSize + IntptrSize <= k * IntptrSize
  <2> SUFFICES ASSUME j < k PROVE j * IntptrSize + IntptrSize <= k * IntptrSize
    OBVIOUS
  <2>1. PICK d \in Nat : k = j + 1 + d
    <3>1. k - j - 1 \in Nat /\ k = j + 1 + (k - j - 1)
      OBVIOUS
    <3> QED BY <3>1
  <2>2. k * IntptrSize = j * IntptrSize + IntptrSize + d * IntptrSize
    BY <1>3, <2>1
  <2>3. d * IntptrSize \in Nat /\ j * IntptrSize \in Nat
    BY <1>3
  <2> QED BY <1>3, <2>2, <2>3
<1>5. j * IntptrSize \in Nat /\ k * IntptrSize \in Nat
  BY <1>3
<1>6. j >= k => j * IntptrSize >= k * IntptrSize
  <2> SUFFICES ASSUME j >= k PROVE j * IntptrSize >= k * IntptrSize
    OBVIOUS
  <2>1. j * IntptrSize = k * IntptrSize + (j - k) * IntptrSize /\ (j - k) * IntptrSize \in Nat
    BY <1>3
  <2> QED BY <1>5, <2>1
<1> QED BY <1>1, <1>2, <1>3, <1>4, <1>5, <1>6

\* What is said of the block i of a page that serves `total` bytes: it holds
\* them, lies in the slices behind the header, and starts far enough from
\* the end of the address space for any alignment.
Holds(pg, i, total) ==
  LET p == pg.start + i * pg.bs IN
  /\ pg.bs \in Nat \ {0} /\ pg.bs >= total /\ WholeWords(pg.bs)
  /\ pg.start \in Nat /\ p \in Nat
  /\ p + pg.bs <= PageBase + pg.slices * SliceSize
  /\ pg.start = PageBase \/ p >= PageBase + HeaderSize
  /\ \A al \in Aligns : p + al <= Usize

\* The header and the blocks behind it.
LEMMA StartOffsetFits ==
  /\ StartOffset \in Nat /\ HeaderSize <= StartOffset /\ StartOffset <= SliceSize
  /\ StartOffset <= HeaderSize + 2 * MaxAlignSize
<1> DEFINE one == align_up(HeaderSize, MaxAlignSize)
<1>1. /\ HeaderSize \in Nat /\ MaxAlignSize \in Nat \ {0} /\ SliceSize \in Nat
      /\ PageBase \in Nat /\ Usize \in Nat
      /\ HeaderSize + 2 * MaxAlignSize <= SliceSize
      /\ PageBase + 64 * SliceSize + MaxAlignSize <= Usize
  BY LayoutAssumption, RegionsAssumption DEF Usize
<1>2. HeaderSize + MaxAlignSize <= Usize
  BY <1>1
<1>3. one \in Nat /\ HeaderSize <= one /\ one < HeaderSize + MaxAlignSize
  BY <1>1, <1>2, RoundedUp
<1> HIDE DEF one
<1>4. one + MaxAlignSize <= Usize
  BY <1>1, <1>3
<1>5. /\ align_up(one, MaxAlignSize) \in Nat /\ one <= align_up(one, MaxAlignSize)
      /\ align_up(one, MaxAlignSize) < one + MaxAlignSize
  BY <1>1, <1>3, <1>4, RoundedUp
<1>6. StartOffset = align_up(one, MaxAlignSize)
  BY DEF StartOffset, one
<1> QED BY <1>1, <1>3, <1>5, <1>6

\* Page::init: a page of a size class.
LEMMA ClassPageHolds ==
  ASSUME TableInv, w > LargeMaxWSize, NEW total \in Nat,
         bin(AtLeast(total)) < BinHuge,
         NEW i \in Nat, i < ClassPage(total).reserved
  PROVE  Holds(ClassPage(total), i, AtLeast(total))
<1> DEFINE bs == table[bin(AtLeast(total))]
           n == page_slices_for(bs)
           so == StartOffset
           room == n * SliceSize - so
           res == room \div bs
<1>1. ClassPage(total) = [start |-> PageBase + so, bs |-> bs, slices |-> n, reserved |-> res]
  BY DEF ClassPage
<1>2. AtLeast(total) \in Nat /\ AtLeast(total) > 0
  BY LayoutAssumption DEF AtLeast
<1>3. bs \in Nat \ {0} /\ bs >= AtLeast(total) /\ WholeWords(bs)
  BY <1>2, ClassHolds
<1>4. n \in {1, 8, 64}
  BY DEF page_slices_for
<1>5. so \in Nat /\ HeaderSize <= so /\ so <= SliceSize
  BY StartOffsetFits
<1>6. SliceSize \in Nat /\ PageBase \in Nat /\ HeaderSize \in Nat
  BY LayoutAssumption
<1> HIDE DEF bs, n, so
<1>7. /\ n * SliceSize \in Nat /\ SliceSize <= n * SliceSize
      /\ n * SliceSize <= 64 * SliceSize
  BY <1>4, <1>6
<1>8. room \in Nat
  BY <1>5, <1>6, <1>7
<1>9. res \in Nat /\ res * bs \in Nat /\ res * bs <= room
  <2> HIDE DEF room
  <2> QED BY <1>3, <1>8, Division
<1>10. i < res
  BY <1>1
<1>11. i * bs \in Nat /\ i * bs + bs <= room
  <2> HIDE DEF res, room
  <2>1. PICK d \in Nat : res = i + 1 + d
    <3>1. res - i - 1 \in Nat /\ res = i + 1 + (res - i - 1)
      BY <1>9, <1>10
    <3> QED BY <3>1
  <2>2. res * bs = i * bs + bs + d * bs
    BY <1>3, <2>1
  <2>3. d * bs \in Nat /\ i * bs \in Nat
    BY <1>3
  <2> QED BY <1>3, <1>8, <1>9, <2>2, <2>3
<1> DEFINE p == PageBase + so + i * bs
<1>12. /\ p \in Nat /\ p + bs <= PageBase + n * SliceSize
       /\ p >= PageBase + HeaderSize
  BY <1>3, <1>5, <1>6, <1>7, <1>11
<1>13. ASSUME NEW al \in Aligns PROVE p + al <= Usize
  <2>1. PageBase + 64 * SliceSize + al <= Usize /\ Usize \in Nat /\ al \in Nat
    BY LayoutAssumption, RegionsAssumption DEF Usize
  <2>2. p <= PageBase + 64 * SliceSize
    BY <1>3, <1>6, <1>7, <1>12
  <2> HIDE DEF p
  <2> QED BY <1>6, <1>12, <2>1, <2>2
<1>14. PageBase + so \in Nat
  BY <1>5, <1>6
<1> QED BY <1>1, <1>3, <1>12, <1>13, <1>14 DEF Holds

\* A sum that wraps is rounded down to nothing.
LEMMA Wrapped ==
  ASSUME NEW a \in Nat \ {0}, NEW x \in Nat, x < Usize, a <= Usize, x + a > Usize
  PROVE  align_up(x, a) = 0
<1> DEFINE r == x + a - 1 - Usize
<1>1. Usize \in Nat \ {0}
  BY RegionsAssumption DEF Usize
<1>2. r \in 0..(Usize - 1) /\ r \in 0..(a - 1) /\ x + a - 1 = 1 * Usize + r
  BY <1>1
<1> HIDE DEF r
<1>3. (1 * Usize + r) % Usize = r
  BY <1>1, <1>2, Quotient
<1>4. r \div a = 0
  BY <1>2
<1>5. align_up(x, a) = (r \div a) * a
  BY <1>2, <1>3 DEF align_up
<1> QED BY <1>4, <1>5

\* A multiple is its quotient times the divisor.
LEMMA ExactMultiple ==
  ASSUME NEW a \in Nat \ {0}, NEW x \in Nat, is_aligned(x, a)
  PROVE  x \div a \in Nat /\ (x \div a) * a = x
<1>1. x \div a \in Nat /\ x = a * (x \div a) + (x % a) /\ x % a = 0
  BY DEF is_aligned
<1> QED BY <1>1

\* alloc_huge: one block from the start of the slices.  A size that wraps
\* when it is rounded up comes to no slices at all.
LEMMA HugePageHolds ==
  ASSUME NEW total \in Nat, total < Usize, ~Refuses(HugePage(total)),
         NEW i \in Nat, i < HugePage(total).reserved
  PROVE  Holds(HugePage(total), i, AtLeast(total))
<1> DEFINE t == AtLeast(total)
           bs == align_up(t, MaxAlignSize)
           len == align_up(bs, SliceSize)
<1>1. HugePage(total) = [start |-> PageBase, bs |-> bs, slices |-> len \div SliceSize,
                         reserved |-> 1]
  BY DEF HugePage
<1>2. /\ IntptrSize \in Nat \ {0} /\ MaxAlignSize \in Nat \ {0} /\ SliceSize \in Nat \ {0}
      /\ PageBase \in Nat /\ Usize \in Nat
      /\ MaxAlignSize < Usize /\ SliceSize <= Usize
      /\ \A al \in Aligns : al \in Nat /\ PageBase + al <= Usize
  <2>1. /\ MaxAlignSize \in Nat \ {0} /\ SliceSize \in Nat /\ HeaderSize \in Nat
        /\ PageBase \in Nat /\ Usize \in Nat
        /\ HeaderSize + 2 * MaxAlignSize <= SliceSize
        /\ PageBase + 64 * SliceSize + MaxAlignSize <= Usize
    BY LayoutAssumption, RegionsAssumption DEF Usize
  <2>2. \A al \in Aligns : al \in Nat /\ PageBase + 64 * SliceSize + al <= Usize
    BY LayoutAssumption, RegionsAssumption DEF Usize
  <2>3. IntptrSize \in Nat \ {0}
    BY LayoutAssumption
  <2> QED BY <2>1, <2>2, <2>3
<1>3. MaxAlignSize \div IntptrSize \in Nat
      /\ (MaxAlignSize \div IntptrSize) * IntptrSize = MaxAlignSize
      /\ IntptrSize <= MaxAlignSize
  <2>1. is_aligned(MaxAlignSize, IntptrSize)
    BY LayoutAssumption DEF is_aligned
  <2>2. MaxAlignSize < IntptrSize => MaxAlignSize % IntptrSize = MaxAlignSize
    BY <1>2, NoWrap
  <2> QED BY <1>2, <2>1, <2>2, ExactMultiple DEF is_aligned
<1>4. t \in Nat \ {0} /\ t < Usize
  BY <1>2, <1>3 DEF AtLeast
<1>5. len \div SliceSize # 0
  BY <1>1 DEF Refuses
<1> HIDE DEF t
<1>6. bs # 0
  <2> SUFFICES ASSUME bs = 0 PROVE FALSE
    OBVIOUS
  <2>1. 0 + SliceSize <= Usize
    BY <1>2
  <2>2. align_up(0, SliceSize) \in Nat /\ align_up(0, SliceSize) < 0 + SliceSize
    BY <1>2, <2>1, RoundedUp
  <2>3. len \in 0..(SliceSize - 1)
    BY <1>2, <2>2
  <2> HIDE DEF len
  <2>4. (0 * SliceSize + len) \div SliceSize = 0 /\ 0 * SliceSize + len = len
    BY <1>2, <2>3, Quotient
  <2> QED BY <1>5, <2>4
<1>7. t + MaxAlignSize <= Usize
  BY <1>2, <1>4, <1>6, Wrapped
<1>8. bs \in Nat \ {0} /\ t <= bs /\ bs < Usize /\ is_aligned(bs, MaxAlignSize)
  <2>1. bs \in Nat /\ t <= bs /\ bs < t + MaxAlignSize /\ is_aligned(bs, MaxAlignSize)
    BY <1>2, <1>4, <1>7, RoundedUp
  <2> HIDE DEF bs
  <2> QED BY <1>2, <1>4, <1>6, <1>7, <2>1
<1>9. WholeWords(bs)
  <2> HIDE DEF bs
  <2> DEFINE k == bs \div MaxAlignSize
             j == MaxAlignSize \div IntptrSize
  <2>1. k \in Nat /\ k * MaxAlignSize = bs
    BY <1>2, <1>8, ExactMultiple
  <2>2. j \in Nat /\ j * IntptrSize = MaxAlignSize
    BY <1>3
  <2> HIDE DEF k, j
  <2>3. (k * j) * IntptrSize = k * (j * IntptrSize) /\ k * j \in Nat
    BY <1>2, <2>1, <2>2
  <2> QED BY <2>1, <2>2, <2>3 DEF WholeWords
<1> HIDE DEF bs
<1>10. bs + SliceSize <= Usize
  <2> SUFFICES ASSUME bs + SliceSize > Usize PROVE FALSE
    BY <1>2, <1>8
  <2>1. len = 0
    BY <1>2, <1>8, Wrapped
  <2>2. 0 \div SliceSize = 0
    BY <1>2
  <2> QED BY <1>5, <2>1, <2>2
<1>11. len \in Nat /\ bs <= len /\ is_aligned(len, SliceSize)
  BY <1>2, <1>8, <1>10, RoundedUp
<1> HIDE DEF len
<1>12. (len \div SliceSize) * SliceSize = len
  BY <1>2, <1>11, ExactMultiple
<1>13. i = 0 /\ PageBase + i * bs = PageBase
  BY <1>1, <1>2, <1>8
<1>14. PageBase + bs <= PageBase + len
  BY <1>2, <1>8, <1>11
<1> QED BY <1>1, <1>2, <1>4, <1>8, <1>9, <1>12, <1>13, <1>14 DEF Holds, t

\* The pointer alloc_aligned returns lies in the block, with all of the
\* request behind it; "aligned - block_start < align <= block_size".
LEMMA PointerInBlock ==
  ASSUME NEW pg, NEW i \in Nat, NEW size \in Nat, NEW align \in Aligns,
         Holds(pg, i, AtLeast(Total(size, align))),
         NEW p, p = pg.start + i * pg.bs,
         NEW ptr, ptr = Aligned(p, align)
  PROVE  /\ ptr \in Nat /\ p <= ptr /\ ptr - p \in 0..(pg.bs - 1)
         /\ ptr + size <= p + pg.bs
         /\ align > IntptrSize => is_aligned(ptr, align)
         /\ align <= IntptrSize => ptr = p
<1> DEFINE bs == pg.bs
<1>1. /\ IntptrSize \in Nat \ {0} /\ align \in Nat \ {0}
      /\ bs \in Nat \ {0} /\ WholeWords(bs) /\ p \in Nat /\ p + align <= Usize
      /\ bs >= AtLeast(Total(size, align))
  BY LayoutAssumption, RegionsAssumption DEF Holds
<1>2. Total(size, align) \in Nat
  BY <1>1 DEF Total
<1>3. bs >= Total(size, align)
  BY <1>1, <1>2 DEF AtLeast
<1> HIDE DEF bs
<1>4. CASE align <= IntptrSize
  <2>1. ptr = p /\ Total(size, align) = size
    BY <1>1, <1>4 DEF Aligned, Total
  <2> QED BY <1>1, <1>3, <1>4, <2>1 DEF bs
<1>5. CASE align > IntptrSize
  <2>1. ptr = align_up(p, align) /\ Total(size, align) = size + align - 1
    BY <1>1, <1>5 DEF Aligned, Total
  <2>2. /\ align_up(p, align) \in Nat /\ p <= align_up(p, align)
        /\ align_up(p, align) < p + align /\ is_aligned(align_up(p, align), align)
    BY <1>1, RoundedUp
  <2>3. bs >= align
    <3>1. WholeWords(align)
      <4>1. is_aligned(align, IntptrSize)
        BY <1>5, LayoutAssumption DEF is_aligned
      <4>2. align \div IntptrSize \in Nat /\ (align \div IntptrSize) * IntptrSize = align
        BY <1>1, <4>1, ExactMultiple
      <4> QED BY <4>2 DEF WholeWords
    <3>2. bs >= align - 1
      BY <1>1, <1>3, <2>1
    <3> QED BY <1>1, <3>1, <3>2, WholeWordsCompare
  <2>4. ptr \in Nat /\ p <= ptr /\ ptr < p + align /\ is_aligned(ptr, align)
    BY <2>1, <2>2
  <2>5. ptr - p \in 0..(bs - 1) /\ ptr + size <= p + bs
    BY <1>1, <1>3, <2>1, <2>3, <2>4
  <2> QED BY <1>1, <1>5, <2>4, <2>5 DEF bs
<1> QED BY <1>1, <1>4, <1>5

\* recover_block_start and usable_size, of a pointer e bytes into block i.
LEMMA BlockRecovered ==
  ASSUME NEW pg, pg.start \in Nat, pg.bs \in Nat \ {0}, NEW i \in Nat,
         NEW e \in 0..(pg.bs - 1), NEW ptr, ptr = pg.start + i * pg.bs + e
  PROVE  /\ recover_block_start(pg, ptr) = pg.start + i * pg.bs
         /\ usable_size(pg, ptr) = pg.bs - e
<1>1. i * pg.bs \in Nat
  OBVIOUS
<1>2. ptr - pg.start = i * pg.bs + e
  BY <1>1
<1>3. (i * pg.bs + e) \div pg.bs = i /\ (i * pg.bs + e) % pg.bs = e
  BY Quotient
<1> QED BY <1>2, <1>3 DEF recover_block_start, usable_size

\* Requests are numbers, whatever the table holds.
LEMMA SizesAreIntegers ==
  ASSUME TableInv, NEW size \in Sizes
  PROVE  size \in Int
<1>1. \A b \in 1..(BinHuge - 1) : table[b] \in Nat
  BY LayoutAssumption DEF TableInv, Bins
<1>2. CASE size \in HugeSizes
  BY <1>2, LayoutAssumption
<1>3. CASE size \notin HugeSizes
  <2>1. PICK b \in 1..(BinHuge - 1) : size \in Around(table[b])
    BY <1>3 DEF Sizes
  <2> QED BY <1>1, <2>1 DEF Around
<1> QED BY <1>2, <1>3

\* An answer of alloc_aligned has both properties.
LEMMA ServedBlock ==
  ASSUME TableInv, Built, NEW size \in Sizes, NEW align \in Aligns, NEW i \in Indices,
         AllocAligned(size, align, i)
  PROVE  RequestFits' /\ FreeFindsTheBlock'
<1> DEFINE total == Total(size, align)
           pg == PageFor(total)
           p == pg.start + i * pg.bs
           ptr == Aligned(p, align)
<1>1. /\ size >= 0 /\ total < Usize /\ ~Refuses(pg) /\ i < pg.reserved
      /\ ans' = [kind |-> "block", size |-> size, align |-> align, page |-> pg,
                 at |-> p, ptr |-> ptr]
      /\ table' = table /\ w' = w
  BY DEF AllocAligned
<1>2. size \in Nat /\ i \in Nat /\ align \in Nat
  <2>1. size \in Int
    BY SizesAreIntegers
  <2> QED BY <1>1, <2>1, LayoutAssumption, RegionsAssumption
<1>3. total \in Nat /\ AtLeast(total) \in Nat /\ AtLeast(total) > 0
      /\ BinHuge \in Nat /\ IntptrSize \in Nat
  BY <1>2, LayoutAssumption DEF Total, AtLeast
<1>4. bin(AtLeast(total)) \in Nat /\ w > LargeMaxWSize
  BY <1>3, ClassHolds DEF Built, Bins
<1>5. Holds(pg, i, AtLeast(total))
  <2>1. CASE bin(AtLeast(total)) >= BinHuge
    <3>1. pg = HugePage(total)
      BY <2>1 DEF PageFor
    <3> QED BY <1>1, <1>2, <1>3, <3>1, HugePageHolds
  <2>2. CASE bin(AtLeast(total)) < BinHuge
    <3>1. pg = ClassPage(total)
      BY <1>3, <1>4, <2>2 DEF PageFor
    <3> QED BY <1>1, <1>2, <1>3, <1>4, <2>2, <3>1, ClassPageHolds
  <2> QED BY <1>3, <1>4, <2>1, <2>2
<1>6. /\ ptr \in Nat /\ p <= ptr /\ ptr - p \in 0..(pg.bs - 1)
      /\ ptr + size <= p + pg.bs
      /\ align > IntptrSize => is_aligned(ptr, align)
      /\ align <= IntptrSize => ptr = p
  BY <1>2, <1>5, PointerInBlock
<1>7. /\ pg.start \in Nat /\ pg.bs \in Nat \ {0} /\ p \in Nat
      /\ p + pg.bs <= PageBase + pg.slices * SliceSize
      /\ pg.start = PageBase \/ p >= PageBase + HeaderSize
  BY <1>5 DEF Holds
<1>8. align <= IntptrSize /\ bin(AtLeast(size)) < BinHuge => pg.bs = good_size(size)'
  <2> SUFFICES ASSUME align <= IntptrSize, bin(AtLeast(size)) < BinHuge
               PROVE  pg.bs = good_size(size)'
    OBVIOUS
  <2>1. total = size /\ ~(bin(AtLeast(size)) >= BinHuge)
    BY <1>3, <1>4 DEF Total
  <2>2. pg.bs = table[bin(AtLeast(size))]
    BY <2>1 DEF PageFor, ClassPage
  <2> QED BY <1>1, <2>1, <2>2 DEF good_size
<1> HIDE DEF total, pg
<1>9. ptr = p + (ptr - p)
  BY <1>6, <1>7
<1>10. recover_block_start(pg, ptr) = p /\ usable_size(pg, ptr) = pg.bs - (ptr - p)
  <2> DEFINE e == ptr - p
  <2>1. e \in 0..(pg.bs - 1) /\ ptr = pg.start + i * pg.bs + e
    BY <1>6, <1>9
  <2> HIDE DEF e, ptr
  <2>2. recover_block_start(pg, ptr) = pg.start + i * pg.bs /\ usable_size(pg, ptr) = pg.bs - e
    BY <1>2, <1>7, <2>1, BlockRecovered
  <2> QED BY <2>2 DEF e
<1> HIDE DEF p, ptr
<1>11. RequestFits'
  BY <1>1, <1>6, <1>7 DEF RequestFits
<1>12. FreeFindsTheBlock'
  <2>1. ptr + usable_size(pg, ptr) = p + pg.bs /\ usable_size(pg, ptr) >= size
    BY <1>2, <1>6, <1>7, <1>10
  <2>2. align <= IntptrSize => usable_size(pg, ptr) = pg.bs
    BY <1>6, <1>7, <1>10
  <2>3. /\ ans'.kind = "block" /\ ans'.size = size /\ ans'.align = align /\ ans'.page = pg
        /\ ans'.at = p /\ ans'.ptr = ptr
    BY <1>1
  <2> QED BY <1>8, <1>10, <2>1, <2>2, <2>3
          DEF FreeFindsTheBlock, recover_block_start, usable_size
<1> QED BY <1>11, <1>12

\* The inductive invariant: questions are put to a finished table only.
BlockInv ==
  /\ TableInv
  /\ ans.kind = "block" => w > LargeMaxWSize
  /\ RequestFits /\ FreeFindsTheBlock

\* It holds throughout.
LEMMA BlockInvariant == GeometrySpec => []BlockInv
<1>1. GeometryInit => BlockInv
  <2> SUFFICES ASSUME GeometryInit PROVE BlockInv
    OBVIOUS
  <2>1. 0 = 0 * IntptrSize
    BY LayoutAssumption
  <2>2. TableInv
    BY <2>1 DEF GeometryInit, TableInv, WholeWords
  <2> QED BY <2>2 DEF GeometryInit, NoAnswer, BlockInv, RequestFits, FreeFindsTheBlock
<1>2. BlockInv /\ [GeometryNext]_geometryVars => BlockInv'
  <2> SUFFICES ASSUME BlockInv, [GeometryNext]_geometryVars PROVE BlockInv'
    OBVIOUS
  <2>1. TableInv' \/ (table' = table /\ w' = w /\ TableInv')
    <3>1. CASE Build
      BY <3>1, TableGrows DEF BlockInv
    <3>2. CASE UNCHANGED <<w, table>>
      BY <3>2 DEF BlockInv, TableInv
    <3> QED BY <3>1, <3>2 DEF GeometryNext, geometryVars, Answered, AllocAligned,
                              AllocRefused, OsDirect, OsTrim, OsTouch
  <2>2. ASSUME ans'.kind # "block" PROVE BlockInv'
    BY <2>1, <2>2 DEF BlockInv, RequestFits, FreeFindsTheBlock
  <2>3. CASE Build
    <3>1. ans' = ans /\ w <= LargeMaxWSize /\ w \in Nat
      BY <2>3 DEF Build, BlockInv, TableInv
    <3>2. LargeMaxWSize \in Int
      BY LayoutAssumption DEF LargeMaxWSize
    <3>3. ans'.kind # "block"
      BY <3>1, <3>2 DEF BlockInv
    <3> QED BY <2>2, <3>3
  <2>4. CASE Answered
    BY <2>2, <2>4 DEF Answered, NoAnswer
  <2>5. ASSUME Built, NEW size \in Sizes, NEW align \in Aligns, NEW i \in Indices,
               AllocAligned(size, align, i)
        PROVE  BlockInv'
    <3>1. RequestFits' /\ FreeFindsTheBlock'
      BY <2>5, ServedBlock DEF BlockInv
    <3>2. (w > LargeMaxWSize)'
      BY <2>5 DEF Built, AllocAligned
    <3> QED BY <2>1, <3>1, <3>2 DEF BlockInv
  <2>6. ASSUME NEW size, NEW align, AllocRefused(size, align) PROVE BlockInv'
    BY <2>2, <2>6 DEF AllocRefused
  <2>7. ASSUME NEW size, NEW base, NEW al,
               OsDirect(size, al, base) \/ OsTrim(size, al, base)
        PROVE  BlockInv'
    BY <2>2, <2>7 DEF OsDirect, OsTrim
  <2>8. ASSUME NEW size, NEW addr, OsTouch(addr, size) PROVE BlockInv'
    BY <2>2, <2>8 DEF OsTouch
  <2>9. CASE UNCHANGED geometryVars
    BY <2>1, <2>9 DEF geometryVars, BlockInv, RequestFits, FreeFindsTheBlock,
                      good_size, TableInv
  <2> QED BY <2>3, <2>4, <2>5, <2>6, <2>7, <2>8, <2>9 DEF GeometryNext
<1> QED BY <1>1, <1>2, PTL DEF GeometrySpec

\* The pointer of alloc_aligned is aligned, and the bytes asked for lie in
\* one block of the page behind its header; a request whose size wraps when
\* it is rounded up is refused, never served small.
THEOREM RequestsFit == GeometrySpec => []RequestFits
BY BlockInvariant, PTL DEF BlockInv

\* free recovers the block from that pointer, and usable_size ends with the
\* block and covers the request.
THEOREM FreesFindTheBlock == GeometrySpec => []FreeFindsTheBlock
BY BlockInvariant, PTL DEF BlockInv

-----------------------------------------------------------------------------
(***************************************************************************)
(* Size classes (Geometry): bin is monotone in the words of a request, and *)
(* the words of one class lie within a quarter of each other; so the loop  *)
(* of BIN_SIZES leaves the largest size of each class in its entry.        *)
(***************************************************************************)
\* A non-empty bounded set of naturals has a least element.
LEMMA LeastOf ==
  ASSUME NEW n \in Nat, NEW S, S \subseteq 0..n, S # {}
  PROVE  \E j \in S : \A k \in S : j <= k
<1> DEFINE T == {n - j : j \in S}
<1>1. T \subseteq 0..n /\ T # {}
  <2>1. \A j \in S : n - j \in 0..n
    OBVIOUS
  <2>2. PICK j \in S : TRUE
    OBVIOUS
  <2> QED BY <2>1, <2>2
<1>2. PICK x \in T : \A y \in T : y <= x
  <2> HIDE DEF T
  <2> QED BY <1>1, Greatest
<1>3. PICK j \in S : x = n - j
  BY <1>2
<1>4. ASSUME NEW k \in S PROVE j <= k
  <2>1. n - k \in T
    OBVIOUS
  <2>2. n - k <= n - j
    BY <1>2, <1>3, <2>1
  <2> QED BY <2>2
<1> QED BY <1>4

Pow(b) == 2^b

\* Powers of two up to the word.
LEMMA Powers ==
  /\ WordBits \in Nat /\ Pow(0) = 1
  /\ \A b \in 0..(WordBits - 1) : Pow(b + 1) = 2 * Pow(b)
  /\ \A b \in 0..WordBits : Pow(b) \in Nat
<1>1. WordBits \in Nat /\ Pow(0) = 1 /\ Pow(WordBits) \in Nat
  BY LayoutAssumption, RegionsAssumption DEF Pow
<1>2. \A b \in 0..(WordBits - 1) : Pow(b) \in Nat /\ Pow(b + 1) = 2 * Pow(b)
  BY PowersAssumption DEF Pow
<1> QED BY <1>1, <1>2

\* They grow.
LEMMA PowersGrow ==
  ASSUME NEW a \in 0..WordBits, NEW b \in 0..WordBits, a <= b
  PROVE  Pow(a) <= Pow(b)
<1> DEFINE S == {c \in 0..WordBits : a <= c /\ ~(Pow(a) <= Pow(c))}
<1> SUFFICES ASSUME S # {} PROVE FALSE
  BY Powers
<1>1. PICK c \in S : \A d \in S : c <= d
  BY Powers, LeastOf
<1>2. c \in 0..WordBits /\ a <= c /\ c # a /\ WordBits \in Nat
  BY <1>1, Powers
<1>3. c - 1 \in 0..(WordBits - 1) /\ a <= c - 1 /\ c - 1 \notin S
  BY <1>1, <1>2
<1>4. Pow(a) <= Pow(c - 1) /\ Pow(c - 1) \in Nat /\ Pow(a) \in Nat
  BY <1>2, <1>3, Powers
<1>5. Pow((c - 1) + 1) = 2 * Pow(c - 1) /\ (c - 1) + 1 = c
  BY <1>2, <1>3, Powers
<1> QED BY <1>1, <1>4, <1>5

\* mi_bsr finds the leading bit, and there is only one.
LEMMA LeadingBit ==
  ASSUME NEW x \in Nat, x > 0, x < Pow(WordBits)
  PROVE  /\ mi_bsr(x) \in 0..(WordBits - 1)
         /\ Pow(mi_bsr(x)) <= x /\ x < Pow(mi_bsr(x) + 1)
         /\ \A b \in 0..(WordBits - 1) : Pow(b) <= x /\ x < Pow(b + 1) => b = mi_bsr(x)
<1> DEFINE S == {c \in 0..WordBits : x < Pow(c)}
<1>1. WordBits \in S
  BY Powers
<1>2. PICK c \in S : \A d \in S : c <= d
  BY <1>1, Powers, LeastOf
<1>3. c \in 0..WordBits /\ c # 0 /\ x < Pow(c) /\ WordBits \in Nat
  BY <1>2, Powers
<1>4. c - 1 \in 0..(WordBits - 1) /\ c - 1 \notin S /\ (c - 1) + 1 = c
  BY <1>2, <1>3
<1>5. Pow(c - 1) <= x /\ x < Pow((c - 1) + 1)
  BY <1>3, <1>4, Powers
<1>6. mi_bsr(x) \in 0..(WordBits - 1) /\ Pow(mi_bsr(x)) <= x /\ x < Pow(mi_bsr(x) + 1)
  BY <1>4, <1>5 DEF mi_bsr, Pow
<1>7. ASSUME NEW b \in 0..(WordBits - 1), Pow(b) <= x, x < Pow(b + 1)
      PROVE  b = mi_bsr(x)
  <2> DEFINE m == mi_bsr(x)
  <2>1. m \in 0..(WordBits - 1) /\ Pow(m) <= x /\ x < Pow(m + 1)
    BY <1>6
  <2> HIDE DEF m
  <2>2. b < m => Pow(b + 1) <= Pow(m)
    BY <1>3, <2>1, PowersGrow
  <2>3. m < b => Pow(m + 1) <= Pow(b)
    BY <1>3, <2>1, PowersGrow
  <2>4. Pow(b) \in Nat /\ Pow(b + 1) \in Nat /\ Pow(m) \in Nat /\ Pow(m + 1) \in Nat
    BY <1>3, <2>1, Powers
  <2> QED BY <1>7, <2>1, <2>2, <2>3, <2>4 DEF m
<1> QED BY <1>6, <1>7

\* A class above eight words: the leading bit b of the words less one, and
\* the two bits below it; Unit is the width of the class in words.
Unit(x) == Pow(mi_bsr(x) - 2)
Top(x) == x \div Unit(x)

LEMMA ClassOf ==
  ASSUME NEW x \in Nat, x >= 8, x < Pow(WordBits)
  PROVE  /\ mi_bsr(x) \in 3..(WordBits - 1) /\ Unit(x) \in Nat \ {0}
         /\ 4 * Unit(x) <= x
         /\ Top(x) \in 4..7 /\ Top(x) % 4 = Top(x) - 4
         /\ Top(x) * Unit(x) \in Nat
         /\ Top(x) * Unit(x) <= x /\ x < Top(x) * Unit(x) + Unit(x)
<1> DEFINE b == mi_bsr(x)
           u == Unit(x)
           k == Top(x)
<1>1. b \in 0..(WordBits - 1) /\ Pow(b) <= x /\ x < Pow(b + 1) /\ WordBits \in Nat
  BY LeadingBit, Powers
<1>2. u = Pow(b - 2) /\ k = x \div u
  BY DEF Unit, Top
<1> HIDE DEF b, u, k
<1>3. b >= 3
  <2> SUFFICES ASSUME b \in 0..2 PROVE FALSE
    BY <1>1
  <2>1. CASE b = 0
    <3>1. Pow(0 + 1) = 2
      BY <1>1, <2>1, Powers
    <3> QED BY <1>1, <2>1, <3>1
  <2>2. CASE b = 1
    <3>1. Pow(0 + 1) = 2 /\ Pow(1 + 1) = 2 * Pow(1)
      BY <1>1, <2>2, Powers
    <3> QED BY <1>1, <2>2, <3>1
  <2>3. CASE b = 2
    <3>1. Pow(0 + 1) = 2 /\ Pow(1 + 1) = 2 * Pow(1) /\ Pow(2 + 1) = 2 * Pow(2)
      BY <1>1, <2>3, Powers
    <3> QED BY <1>1, <2>3, <3>1
  <2> QED BY <2>1, <2>2, <2>3
<1>4. u \in Nat /\ Pow(b) = 4 * u /\ Pow(b + 1) = 8 * u
  <2>1. b - 2 \in 0..(WordBits - 1) /\ b - 1 \in 0..(WordBits - 1)
        /\ (b - 2) + 1 = b - 1 /\ (b - 1) + 1 = b
    BY <1>1, <1>3
  <2>2. Pow(b - 2) \in Nat /\ Pow((b - 2) + 1) = 2 * Pow(b - 2)
        /\ Pow((b - 1) + 1) = 2 * Pow(b - 1) /\ Pow(b + 1) = 2 * Pow(b)
    BY <1>1, <2>1, Powers
  <2> QED BY <1>2, <2>1, <2>2
<1>5. u # 0
  BY <1>1, <1>4
<1>6. k \in Nat /\ k * u \in Nat /\ k * u <= x /\ x < k * u + u
  BY <1>2, <1>4, <1>5, Division
<1>7. k >= 4
  <2> SUFFICES ASSUME k \in 0..3 PROVE FALSE
    BY <1>6
  <2>1. k * u <= 3 * u
    BY <1>4
  <2> QED BY <1>1, <1>4, <1>6, <2>1
<1>8. k <= 7
  <2> SUFFICES ASSUME k >= 8 PROVE FALSE
    BY <1>6
  <2>1. k * u = 8 * u + (k - 8) * u /\ (k - 8) * u \in Nat
    BY <1>4, <1>6
  <2> QED BY <1>1, <1>4, <1>6, <2>1
<1>9. k % 4 = k - 4
  <2>1. k \in {4, 5, 6, 7}
    BY <1>6, <1>7, <1>8
  <2> QED BY <2>1
<1>10. 4 * u <= x
  BY <1>1, <1>4
<1> QED BY <1>1, <1>3, <1>4, <1>5, <1>6, <1>7, <1>8, <1>9, <1>10 DEF b, u, k

\* The largest class has fewer words than the word has values.
LEMMA WordsInRange ==
  /\ LargeMaxWSize \in Nat /\ LargeMaxWSize >= 8
  /\ LargeMaxWSize < Pow(WordBits) /\ LargeMaxWSize * IntptrSize <= LargeMaxObj
<1>1. /\ IntptrSize \in Nat \ {0, 1} /\ LargeMaxObj \in Nat /\ LargeMaxObj >= 8 * IntptrSize
      /\ HeaderSize \in Nat /\ MaxAlignSize \in Nat \ {0} /\ SliceSize \in Nat
      /\ PageBase \in Nat /\ Pow(WordBits) \in Nat
      /\ 6 * LargeMaxObj + (HeaderSize + 2 * MaxAlignSize) <= 64 * SliceSize
      /\ PageBase + 64 * SliceSize + MaxAlignSize <= Pow(WordBits)
  BY LayoutAssumption, RegionsAssumption, ClassesAssumption DEF Pow
<1>2. /\ LargeMaxWSize \in Nat /\ LargeMaxWSize * IntptrSize <= LargeMaxObj
      /\ LargeMaxObj < LargeMaxWSize * IntptrSize + IntptrSize
  BY <1>1, Division DEF LargeMaxWSize
<1>3. LargeMaxWSize <= 7 => LargeMaxWSize * IntptrSize <= 7 * IntptrSize
  BY <1>1, <1>2
<1>4. LargeMaxWSize <= LargeMaxWSize * IntptrSize /\ LargeMaxWSize * IntptrSize \in Nat
  BY <1>1, <1>2
<1> QED BY <1>1, <1>2, <1>3, <1>4

\* bin, by words.
LEMMA BinByWords ==
  ASSUME NEW q \in 1..LargeMaxWSize
  PROVE  /\ q <= 1 => bin(q * IntptrSize) = 1
         /\ 1 < q /\ q <= 8 => bin(q * IntptrSize) = ((q + 1) \div 2) * 2
         /\ q > 8 => /\ q - 1 \in Nat /\ q - 1 >= 8 /\ q - 1 < Pow(WordBits)
                     /\ bin(q * IntptrSize) = 4 * mi_bsr(q - 1) + Top(q - 1) - 7
<1>1. q \in Nat /\ LargeMaxWSize \in Nat /\ LargeMaxWSize < Pow(WordBits)
      /\ Pow(WordBits) \in Nat
  BY WordsInRange, Powers
<1>2. wsize_from_size(q * IntptrSize) = q
  BY <1>1, ExactWords
<1>3. q > 8 => q - 1 \in Nat /\ q - 1 >= 8 /\ q - 1 < Pow(WordBits)
  BY <1>1
<1>4. q <= 8 => bin(q * IntptrSize) = IF q <= 1 THEN 1 ELSE ((q + 1) \div 2) * 2
  BY <1>2 DEF bin
<1>5. ASSUME q > 8 PROVE bin(q * IntptrSize) = 4 * mi_bsr(q - 1) + Top(q - 1) - 7
  <2> DEFINE b == mi_bsr(q - 1)
             k == Top(q - 1)
  <2>1. ~(q <= 8) /\ ~(q > LargeMaxWSize)
    BY <1>1, <1>5
  <2>2. bin(q * IntptrSize) = 4 * b + (k % 4) - 3
    BY <1>2, <2>1 DEF bin, Top, Unit, Pow
  <2>3. b \in Int /\ k \in 4..7 /\ k % 4 = k - 4
    BY <1>3, <1>5, ClassOf
  <2> HIDE DEF b, k
  <2>4. 4 * b + (k - 4) - 3 = 4 * b + k - 7
    BY <2>3
  <2> QED BY <2>2, <2>3, <2>4 DEF b, k
<1> QED BY <1>1, <1>3, <1>4, <1>5

\* A word more is in the same class or in a higher one.
LEMMA BinIsMonotone ==
  ASSUME NEW q \in 1..LargeMaxWSize, q + 1 <= LargeMaxWSize
  PROVE  bin(q * IntptrSize) <= bin((q + 1) * IntptrSize)
<1>1. q \in Nat /\ q + 1 \in 1..LargeMaxWSize
  BY WordsInRange
<1>2. CASE q <= 7
  <2>1. q \in {1, 2, 3, 4, 5, 6, 7}
    BY <1>1, <1>2
  <2>2. bin(q * IntptrSize) = IF q <= 1 THEN 1 ELSE ((q + 1) \div 2) * 2
    BY <2>1, BinByWords
  <2>3. bin((q + 1) * IntptrSize) = ((q + 1 + 1) \div 2) * 2
    BY <1>1, <2>1, BinByWords
  <2> QED BY <2>1, <2>2, <2>3
<1>3. CASE q = 8
  <2>1. bin(8 * IntptrSize) = 8
    <3>1. bin(8 * IntptrSize) = ((8 + 1) \div 2) * 2
      BY <1>3, BinByWords
    <3> QED BY <3>1
  <2> DEFINE x == (q + 1) - 1
  <2>2. x \in Nat /\ x >= 8 /\ x < Pow(WordBits)
        /\ bin((q + 1) * IntptrSize) = 4 * mi_bsr(x) + Top(x) - 7
    BY <1>1, <1>3, BinByWords
  <2> HIDE DEF x
  <2>3. mi_bsr(x) \in Int /\ mi_bsr(x) >= 3 /\ Top(x) \in 4..7
    BY <2>2, ClassOf
  <2>4. 8 <= 4 * mi_bsr(x) + Top(x) - 7
    BY <2>3
  <2> QED BY <1>3, <2>1, <2>2, <2>4
<1>4. CASE q >= 9
  <2> DEFINE x == q - 1
             y == (q + 1) - 1
             b == mi_bsr(x)
             c == mi_bsr(y)
  <2>1. /\ x \in Nat /\ x >= 8 /\ x < Pow(WordBits)
        /\ bin(q * IntptrSize) = 4 * b + Top(x) - 7
    BY <1>1, <1>4, BinByWords
  <2>2. /\ y \in Nat /\ y >= 8 /\ y < Pow(WordBits)
        /\ bin((q + 1) * IntptrSize) = 4 * c + Top(y) - 7
    BY <1>1, <1>4, BinByWords
  <2>3. y = x + 1
    BY <1>1
  <2> HIDE DEF x, y
  <2>4. b \in 3..(WordBits - 1) /\ Top(x) \in 4..7 /\ Unit(x) \in Nat \ {0}
        /\ Top(x) * Unit(x) \in Nat /\ Top(x) * Unit(x) <= x
    BY <2>1, ClassOf
  <2>5. c \in 3..(WordBits - 1) /\ Top(y) \in 4..7 /\ y < Top(y) * Unit(y) + Unit(y)
    BY <2>2, ClassOf
  <2>6. Pow(b) <= x /\ x < Pow(b + 1) /\ Pow(c) <= y /\ y < Pow(c + 1)
    BY <2>1, <2>2, LeadingBit
  <2>7. WordBits \in Nat /\ Pow(b + 1) \in Nat /\ Pow(c + 1) \in Nat /\ Pow(b) \in Nat
    BY <2>4, <2>5, Powers
  <2>8. CASE y < Pow(b + 1)
    <3>1. b \in 0..(WordBits - 1) /\ Pow(b) <= y
      BY <2>1, <2>3, <2>4, <2>6, <2>7
    <3>2. b = c
      BY <2>2, <2>8, <3>1, LeadingBit
    <3>3. Unit(y) = Unit(x)
      BY <3>2 DEF Unit
    <3>4. Top(y) >= Top(x)
      <4> DEFINE u == Unit(x)
                 k == Top(x)
                 l == Top(y)
      <4>1. /\ u \in Nat \ {0} /\ k \in 4..7 /\ l \in 4..7 /\ k * u <= x
            /\ y < l * u + u
        BY <2>4, <2>5, <3>3
      <4> HIDE DEF u, k, l
      <4>2. l + 1 <= k => l * u + u <= k * u
        <5>1. l \in {4, 5, 6, 7} /\ k \in {4, 5, 6, 7}
          BY <4>1
        <5> QED BY <4>1, <5>1
      <4>3. k * u \in Nat /\ l * u \in Nat
        BY <4>1
      <4> QED BY <2>1, <2>3, <4>1, <4>2, <4>3 DEF u, k, l
    <3> HIDE DEF b, c
    <3> QED BY <2>1, <2>2, <2>4, <2>5, <3>2, <3>4
  <2>9. CASE y >= Pow(b + 1)
    <3> HIDE DEF b, c
    <3>1. c <= b => Pow(c + 1) <= Pow(b + 1)
      BY <2>4, <2>5, <2>7, PowersGrow
    <3>2. c > b
      BY <2>2, <2>4, <2>5, <2>6, <2>7, <2>9, <3>1
    <3>3. 4 * b + Top(x) - 7 <= 4 * c + Top(y) - 7
      BY <2>4, <2>5, <3>2
    <3> QED BY <2>1, <2>2, <3>3
  <2> QED BY <2>2, <2>7, <2>8, <2>9
<1> QED BY <1>1, <1>2, <1>3, <1>4

\* Two sizes of one class, in words: the small classes span two words, the
\* others at most a quarter of the smaller size.
LEMMA ClassWidth ==
  ASSUME NEW q \in 1..LargeMaxWSize, NEW v \in 1..LargeMaxWSize, q <= v,
         bin(q * IntptrSize) = bin(v * IntptrSize)
  PROVE  /\ q <= 8 => v <= q + 1 /\ (q = 1 => v = 1)
         /\ q > 8 => 4 * (v - q + 1) <= q - 1
<1>1. q \in Nat /\ v \in Nat
  BY WordsInRange
<1>2. ASSUME v > 8
      PROVE  /\ v - 1 \in Nat /\ v - 1 >= 8
             /\ mi_bsr(v - 1) \in Int /\ mi_bsr(v - 1) >= 3 /\ Top(v - 1) \in 4..7
             /\ bin(v * IntptrSize) = 4 * mi_bsr(v - 1) + Top(v - 1) - 7
             /\ v - 1 < Top(v - 1) * Unit(v - 1) + Unit(v - 1)
  <2>1. v - 1 \in Nat /\ v - 1 >= 8 /\ v - 1 < Pow(WordBits)
        /\ bin(v * IntptrSize) = 4 * mi_bsr(v - 1) + Top(v - 1) - 7
    BY <1>2, BinByWords
  <2> QED BY <2>1, ClassOf
<1>3. ASSUME q <= 8 PROVE v <= q + 1 /\ (q = 1 => v = 1)
  <2>1. q \in {1, 2, 3, 4, 5, 6, 7, 8}
    BY <1>1, <1>3
  <2>2. bin(q * IntptrSize) = IF q <= 1 THEN 1 ELSE ((q + 1) \div 2) * 2
    BY <2>1, BinByWords
  <2>3. v <= 8
    <3> SUFFICES ASSUME v > 8 PROVE FALSE
      BY <1>1
    <3>1. bin(v * IntptrSize) >= 9
      <4> DEFINE b == mi_bsr(v - 1)
                 k == Top(v - 1)
      <4>1. b \in Int /\ b >= 3 /\ k \in 4..7 /\ bin(v * IntptrSize) = 4 * b + k - 7
        BY <1>2
      <4> HIDE DEF b, k
      <4> QED BY <4>1
    <3> QED BY <2>1, <2>2, <3>1
  <2>4. v \in {1, 2, 3, 4, 5, 6, 7, 8}
    BY <1>1, <2>3
  <2>5. bin(v * IntptrSize) = IF v <= 1 THEN 1 ELSE ((v + 1) \div 2) * 2
    BY <2>4, BinByWords
  <2> QED BY <2>1, <2>2, <2>4, <2>5
<1>4. ASSUME q > 8 PROVE 4 * (v - q + 1) <= q - 1
  <2> DEFINE x == q - 1
             y == v - 1
             b == mi_bsr(x)
             c == mi_bsr(y)
             k == Top(x)
             l == Top(y)
             u == Unit(x)
  <2>1. x \in Nat /\ x >= 8 /\ x < Pow(WordBits) /\ bin(q * IntptrSize) = 4 * b + k - 7
    BY <1>4, BinByWords
  <2>2. /\ b \in Int /\ k \in 4..7 /\ u \in Nat \ {0} /\ 4 * u <= x /\ k * u \in Nat
        /\ k * u <= x
    BY <2>1, ClassOf
  <2>3. /\ y \in Nat /\ c \in Int /\ l \in 4..7
        /\ bin(v * IntptrSize) = 4 * c + l - 7 /\ y < l * Unit(y) + Unit(y)
    BY <1>1, <1>2, <1>4
  <2>4. b = c /\ k = l
    <3> HIDE DEF b, c, k, l
    <3>1. 4 * b + k - 7 = 4 * c + l - 7
      BY <2>1, <2>3
    <3> QED BY <2>2, <2>3, <3>1
  <2>5. Unit(y) = u
    BY <2>4 DEF Unit
  <2>6. y < k * u + u
    BY <2>3, <2>4, <2>5
  <2>7. x = q - 1 /\ y = v - 1
    OBVIOUS
  <2> HIDE DEF x, y, b, c, k, l, u
  <2>8. y - x < u
    BY <2>1, <2>2, <2>3, <2>6
  <2> QED BY <1>1, <2>1, <2>2, <2>3, <2>7, <2>8
<1> QED BY <1>3, <1>4

\* Multiples of the word keep the order of the words.
LEMMA WordsOrdered ==
  ASSUME NEW j \in Nat, NEW k \in Nat
  PROVE  /\ j <= k => j * IntptrSize <= k * IntptrSize
         /\ j < k => j * IntptrSize < k * IntptrSize
<1>1. IntptrSize \in Nat \ {0}
  BY LayoutAssumption
<1>2. ASSUME j <= k PROVE k * IntptrSize = j * IntptrSize + (k - j) * IntptrSize
  BY <1>1, <1>2
<1>3. j <= k => (k - j) * IntptrSize \in Nat
  BY <1>1
<1>4. j < k => (k - j) * IntptrSize > 0
  BY <1>1
<1>5. j * IntptrSize \in Nat /\ k * IntptrSize \in Nat
  BY <1>1
<1> QED BY <1>2, <1>3, <1>4, <1>5

\* An entry of the table is a size of its own class.
Members ==
  \A b \in Bins : table[b] = 0 \/ \E v \in 1..LargeMaxWSize :
    table[b] = v * IntptrSize /\ bin(v * IntptrSize) = b

\* The inductive invariant of the loop.
Unopened == w = 1 => \A b \in Bins : table[b] = 0
ClassInv == TableInv /\ Unopened /\ Members /\ GeometryTypeOK /\ ClassesAreOrdered

\* One round of the loop: the size is the largest so far, and its class is
\* the highest that has been opened.
LEMMA ClassStep ==
  ASSUME ClassInv, Build
  PROVE  ClassInv'
<1> DEFINE sz == w * IntptrSize
           b0 == bin(sz)
<1>1. /\ LargeMaxWSize \in Nat /\ LargeMaxWSize * IntptrSize <= LargeMaxObj
      /\ LargeMaxObj \in Nat /\ IntptrSize \in Nat \ {0} /\ BinHuge \in Nat
  BY WordsInRange, LayoutAssumption
<1>2. w \in 1..LargeMaxWSize /\ w' = w + 1 /\ ans' = ans
  BY <1>1 DEF Build, ClassInv, GeometryTypeOK
<1>3. table' = IF b0 < BinHuge /\ sz > table[b0] THEN [table EXCEPT ![b0] = sz] ELSE table
  BY DEF Build
<1>4. b0 \in 1..(BinHuge - 1) /\ b0 \in Bins /\ b0 < BinHuge
  BY <1>1, <1>2, BinsAssumption DEF Bins
<1>5. sz \in Nat \ {0} /\ sz <= LargeMaxObj
  <2>1. w \in Nat /\ w <= LargeMaxWSize /\ 0 < w
    BY <1>1, <1>2
  <2>2. sz <= LargeMaxWSize * IntptrSize /\ 0 * IntptrSize < sz
    BY <1>1, <2>1, WordsOrdered
  <2>3. sz \in Nat /\ LargeMaxWSize * IntptrSize \in Nat
    BY <1>1, <2>1
  <2> QED BY <1>1, <2>2, <2>3
<1>6. table \in [Bins -> 0..LargeMaxObj]
  BY DEF ClassInv, GeometryTypeOK
<1>7. /\ sz > table[b0]
      /\ \A b \in Bins : b > b0 => table[b] = 0
      /\ \A b \in Bins : b < b0 => table[b] < sz
  <2>1. CASE w = 1
    <3>1. \A b \in Bins : table[b] = 0
      BY <2>1 DEF ClassInv, Unopened
    <3> QED BY <1>4, <1>5, <3>1
  <2>2. CASE w > 1
    <3> DEFINE old == (w - 1) * IntptrSize
               last == bin(old)
    <3>1. /\ table[last] = old
          /\ \A b \in Bins : b > last => table[b] = 0
          /\ \A b \in Bins : b < last => table[b] < old
      BY <2>2 DEF ClassInv, ClassesAreOrdered
    <3>2. w - 1 \in 1..LargeMaxWSize /\ (w - 1) + 1 = w /\ w - 1 \in Nat /\ w \in Nat
      BY <1>1, <1>2, <2>2
    <3>3. last <= b0
      BY <1>2, <3>2, BinIsMonotone
    <3>4. last \in 1..(BinHuge - 1) /\ last \in Bins
      <4> DEFINE v == w - 1
      <4>1. v \in 1..LargeMaxWSize /\ last = bin(v * IntptrSize)
        BY <3>2
      <4> HIDE DEF v, last
      <4>2. last \in 1..(BinHuge - 1)
        BY <4>1, BinsAssumption
      <4> QED BY <1>1, <4>2 DEF Bins
    <3>5. old < sz /\ old \in Nat
      BY <1>1, <3>2, WordsOrdered
    <3> HIDE DEF old, last, sz, b0
    <3>6. \A b \in Bins : b \in Int /\ table[b] \in Int
      BY <1>1, <1>6 DEF Bins
    <3> QED BY <1>4, <1>5, <3>1, <3>3, <3>4, <3>5, <3>6
  <2> QED BY <1>2, <2>1, <2>2
<1>8. table' = [table EXCEPT ![b0] = sz]
  BY <1>3, <1>4, <1>7
<1>9. \A b \in Bins : table'[b] = IF b = b0 THEN sz ELSE table[b]
  BY <1>6, <1>8
<1>10. GeometryTypeOK'
  <2> HIDE DEF sz, b0
  <2>0. sz \in 0..LargeMaxObj
    BY <1>1, <1>5
  <2>1. table' \in [Bins -> 0..LargeMaxObj]
    BY <1>6, <1>8, <2>0
  <2>2. w' \in 1..(LargeMaxWSize + 1)
    BY <1>1, <1>2
  <2> QED BY <1>2, <2>1, <2>2 DEF ClassInv, GeometryTypeOK
<1>11. Members'
  <2> SUFFICES ASSUME NEW b \in Bins
               PROVE  table'[b] = 0 \/ \E v \in 1..LargeMaxWSize :
                        table'[b] = v * IntptrSize /\ bin(v * IntptrSize) = b
    BY DEF Members
  <2> QED BY <1>2, <1>9 DEF ClassInv, Members
<1>12. ClassesAreOrdered'
  <2>1. w' - 1 = w
    BY <1>2
  <2>2. /\ table'[b0] = sz
        /\ \A b \in Bins : b > b0 => table'[b] = 0
        /\ \A b \in Bins : b < b0 => table'[b] < sz
    BY <1>1, <1>4, <1>7, <1>9 DEF Bins
  <2> QED BY <2>1, <2>2 DEF ClassesAreOrdered
<1>13. Unopened'
  BY <1>2 DEF Unopened
<1> QED BY <1>10, <1>11, <1>12, <1>13, TableGrows DEF ClassInv

\* The block of a class is not much larger than the request, and its page
\* holds six of them.
LEMMA ClassIsTight ==
  ASSUME ClassInv, w > LargeMaxWSize, NEW total \in Nat, NEW size, size = AtLeast(total),
         bin(size) < BinHuge, NEW pg, pg = ClassPage(total)
  PROVE  /\ 4 * (pg.bs - size) <= size \/ pg.bs - size < MaxAlignSize
         /\ pg.reserved >= 6
<1> DEFINE q == wsize_from_size(size)
           bs == table[bin(size)]
<1>1. /\ IntptrSize \in Nat \ {0} /\ MaxAlignSize \in Nat /\ MaxAlignSize >= 2 * IntptrSize
      /\ LargeMaxWSize \in Nat /\ LargeMaxWSize >= 8 /\ LargeMaxObj \in Nat
  BY LayoutAssumption, ClassesAssumption, WordsInRange
<1>2. size \in Nat /\ size >= IntptrSize
  BY <1>1 DEF AtLeast
<1>3. /\ q \in Nat /\ q > 0 /\ size <= q * IntptrSize /\ q * IntptrSize < size + IntptrSize
      /\ wsize_from_size(q * IntptrSize) = q
  BY <1>1, <1>2, Words
<1>4. bin(size) \in Bins /\ bs \in Nat /\ bs >= size
  BY <1>1, <1>2, ClassHolds DEF ClassInv
<1>5. bin(size) = bin(q * IntptrSize)
  BY <1>3 DEF bin
<1>6. q <= LargeMaxWSize
  <2> SUFFICES ASSUME q > LargeMaxWSize PROVE FALSE
    BY <1>1, <1>3
  <2>1. ~(q <= 8) /\ q > LargeMaxWSize
    BY <1>1, <1>3
  <2>2. bin(size) = BinHuge
    BY <2>1 DEF bin
  <2>3. BinHuge \in Nat
    BY LayoutAssumption
  <2> QED BY <2>2, <2>3
<1>7. PICK v \in 1..LargeMaxWSize : bs = v * IntptrSize /\ bin(v * IntptrSize) = bin(size)
  BY <1>1, <1>2, <1>4 DEF ClassInv, Members
<1>8. pg.bs = bs /\ pg.reserved = (page_slices_for(bs) * SliceSize - StartOffset) \div bs
  BY DEF ClassPage
<1>9. bs <= LargeMaxObj
  BY <1>1, <1>4 DEF ClassInv, GeometryTypeOK
<1> HIDE DEF q, bs
<1>10. v \in Nat /\ q \in 1..LargeMaxWSize /\ q <= v
  <2>1. v \in Nat /\ q \in 1..LargeMaxWSize
    BY <1>1, <1>3, <1>6
  <2>2. v < q => v * IntptrSize + IntptrSize <= q * IntptrSize
    <3> SUFFICES ASSUME v < q PROVE v * IntptrSize + IntptrSize <= q * IntptrSize
      OBVIOUS
    <3>1. (v + 1) * IntptrSize <= q * IntptrSize
      BY <1>3, <2>1, WordsOrdered
    <3>2. (v + 1) * IntptrSize = v * IntptrSize + IntptrSize
      BY <1>1, <2>1
    <3> QED BY <3>1, <3>2
  <2>3. q * IntptrSize \in Nat
    BY <1>1, <1>3
  <2> QED BY <1>1, <1>2, <1>3, <1>4, <1>7, <2>1, <2>2, <2>3
<1>11. /\ q <= 8 => v <= q + 1 /\ (q = 1 => v = 1)
       /\ q > 8 => 4 * (v - q + 1) <= q - 1
  BY <1>5, <1>7, <1>10, ClassWidth
<1>12. 4 * (bs - size) <= size \/ bs - size < MaxAlignSize
  <2>1. (q - 1) * IntptrSize = q * IntptrSize - IntptrSize /\ (q - 1) * IntptrSize \in Nat
    BY <1>1, <1>3
  <2>2. CASE q > 8
    <3>1. v - q + 1 \in Nat /\ q - 1 \in Nat /\ 4 * (v - q + 1) \in Nat
      BY <1>10
    <3>2. (4 * (v - q + 1)) * IntptrSize <= (q - 1) * IntptrSize
      BY <1>11, <2>2, <3>1, WordsOrdered
    <3>3. (4 * (v - q + 1)) * IntptrSize = 4 * (v * IntptrSize - (q - 1) * IntptrSize)
      BY <1>1, <1>10
    <3>4. v * IntptrSize \in Nat /\ q * IntptrSize \in Nat
      BY <1>1, <1>10
    <3> QED BY <1>1, <1>2, <1>3, <1>7, <2>1, <3>2, <3>3, <3>4
  <2>3. CASE q = 1
    <3>1. bs = IntptrSize
      BY <1>1, <1>7, <1>11, <2>3
    <3> QED BY <1>1, <1>2, <3>1
  <2>4. CASE 1 < q /\ q <= 8
    <3>1. v * IntptrSize <= (q + 1) * IntptrSize
      BY <1>10, <1>11, <2>4, WordsOrdered
    <3>2. (q + 1) * IntptrSize = q * IntptrSize + IntptrSize /\ q * IntptrSize \in Nat
          /\ v * IntptrSize \in Nat
      BY <1>1, <1>10
    <3> QED BY <1>1, <1>2, <1>3, <1>7, <3>1, <3>2
  <2> QED BY <1>3, <2>2, <2>3, <2>4
<1>13. pg.reserved >= 6
  <2> DEFINE n == page_slices_for(bs)
             room == n * SliceSize - StartOffset
             res == room \div bs
  <2>1. /\ SmallMaxObj \in Nat /\ MediumMaxObj \in Nat /\ SliceSize \in Nat
        /\ HeaderSize \in Nat
        /\ 6 * SmallMaxObj + (HeaderSize + 2 * MaxAlignSize) <= SliceSize
        /\ 6 * MediumMaxObj + (HeaderSize + 2 * MaxAlignSize) <= 8 * SliceSize
        /\ 6 * LargeMaxObj + (HeaderSize + 2 * MaxAlignSize) <= 64 * SliceSize
    BY LayoutAssumption, ClassesAssumption
  <2>2. StartOffset \in Nat /\ StartOffset <= HeaderSize + 2 * MaxAlignSize
    BY StartOffsetFits
  <2>3. n \in Nat /\ 6 * bs + (HeaderSize + 2 * MaxAlignSize) <= n * SliceSize
    BY <1>1, <1>4, <1>9, <2>1 DEF page_slices_for
  <2> HIDE DEF n
  <2>4. room \in Nat /\ 6 * bs <= room /\ bs \in Nat \ {0}
    BY <1>1, <1>2, <1>4, <2>1, <2>2, <2>3
  <2> HIDE DEF room
  <2>5. res \in Nat /\ res * bs \in Nat /\ room < res * bs + bs
    BY <2>4, Division
  <2> HIDE DEF res
  <2>6. res <= 5 => res * bs <= 5 * bs
    <3>1. res <= 5 => res \in {0, 1, 2, 3, 4, 5}
      BY <2>5
    <3> QED BY <2>4, <3>1
  <2>7. res >= 6
    BY <2>4, <2>5, <2>6
  <2> QED BY <1>8, <2>7 DEF res, room, n
<1> QED BY <1>8, <1>12, <1>13

\* bin and BIN_SIZES fit each other: each round of the loop meets the largest
\* size so far of the highest class so far, and the block of a class wastes
\* at most a quarter of the request, or less than MI_MAX_ALIGN_SIZE.
THEOREM ClassesStaySound == GeometrySpec => []ClassesAreSound
<1>1. GeometryInit => ClassInv /\ WasteIsBounded
  <2> SUFFICES ASSUME GeometryInit PROVE ClassInv /\ WasteIsBounded
    OBVIOUS
  <2>1. LargeMaxWSize \in Nat /\ LargeMaxObj \in Nat /\ 0 = 0 * IntptrSize
    BY WordsInRange, LayoutAssumption
  <2>2. TableInv
    BY <2>1 DEF GeometryInit, TableInv, WholeWords
  <2>3. GeometryTypeOK /\ Members /\ Unopened /\ ClassesAreOrdered
    BY <2>1 DEF GeometryInit, NoAnswer, GeometryTypeOK, Members, Unopened, ClassesAreOrdered
  <2>4. WasteIsBounded
    BY DEF GeometryInit, NoAnswer, WasteIsBounded
  <2> QED BY <2>2, <2>3, <2>4 DEF ClassInv
<1>2. ClassInv /\ WasteIsBounded /\ [GeometryNext]_geometryVars
        => (ClassInv /\ WasteIsBounded)'
  <2> SUFFICES ASSUME ClassInv, WasteIsBounded, [GeometryNext]_geometryVars
               PROVE  ClassInv' /\ WasteIsBounded'
    OBVIOUS
  <2>1. ASSUME UNCHANGED <<w, table>>,
               ans'.kind \in {"none", "block", "refused", "region", "purge"}
        PROVE  ClassInv'
    BY <2>1 DEF ClassInv, TableInv, Members, Unopened, GeometryTypeOK, ClassesAreOrdered
  <2>2. ASSUME ans'.kind # "block" PROVE WasteIsBounded'
    BY <2>2 DEF WasteIsBounded
  <2>3. CASE Build
    <3>1. WasteIsBounded'
      BY <2>3 DEF Build, WasteIsBounded
    <3> QED BY <2>3, <3>1, ClassStep
  <2>4. CASE Answered
    BY <2>1, <2>2, <2>4 DEF Answered, NoAnswer
  <2>5. ASSUME Built, NEW size \in Sizes, NEW align \in Aligns, NEW i \in Indices,
               AllocAligned(size, align, i)
        PROVE  ClassInv' /\ WasteIsBounded'
    <3> DEFINE total == Total(size, align)
    <3>1. /\ ans'.kind = "block" /\ ans'.size = size /\ ans'.align = align
          /\ ans'.page = PageFor(total) /\ UNCHANGED <<w, table>> /\ size >= 0
      BY <2>5 DEF AllocAligned
    <3>2. size \in Nat
      BY <3>1, SizesAreIntegers DEF ClassInv
    <3>3. total \in Nat
      BY <3>2, LayoutAssumption, RegionsAssumption DEF Total
    <3>4. ASSUME bin(AtLeast(total)) < BinHuge
          PROVE  /\ \/ 4 * (PageFor(total).bs - AtLeast(total)) <= AtLeast(total)
                    \/ PageFor(total).bs - AtLeast(total) < MaxAlignSize
                 /\ PageFor(total).reserved >= 6
      <4>1. AtLeast(total) \in Nat /\ AtLeast(total) > 0 /\ BinHuge \in Nat
        BY <3>3, LayoutAssumption DEF AtLeast
      <4>2. bin(AtLeast(total)) \in Int
        BY <2>5, <4>1, ClassHolds DEF ClassInv, Built, Bins
      <4>3. PageFor(total) = ClassPage(total)
        BY <3>4, <4>1, <4>2 DEF PageFor
      <4> QED BY <2>5, <3>3, <3>4, <4>3, ClassIsTight DEF Built
    <3> HIDE DEF total
    <3>5. WasteIsBounded'
      BY <3>1, <3>4 DEF WasteIsBounded, total
    <3> QED BY <2>1, <3>1, <3>5
  <2>6. ASSUME NEW size, NEW align, AllocRefused(size, align)
        PROVE  ClassInv' /\ WasteIsBounded'
    BY <2>1, <2>2, <2>6 DEF AllocRefused
  <2>7. ASSUME NEW size, NEW base, NEW al,
               OsDirect(size, al, base) \/ OsTrim(size, al, base)
        PROVE  ClassInv' /\ WasteIsBounded'
    BY <2>1, <2>2, <2>7 DEF OsDirect, OsTrim
  <2>8. ASSUME NEW size, NEW addr, OsTouch(addr, size)
        PROVE  ClassInv' /\ WasteIsBounded'
    BY <2>1, <2>2, <2>8 DEF OsTouch
  <2>9. CASE UNCHANGED geometryVars
    BY <2>9 DEF geometryVars, ClassInv, TableInv, Members, Unopened, GeometryTypeOK,
                ClassesAreOrdered, WasteIsBounded
  <2> QED BY <2>3, <2>4, <2>5, <2>6, <2>7, <2>8, <2>9 DEF GeometryNext
<1>3. ClassInv /\ WasteIsBounded => ClassesAreSound
  BY DEF ClassInv, ClassesAreSound
<1> QED BY <1>1, <1>2, <1>3, PTL DEF GeometrySpec

=============================================================================
