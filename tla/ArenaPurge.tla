----------------------------- MODULE ArenaPurge -----------------------------
(***************************************************************************)
(* The slices of one arena (src/src/arena.rs) under concurrent allocation, *)
(* release and purge.  The four bitmaps are sets of slices; what the OS    *)
(* does with the memory is kept beside them: which slices are accessible   *)
(* and which read as zero.                                                 *)
(*                                                                         *)
(* A bitmap operation on a run within a 64-bit field is one atomic step,   *)
(* and so is one here; a run never crosses a field.  clear_n is all or     *)
(* nothing: it clears the run only if every bit of it is set.              *)
(*                                                                         *)
(* Two history variables, which no guard reads, record the runs on which a *)
(* purge finds clear_n refuse: a partly committed run, whose commit bits   *)
(* stay set, and a run another purge unmarked in part, whose other bits    *)
(* stay scheduled.                                                         *)
(***************************************************************************)
EXTENDS Integers, FiniteSets

CONSTANTS
  Threads,
  NSlices,          \* slices of the arena
  Configs,          \* the options and builds considered (Config)
  MaxAllocs         \* bound: allocations

Slices == 0..(NSlices - 1)

\* What the options, the build and the OS decide once and for all.
Config ==
  [field : 1..NSlices,        \* bits of a bitmap field (64 in the code)
   eager : BOOLEAN,           \* the arena is committed at creation
   immediate : BOOLEAN,       \* purge_delay is 0: a release purges at once
   decommits : BOOLEAN,       \* purge by decommit, else by reset
   strips : BOOLEAN,          \* decommit takes access away (debug, secure)
   commitFails : BOOLEAN,     \* the OS may refuse to commit
   decommitFails : BOOLEAN]   \* the OS may refuse to decommit

ASSUME ArenaAssumption ==
  /\ NSlices \in Nat \ {0} /\ MaxAllocs \in Nat
  /\ Configs \subseteq Config

VARIABLES
  conf,        \* the configuration, chosen once
  free,        \* free bitmap: set = free
  commit,      \* commit bitmap: set = committed
  purge,       \* purge bitmap: set = scheduled for purge
  dirty,       \* dirty bitmap: set = handed out since it was last zero
  armed,       \* purge_expire # 0
  accessible,  \* slices the program may touch (OS)
  zeroed,      \* slices that read as zero (OS)
  pc,
  run,         \* the run an operation of the thread is about
  scan,        \* run_purge's idx
  held,        \* runs handed out by alloc_slices and not given back
  claims,      \* slices handed out as OS-zeroed and not written since
  allocs,      \* allocations so far
  stale,       \* history: committed slices that lost access in the decommit of a
               \* partly committed run, and were not committed again since
  left         \* history: scheduled slices a purge passed without clearing their
               \* bits, and that were not scheduled again since

bitmaps == <<free, commit, purge, dirty, armed>>
os == <<accessible, zeroed>>
program == <<held, claims, allocs>>
history == <<stale, left>>
vars == <<conf, bitmaps, os, pc, run, scan, program, history>>

FieldOf(s) == s \div conf.field
Run(i, j) == i..j
\* Runs the bitmaps claim in one step.
Runs == {Run(i, j) : i \in Slices, j \in Slices} \ {{}}
FieldRuns == {R \in Runs : \A s, u \in R : FieldOf(s) = FieldOf(u)}

Pcs == {"idle", "commit", "finish", "commitFailed", "schedule", "arm",
        "scan", "claimFree", "purge", "clearBits", "setFree", "unmark"}
\* The thread holds its run: it took the bits out of the free bitmap.
Holding == {"commit", "finish", "commitFailed", "purge", "clearBits", "setFree"}

TypeOK ==
  /\ conf \in Configs
  /\ free \subseteq Slices /\ commit \subseteq Slices
  /\ purge \subseteq Slices /\ dirty \subseteq Slices
  /\ accessible \subseteq Slices /\ zeroed \subseteq Slices
  /\ armed \in BOOLEAN
  /\ pc \in [Threads -> Pcs]
  /\ run \in [Threads -> FieldRuns \cup {{}}]
  /\ scan \in [Threads -> 0..NSlices]
  /\ held \subseteq FieldRuns
  /\ claims \subseteq UNION held
  /\ allocs \in 0..MaxAllocs
  /\ stale \subseteq Slices /\ left \subseteq Slices

\* Arena::create: all free; the OS hands out zeroed memory.
Init ==
  /\ conf \in Configs
  /\ free = Slices
  /\ commit = (IF conf.eager THEN Slices ELSE {}) /\ accessible = commit
  /\ purge = {} /\ dirty = {} /\ armed = FALSE
  /\ zeroed = Slices
  /\ pc = [t \in Threads |-> "idle"]
  /\ run = [t \in Threads |-> {}] /\ scan = [t \in Threads |-> 0]
  /\ held = {} /\ claims = {} /\ allocs = 0
  /\ stale = {} /\ left = {}

Goto(t, where) == pc' = [pc EXCEPT ![t] = where]
SetRun(t, R) == run' = [run EXCEPT ![t] = R]

\* Bitmap::clear_n on a run: all or nothing.
Cleared(bits, R) == IF R \subseteq bits THEN bits \ R ELSE bits

-----------------------------------------------------------------------------
(***************************************************************************)
(* Arena::alloc_slices: take a run out of the free bitmap (which one       *)
(* depends on tseq), make sure it is committed, look at the dirty bits.    *)
(***************************************************************************)
\* mutant: the commit bits are not looked at
AllocClaim_Uncommitted(t, R) ==
  /\ pc[t] = "idle" /\ allocs < MaxAllocs
  /\ R \subseteq free
  /\ free' = free \ R
  /\ allocs' = allocs + 1
  /\ SetRun(t, R)
  /\ Goto(t, "finish")
  /\ UNCHANGED <<conf, commit, purge, dirty, armed, os, scan, held, claims, history>>

AllocClaim(t, R) ==
  /\ pc[t] = "idle" /\ allocs < MaxAllocs
  /\ R \subseteq free
  /\ free' = free \ R
  /\ allocs' = allocs + 1
  /\ SetRun(t, R)
  /\ Goto(t, IF R \subseteq commit THEN "finish" ELSE "commit")
  /\ UNCHANGED <<conf, commit, purge, dirty, armed, os, scan, held, claims, history>>

\* ensure_committed: os::commit, then the bits; or the OS refuses.
Commit(t) ==
  /\ pc[t] = "commit"
  /\ accessible' = accessible \cup run[t]
  /\ commit' = commit \cup run[t]
  /\ stale' = stale \ run[t]
  /\ Goto(t, "finish")
  /\ UNCHANGED <<conf, free, purge, dirty, armed, zeroed, run, scan, program, left>>

CommitFails(t) ==
  /\ pc[t] = "commit" /\ conf.commitFails
  /\ Goto(t, "commitFailed")
  /\ UNCHANGED <<conf, bitmaps, os, run, scan, program, history>>

\* mutant: the run is handed out without being marked
AllocFinish_StaysClean(t) ==
  /\ pc[t] = "finish"
  /\ claims' = IF dirty \cap run[t] = {} THEN claims \cup run[t] ELSE claims
  /\ held' = held \cup {run[t]}
  /\ SetRun(t, {})
  /\ Goto(t, "idle")
  /\ UNCHANGED <<conf, bitmaps, os, scan, allocs, history>>

\* The run is handed out, as zeroed if it was clean.
AllocFinish(t) ==
  /\ pc[t] = "finish"
  /\ dirty' = dirty \cup run[t]
  /\ claims' = IF dirty \cap run[t] = {} THEN claims \cup run[t] ELSE claims
  /\ held' = held \cup {run[t]}
  /\ SetRun(t, {})
  /\ Goto(t, "idle")
  /\ UNCHANGED <<conf, free, commit, purge, armed, os, scan, allocs, history>>

\* The program writes to memory it was given.
Write(R) ==
  /\ R \subseteq accessible
  /\ zeroed' = zeroed \ R
  /\ claims' = claims \ R
  /\ R \cap zeroed # {}
  /\ UNCHANGED <<conf, bitmaps, accessible, pc, run, scan, held, allocs, history>>

-----------------------------------------------------------------------------
(***************************************************************************)
(* Arena::free_slices: the free bits first, then schedule_purge.           *)
(***************************************************************************)
Free(t, R) ==
  /\ pc[t] = "idle"
  /\ held' = held \ {R} /\ claims' = claims \ R
  /\ free' = free \cup R
  /\ SetRun(t, R)
  /\ Goto(t, "schedule")
  /\ UNCHANGED <<conf, commit, purge, dirty, armed, os, scan, allocs, history>>

\* alloc_slices gives the run back when it cannot be committed.
FreeUncommitted(t) ==
  /\ pc[t] = "commitFailed"
  /\ free' = free \cup run[t]
  /\ Goto(t, "schedule")
  /\ UNCHANGED <<conf, commit, purge, dirty, armed, os, run, scan, program, history>>

\* mutant: the timer is not set
Schedule_Unarmed(t) ==
  /\ pc[t] = "schedule"
  /\ purge' = purge \cup run[t]
  /\ left' = left \ run[t]
  /\ SetRun(t, {})
  /\ Goto(t, "idle")
  /\ UNCHANGED <<conf, free, commit, dirty, armed, os, scan, program, stale>>

Schedule(t) ==
  /\ pc[t] = "schedule"
  /\ purge' = purge \cup run[t]
  /\ left' = left \ run[t]
  /\ SetRun(t, {})
  /\ scan' = [scan EXCEPT ![t] = 0]
  /\ Goto(t, IF conf.immediate THEN "scan" ELSE "arm")
  /\ UNCHANGED <<conf, free, commit, dirty, armed, os, program, stale>>

\* CAS purge_expire from 0 to the deadline.
Arm(t) ==
  /\ pc[t] = "arm"
  /\ armed' = TRUE
  /\ Goto(t, "idle")
  /\ UNCHANGED <<conf, free, commit, purge, dirty, os, run, scan, program, history>>

-----------------------------------------------------------------------------
(***************************************************************************)
(* maybe_purge, then run_purge: walk the purge bitmap.                     *)
(***************************************************************************)
\* The deadline has passed and this thread resets it; or a forced purge.
StartPurge(t) ==
  /\ pc[t] = "idle"
  /\ purge # {} \/ armed
  /\ armed' = FALSE
  /\ scan' = [scan EXCEPT ![t] = 0]
  /\ Goto(t, "scan")
  /\ UNCHANGED <<conf, free, commit, purge, dirty, os, run, program, history>>

\* The longest run of scheduled slices from i on, within i's field.
ScheduledRun(i) ==
  LET ends == {j \in Slices : j >= i /\ Run(i, j) \in FieldRuns
                                     /\ Run(i, j) \subseteq purge}
  IN Run(i, CHOOSE j \in ends : \A k \in ends : k <= j)

\* Skip the slices that are not scheduled.
ScanOn(t) ==
  /\ pc[t] = "scan"
  /\ scan[t] \notin purge
  /\ IF scan[t] = NSlices
     THEN Goto(t, "idle") /\ UNCHANGED scan
     ELSE scan' = [scan EXCEPT ![t] = @ + 1] /\ UNCHANGED pc
  /\ UNCHANGED <<conf, bitmaps, os, run, program, history>>

ScanRun(t) ==
  /\ pc[t] = "scan"
  /\ scan[t] \in purge
  /\ SetRun(t, ScheduledRun(scan[t]))
  /\ Goto(t, "claimFree")
  /\ UNCHANGED <<conf, bitmaps, os, scan, program, history>>

\* mutant: a run that is in use is purged too
ClaimFree_Unchecked(t) ==
  /\ pc[t] = "claimFree"
  /\ free' = free \ run[t]
  /\ Goto(t, "purge")
  /\ UNCHANGED <<conf, commit, purge, dirty, armed, os, run, scan, program, history>>

\* Claim the run from the free bitmap, or leave it: it is in use again.
ClaimFree(t) ==
  /\ pc[t] = "claimFree"
  /\ free' = Cleared(free, run[t])
  /\ Goto(t, IF run[t] \subseteq free THEN "purge" ELSE "unmark")
  /\ UNCHANGED <<conf, commit, purge, dirty, armed, os, run, scan, program, history>>

\* os::purge_ex.  A decommit whose madvise fails is not noticed; after a
\* reset, allowed on committed runs only, the contents are indeterminate.
OsPurge(t) ==
  /\ pc[t] = "purge"
  /\ \/ /\ conf.decommits
        /\ accessible' = IF conf.strips THEN accessible \ run[t] ELSE accessible
        /\ zeroed' = zeroed \cup run[t]
        /\ stale' = IF conf.strips /\ ~(run[t] \subseteq commit)
                    THEN stale \cup (run[t] \cap commit) ELSE stale
        /\ Goto(t, "clearBits")
     \/ /\ conf.decommits /\ conf.decommitFails
        /\ Goto(t, "clearBits")
        /\ UNCHANGED <<os, stale>>
     \/ /\ ~conf.decommits
        /\ Goto(t, "setFree")
        /\ zeroed' \in IF run[t] \subseteq commit
                       THEN {zeroed, zeroed \cup run[t]} ELSE {zeroed}
        /\ UNCHANGED <<accessible, stale>>
  /\ UNCHANGED <<conf, bitmaps, run, scan, program, left>>

\* Decommitted: not committed and clean again (two clear_n).
ClearBits(t) ==
  /\ pc[t] = "clearBits"
  /\ commit' = Cleared(commit, run[t])
  /\ dirty' = Cleared(dirty, run[t])
  /\ Goto(t, "setFree")
  /\ UNCHANGED <<conf, free, purge, armed, os, run, scan, program, history>>

SetFree(t) ==
  /\ pc[t] = "setFree"
  /\ free' = free \cup run[t]
  /\ Goto(t, "unmark")
  /\ UNCHANGED <<conf, commit, purge, dirty, armed, os, run, scan, program, history>>

\* The run is no longer scheduled, purged or not.
Unmark(t) ==
  /\ pc[t] = "unmark"
  /\ purge' = Cleared(purge, run[t])
  /\ scan' = [scan EXCEPT ![t] = @ + Cardinality(run[t])]
  /\ left' = IF run[t] \subseteq purge THEN left \ run[t]
             ELSE left \cup (run[t] \cap purge)
  /\ SetRun(t, {})
  /\ Goto(t, "scan")
  /\ UNCHANGED <<conf, free, commit, dirty, armed, os, program, stale>>

Next ==
  \/ \E t \in Threads :
       \/ \E R \in FieldRuns : AllocClaim(t, R)
       \/ \E R \in held : Free(t, R)
       \/ Commit(t) \/ CommitFails(t) \/ AllocFinish(t)
       \/ FreeUncommitted(t) \/ Schedule(t) \/ Arm(t)
       \/ StartPurge(t) \/ ScanOn(t) \/ ScanRun(t) \/ ClaimFree(t)
       \/ OsPurge(t) \/ ClearBits(t) \/ SetFree(t) \/ Unmark(t)
  \/ \E R \in held : Write(R)

Spec == Init /\ [][Next]_vars

-----------------------------------------------------------------------------
Taken(t) == IF pc[t] \in Holding THEN run[t] ELSE {}
AllIdle == \A t \in Threads : pc[t] = "idle"

\* No slice is lost or given out twice: each is free, or part of one run that
\* is handed out, or taken by one thread that allocates or purges it.
EachSliceInOnePlace ==
  /\ Slices = free \cup (UNION held) \cup UNION {Taken(t) : t \in Threads}
  /\ \A R \in held : R \cap free = {}
  /\ \A R, Q \in held : R = Q \/ R \cap Q = {}
  /\ \A t \in Threads : Taken(t) \cap (free \cup UNION held) = {}
  /\ \A t, u \in Threads : t = u \/ Taken(t) \cap Taken(u) = {}

\* "The commit bitmap is authoritative, so a purge that decommits clears the
\* bits and reuse re-commits": memory that is handed out can be touched, but for
\* the slices of a partly committed run that was decommitted.  clear_n refuses
\* such a run, its commit bits stay set, and those slices are handed out without
\* access where decommit takes it away.  The equation says that exactly these
\* are, whatever else allocations, releases and purges do.
HandedOutIsAccessible == (UNION held) \ accessible = (UNION held) \cap stale

\* Slices handed out as "guaranteed OS-zeroed" read as zero until written,
\* where the OS does what a decommit asks of it.
ZeroClaimsAreTrue == ~conf.decommitFails => claims \subseteq zeroed

\* "nothing is dropped": at rest the timer is armed while slices are scheduled,
\* or every one of them was left behind.  A slice is left behind only where a
\* purge could not unmark its run in one piece, because another purge had
\* unmarked a part of it; it then waits for the next release or a forced purge.
ScheduledIsArmed == AllIdle /\ ~(purge \subseteq left) => armed

\* However allocations, releases, failed commits and purges interleave, the
\* bitmaps account for every slice.
SlicesAreSound == TypeOK /\ EachSliceInOnePlace

=============================================================================
