--------------------------- MODULE PageOwnership ---------------------------
(***************************************************************************)
(* One life of one page of mimalloc-rs, from Page::init to                 *)
(* release_page_slices, shared by any number of threads                    *)
(* (src/src/page.rs, src/src/heap.rs, src/src/arena.rs).                   *)
(*                                                                         *)
(* A page is run by its owner, which allocates from `free` and frees into  *)
(* `local_free` without synchronisation.  Every other thread frees by      *)
(* pushing onto `xthread_free`, a Treiber stack whose head word carries    *)
(* the ownership bit.  When the owner exits, the page is abandoned: the    *)
(* bit is cleared, and the page becomes findable through the arena's       *)
(* abandoned registry if it has room.  The next freer that pushes onto an  *)
(* unowned page claims it and must put it in order; a thread that looks    *)
(* for a page of this size class may claim it too and adopt it.            *)
(*                                                                         *)
(* Atomicity: one action is one atomic access to shared memory (the        *)
(* xthread_free word, the xthread_id word, the registry bit, the page-map  *)
(* entry, the arena's free bitmap) together with the accesses to           *)
(* owner-only Cell fields that go with it.  Retries of a failed CAS leave  *)
(* no trace and are not modelled.                                          *)
(*                                                                         *)
(* Data: a list of blocks is the set of its blocks, for the order of a     *)
(* list is never looked at except by collect_partly, which takes what      *)
(* hangs below the block it pushed; that chain is the variable `below`.    *)
(***************************************************************************)
EXTENDS Integers, FiniteSets

CONSTANTS
  Threads,    \* the threads of the process
  Reserved,   \* Page::reserved, the blocks the page can hold
  MaxExtend,  \* the most blocks one extend_free makes available
  Small,      \* block_size <= MI_SMALL_SIZE_MAX: a claim collects partly first
  RegistryMayFail,  \* the OS may refuse to map the abandoned registry
  Abandoned,  \* MI_THREADID_ABANDONED
  Mapped,     \* MI_THREADID_ABANDONED_MAPPED
  None        \* a null pointer

ASSUME PageAssumption ==
  /\ Reserved \in Nat \ {0}
  /\ MaxExtend \in Nat \ {0}
  /\ Small \in BOOLEAN
  /\ RegistryMayFail \in BOOLEAN
  /\ Abandoned \notin Threads /\ Mapped \notin Threads /\ None \notin Threads
  /\ Abandoned # Mapped

Blocks == 1..Reserved

VARIABLES
  free,       \* blocks on the `free` list                      (owner-only)
  localFree,  \* blocks on the `local_free` list                (owner-only)
  used,       \* the `used` counter                             (owner-only)
  capacity,   \* blocks made available so far                   (owner-only)
  linked,     \* the thread whose bin queue holds the page      (owner-only)
  below,      \* the chain under the block a claiming free pushed
  xfree,      \* blocks queued on the xthread_free stack
  owned,      \* the ownership bit of the xthread_free word
  xtid,       \* xthread_id without its flag bits
  registered, \* the page's bit in the arena's abandoned registry
  inMap,      \* the page map resolves the page's addresses
  alive,      \* the page's slices are allocated
  live,       \* blocks in the hands of the program
  pc,         \* what each thread is doing with the page
  blk         \* the block each thread is freeing

lists == <<free, localFree, used, capacity, below, xfree>>
vars == <<free, localFree, used, capacity, linked, below, xfree, owned, xtid,
          registered, inMap, alive, live, pc, blk>>

(***************************************************************************)
(* The control points of the three protocols.                              *)
(***************************************************************************)
\* free_try_collect_mt, run by the freer whose push claimed the page
ClaimPcs == {"claimed", "recollect", "isFull", "register", "stampMapped",
             "tryUnown", "unabandon"}
\* abandon_owned_page, run by the exiting owner
ExitPcs == {"exitIsFull", "exitStampFull", "exitRegister", "exitStampMapped",
            "exitUnown"}
\* reclaim_abandoned after its claim, then try_reclaim
AdoptPcs == {"clearBit", "adopt", "adoptCollect"}
\* release_page_slices
ReleasePcs == {"unmap", "freeSlices"}
\* the thread holds the page exclusively, outside its bin queue
HoldPcs == ClaimPcs \cup ExitPcs \cup AdoptPcs \cup ReleasePcs
Pcs == {"idle", "push", "seen"} \cup HoldPcs

TypeOK ==
  /\ free \subseteq Blocks /\ localFree \subseteq Blocks
  /\ xfree \subseteq Blocks /\ live \subseteq Blocks
  /\ below \subseteq Blocks
  /\ used \in 0..Reserved /\ capacity \in 0..Reserved
  /\ linked \in Threads \cup {None}
  /\ xtid \in Threads \cup {Abandoned, Mapped}
  /\ owned \in BOOLEAN /\ registered \in BOOLEAN
  /\ inMap \in BOOLEAN /\ alive \in BOOLEAN
  /\ pc \in [Threads -> Pcs]
  /\ blk \in [Threads -> Blocks]

(***************************************************************************)
(* new_page: Page::init leaves (NULL, owned), used = capacity = 0; the     *)
(* creating thread stamps the page, registers its range and links it into  *)
(* its bin queue before any other thread can see it.                       *)
(***************************************************************************)
Init ==
  /\ free = {} /\ localFree = {} /\ xfree = {} /\ below = {} /\ live = {}
  /\ used = 0 /\ capacity = 0
  /\ owned = TRUE /\ registered = FALSE /\ inMap = TRUE /\ alive = TRUE
  /\ linked \in Threads /\ xtid = linked
  /\ pc = [t \in Threads |-> "idle"]
  /\ blk = [t \in Threads |-> 1]

Goto(t, where) == pc' = [pc EXCEPT ![t] = where]

(***************************************************************************)
(* Page::collect: take the whole cross-thread stack with one CAS that      *)
(* keeps the ownership bit, move it and local_free onto free; a            *)
(* cross-thread free is counted in `used` only here.                       *)
(***************************************************************************)
Collected == free \cup xfree \cup localFree
UsedCollected == used - Cardinality(xfree)

Collect ==
  /\ free' = Collected
  /\ localFree' = {}
  /\ xfree' = {}
  /\ used' = UsedCollected
  /\ below' = {}

\* Page::extend_free: the blocks the next extension makes available.
Extension == {b \in Blocks : capacity < b /\ b <= capacity + MaxExtend}

-----------------------------------------------------------------------------
(***************************************************************************)
(* The owner at work: the page is linked into the queue of a thread that   *)
(* is not in the middle of another operation on it.                        *)
(***************************************************************************)
Owns(t) == linked = t /\ pc[t] = "idle"

\* Page::alloc, the fast path: pop a block off `free`.
Alloc(t, b) ==
  /\ Owns(t)
  /\ b \in free
  /\ free' = free \ {b}
  /\ used' = used + 1
  /\ live' = live \cup {b}
  /\ UNCHANGED <<localFree, capacity, linked, below, xfree, owned, xtid,
                 registered, inMap, alive, pc, blk>>

\* Page::alloc_slow when a collect refills `free`.
AllocCollect(t, b) ==
  /\ Owns(t)
  /\ free = {}
  /\ b \in Collected
  /\ free' = Collected \ {b}
  /\ localFree' = {} /\ xfree' = {} /\ below' = {}
  /\ used' = UsedCollected + 1
  /\ live' = live \cup {b}
  /\ UNCHANGED <<capacity, linked, owned, xtid, registered, inMap, alive,
                 pc, blk>>

\* Page::alloc_slow when nothing comes back: extend_free, then pop.
AllocExtend(t, b) ==
  /\ Owns(t)
  /\ Collected = {}
  /\ b \in Extension
  /\ free' = Extension \ {b}
  /\ capacity' = capacity + Cardinality(Extension)
  /\ used' = used + 1
  /\ live' = live \cup {b}
  /\ UNCHANGED <<localFree, linked, below, xfree, owned, xtid, registered,
                 inMap, alive, pc, blk>>

(***************************************************************************)
(* heap::free by the thread the page is stamped with: free_local, then     *)
(* retire_page if the page is empty, which keeps the only page of a bin    *)
(* and releases any other (the other pages of the bin are not modelled     *)
(* here, so either may happen).                                            *)
(***************************************************************************)
FreeLocal(t, b) ==
  /\ pc[t] = "idle"
  /\ b \in live /\ inMap
  /\ xtid = t
  /\ live' = live \ {b}
  /\ localFree' = localFree \cup {b}
  /\ used' = used - 1
  /\ \/ UNCHANGED <<pc, linked>>
     \/ used' = 0 /\ linked' = None /\ Goto(t, "unmap")
  /\ UNCHANGED <<free, capacity, below, xfree, owned, xtid, registered,
                 inMap, alive, blk>>

\* find_free_page and ThreadHeap::collect drain the page; a collect that
\* finds it empty releases it (force) or retires it (keeps or releases).
OwnerCollect(t) ==
  /\ Owns(t)
  /\ xfree \cup localFree # {}
  /\ Collect
  /\ \/ UNCHANGED <<pc, linked>>
     \/ used' = 0 /\ linked' = None /\ Goto(t, "unmap")
  /\ UNCHANGED <<capacity, owned, xtid, registered, inMap, alive, live, blk>>

\* collect_retired (countdown at zero) and ThreadHeap::collect(force)
\* release a page that was kept empty.
Retire(t) ==
  /\ Owns(t)
  /\ used = 0
  /\ linked' = None
  /\ Goto(t, "unmap")
  /\ UNCHANGED <<lists, owned, xtid, registered, inMap, alive, live, blk>>

-----------------------------------------------------------------------------
(***************************************************************************)
(* release_page_slices: the addresses stop resolving, then the slices go   *)
(* back to the arena.                                                      *)
(***************************************************************************)
Unmap(t) ==
  /\ pc[t] = "unmap"
  /\ inMap' = FALSE
  /\ Goto(t, "freeSlices")
  /\ UNCHANGED <<lists, linked, owned, xtid, registered, alive, live, blk>>

FreeSlices(t) ==
  /\ pc[t] = "freeSlices"
  /\ alive' = FALSE
  /\ Goto(t, "idle")
  /\ UNCHANGED <<lists, linked, owned, xtid, registered, inMap, live, blk>>

-----------------------------------------------------------------------------
(***************************************************************************)
(* heap::free by any other thread.  It reads the stamp (FreeRemote), and   *)
(* whatever happened to the page since, pushes the block with one CAS that *)
(* always publishes `owned` (Push); if the bit was clear, the push has     *)
(* claimed the page.                                                       *)
(***************************************************************************)
FreeRemote(t, b) ==
  /\ pc[t] = "idle"
  /\ b \in live /\ inMap
  /\ xtid # t
  /\ live' = live \ {b}
  /\ blk' = [blk EXCEPT ![t] = b]
  /\ Goto(t, "push")
  /\ UNCHANGED <<lists, linked, owned, xtid, registered, inMap, alive>>

\* Page::thread_free_push
Push(t) ==
  /\ pc[t] = "push"
  /\ xfree' = xfree \cup {blk[t]}
  /\ owned' = TRUE
  /\ IF owned THEN Goto(t, "idle") /\ UNCHANGED below
              ELSE Goto(t, "claimed") /\ below' = xfree
  /\ UNCHANGED <<free, localFree, used, capacity, linked, xtid, registered,
                 inMap, alive, live, blk>>

(***************************************************************************)
(* free_try_collect_mt.  Where the claimer goes once it has collected,     *)
(* with `fr` on the free list and `us` in use: an empty page is released;  *)
(* is_full answers at once if `free` has a block, and otherwise collects   *)
(* again (IsFull).                                                         *)
(***************************************************************************)
\* mutant: the head block is taken for already collected
AfterCollect_OneLeft(fr, us) ==
  IF us <= 1 THEN "unabandon"
  ELSE IF fr = {} THEN "isFull"
  ELSE IF xtid = Mapped THEN "tryUnown" ELSE "register"

AfterCollect(fr, us) ==
  IF us = 0 THEN "unabandon"
  ELSE IF fr = {} THEN "isFull"
  ELSE IF xtid = Mapped THEN "tryUnown" ELSE "register"

\* Page::collect_partly: leave the pushed head queued, move the chain under
\* it to local_free; if only the head is left in use, collect everything.
LocalPartly == localFree \cup below
\* mutant: the migrated blocks stay counted as in use
UsedPartly_Uncounted == used
UsedPartly == used - Cardinality(below)
FreePartly == IF below # {} /\ free = {} THEN LocalPartly ELSE free

CollectPartly ==
  /\ xfree' = xfree \ below
  /\ free' = FreePartly
  /\ localFree' = IF below # {} /\ free = {} THEN {} ELSE LocalPartly
  /\ used' = UsedPartly
  /\ below' = {}

Claimed(t) ==
  /\ pc[t] = "claimed"
  /\ IF Small /\ UsedPartly # 1 THEN CollectPartly ELSE Collect
  /\ Goto(t, AfterCollect(free', used'))
  /\ UNCHANGED <<capacity, linked, owned, xtid, registered, inMap, alive,
                 live, blk>>

\* mutant: `first` is never reset, so the loop collects partly for ever
Recollect_StillFirst(t) ==
  /\ pc[t] = "recollect"
  /\ CollectPartly
  /\ Goto(t, AfterCollect(free', used'))
  /\ UNCHANGED <<capacity, linked, owned, xtid, registered, inMap, alive,
                 live, blk>>

Recollect(t) ==
  /\ pc[t] = "recollect"
  /\ Collect
  /\ Goto(t, AfterCollect(free', used'))
  /\ UNCHANGED <<capacity, linked, owned, xtid, registered, inMap, alive,
                 live, blk>>

\* the collect inside is_full; the page is full if that brought nothing back
\* and every reserved block was made available already
IsFull(t) ==
  /\ pc[t] = "isFull"
  /\ Collect
  /\ Goto(t, IF (free' = {} /\ capacity >= Reserved) \/ xtid = Mapped
             THEN "tryUnown" ELSE "register")
  /\ UNCHANGED <<capacity, linked, owned, xtid, registered, inMap, alive,
                 live, blk>>

\* Arena::page_abandon; if the registry cannot be mapped, nothing is set.
PageAbandon == registered' = TRUE \/ (RegistryMayFail /\ UNCHANGED registered)

\* mutant: registered without the Mapped stamp
Register_NoStamp(t) ==
  /\ pc[t] = "register"
  /\ PageAbandon
  /\ Goto(t, "tryUnown")
  /\ UNCHANGED <<lists, linked, owned, xtid, inMap, alive, live, blk>>

Register(t) ==
  /\ pc[t] = "register"
  /\ PageAbandon
  /\ Goto(t, "stampMapped")
  /\ UNCHANGED <<lists, linked, owned, xtid, inMap, alive, live, blk>>

StampMapped(t) ==
  /\ pc[t] = "stampMapped"
  /\ xtid' = Mapped
  /\ Goto(t, "tryUnown")
  /\ UNCHANGED <<lists, linked, owned, registered, inMap, alive, live, blk>>

\* Page::try_unown: succeeds only on (NULL, owned).
TryUnown(t) ==
  /\ pc[t] = "tryUnown"
  /\ IF xfree = {} THEN owned' = FALSE /\ Goto(t, "idle")
                   ELSE UNCHANGED owned /\ Goto(t, "recollect")
  /\ UNCHANGED <<lists, linked, xtid, registered, inMap, alive, live, blk>>

\* mutant: the registry entry outlives the page
Unabandon_Forgets(t) ==
  /\ pc[t] = "unabandon"
  /\ Goto(t, "unmap")
  /\ UNCHANGED <<lists, linked, owned, xtid, registered, inMap, alive, live,
                 blk>>

\* unabandon_if_mapped, before the release
Unabandon(t) ==
  /\ pc[t] = "unabandon"
  /\ registered' = IF xtid = Mapped THEN FALSE ELSE registered
  /\ Goto(t, "unmap")
  /\ UNCHANGED <<lists, linked, owned, xtid, inMap, alive, live, blk>>

-----------------------------------------------------------------------------
(***************************************************************************)
(* abandon_owned_page, on thread exit or Heap::delete: collect; an empty   *)
(* page is released, a full one is stamped Abandoned, any other one is     *)
(* registered and stamped Mapped; the ownership bit is cleared last, with  *)
(* whatever is queued left in place.                                       *)
(***************************************************************************)
Exit(t) ==
  /\ Owns(t)
  /\ linked' = None
  /\ Collect
  /\ Goto(t, IF used' = 0 THEN "unmap"
             ELSE IF free' = {} THEN "exitIsFull" ELSE "exitRegister")
  /\ UNCHANGED <<capacity, owned, xtid, registered, inMap, alive, live, blk>>

\* mutant: an empty free list is taken for a full page
ExitIsFull_IgnoresCapacity(t) ==
  /\ pc[t] = "exitIsFull"
  /\ Collect
  /\ Goto(t, IF free' = {} THEN "exitStampFull" ELSE "exitRegister")
  /\ UNCHANGED <<capacity, linked, owned, xtid, registered, inMap, alive,
                 live, blk>>

ExitIsFull(t) ==
  /\ pc[t] = "exitIsFull"
  /\ Collect
  /\ Goto(t, IF free' = {} /\ capacity >= Reserved
             THEN "exitStampFull" ELSE "exitRegister")
  /\ UNCHANGED <<capacity, linked, owned, xtid, registered, inMap, alive,
                 live, blk>>

ExitRegister(t) ==
  /\ pc[t] = "exitRegister"
  /\ PageAbandon
  /\ Goto(t, "exitStampMapped")
  /\ UNCHANGED <<lists, linked, owned, xtid, inMap, alive, live, blk>>

\* mutant: a full page keeps its owner's id
ExitStamp_FullKeepsId(t) ==
  /\ pc[t] \in {"exitStampFull", "exitStampMapped"}
  /\ xtid' = IF pc[t] = "exitStampFull" THEN xtid ELSE Mapped
  /\ Goto(t, "exitUnown")
  /\ UNCHANGED <<lists, linked, owned, registered, inMap, alive, live, blk>>

ExitStamp(t) ==
  /\ pc[t] \in {"exitStampFull", "exitStampMapped"}
  /\ xtid' = IF pc[t] = "exitStampFull" THEN Abandoned ELSE Mapped
  /\ Goto(t, "exitUnown")
  /\ UNCHANGED <<lists, linked, owned, registered, inMap, alive, live, blk>>

\* Page::set_unowned
ExitUnown(t) ==
  /\ pc[t] = "exitUnown"
  /\ owned' = FALSE
  /\ Goto(t, "idle")
  /\ UNCHANGED <<lists, linked, xtid, registered, inMap, alive, live, blk>>

-----------------------------------------------------------------------------
(***************************************************************************)
(* try_reclaim: a thread in need of a page of this size class sees the     *)
(* registry bit (See), tries to set the ownership bit (ClaimOwnership),    *)
(* clears the registry bit, stamps the page with its id, collects it and   *)
(* links it into its own queue.  A failed claim leaves the bit set.        *)
(***************************************************************************)
See(t) ==
  /\ pc[t] = "idle"
  /\ registered
  /\ Goto(t, "seen")
  /\ UNCHANGED <<lists, linked, owned, xtid, registered, inMap, alive, live,
                 blk>>

\* mutant: the claim ignores that the bit was set already
ClaimOwnership_Always(t) ==
  /\ pc[t] = "seen"
  /\ owned' = TRUE
  /\ Goto(t, "clearBit")
  /\ UNCHANGED <<lists, linked, xtid, registered, inMap, alive, live, blk>>

ClaimOwnership(t) ==
  /\ pc[t] = "seen"
  /\ owned' = TRUE
  /\ Goto(t, IF owned THEN "idle" ELSE "clearBit")
  /\ UNCHANGED <<lists, linked, xtid, registered, inMap, alive, live, blk>>

ClearBit(t) ==
  /\ pc[t] = "clearBit"
  /\ registered' = FALSE
  /\ Goto(t, "adopt")
  /\ UNCHANGED <<lists, linked, owned, xtid, inMap, alive, live, blk>>

Adopt(t) ==
  /\ pc[t] = "adopt"
  /\ xtid' = t
  /\ Goto(t, "adoptCollect")
  /\ UNCHANGED <<lists, linked, owned, registered, inMap, alive, live, blk>>

AdoptCollect(t) ==
  /\ pc[t] = "adoptCollect"
  /\ Collect
  /\ linked' = t
  /\ Goto(t, "idle")
  /\ UNCHANGED <<capacity, owned, xtid, registered, inMap, alive, live, blk>>

-----------------------------------------------------------------------------
\* One step of an operation that t has begun.
Step(t) ==
  \/ Push(t)
  \/ Claimed(t) \/ Recollect(t) \/ IsFull(t) \/ Register(t) \/ StampMapped(t)
  \/ TryUnown(t) \/ Unabandon(t)
  \/ Unmap(t) \/ FreeSlices(t)
  \/ ExitIsFull(t) \/ ExitRegister(t) \/ ExitStamp(t) \/ ExitUnown(t)
  \/ ClaimOwnership(t) \/ ClearBit(t) \/ Adopt(t) \/ AdoptCollect(t)

\* The first step of an operation.
Begin(t) ==
  \/ \E b \in Blocks :
       \/ Alloc(t, b) \/ AllocCollect(t, b) \/ AllocExtend(t, b)
       \/ FreeLocal(t, b) \/ FreeRemote(t, b)
  \/ OwnerCollect(t) \/ Retire(t) \/ Exit(t) \/ See(t)

Next == \E t \in Threads : Begin(t) \/ Step(t)

Spec == Init /\ [][Next]_vars

\* A thread that has begun an operation keeps running: none of these steps
\* waits for another thread.  Nobody is obliged to begin one.
Fairness == \A t \in Threads : WF_vars(Step(t))
FairSpec == Spec /\ Fairness

-----------------------------------------------------------------------------
(***************************************************************************)
(* Properties.                                                             *)
(***************************************************************************)

\* t runs the page: it is in its bin queue, or t is in the middle of
\* claiming, abandoning, adopting or releasing it.
Holds(t) == linked = t \/ pc[t] \in HoldPcs

\* Blocks a freer has taken from the program and not yet pushed.
Pushers == {t \in Threads : pc[t] = "push"}
InFlight == {blk[t] : t \in Pushers}

\* Out of the owner's lists: in use, being pushed, or queued.
Out == live \cup InFlight \cup xfree

\* Between claiming frees, exiting owners and adopting threads, at most one
\* thread ever runs the page, and the ownership bit is set exactly while one
\* does: thread_free_push, claim_ownership, try_unown and set_unowned hand
\* the page over without ever duplicating or losing it.
ExclusiveOwner ==
  /\ \A t, u \in Threads : Holds(t) /\ Holds(u) => t = u
  /\ alive => (owned <=> \E t \in Threads : Holds(t))

\* heap::free decides from xthread_id alone that it may use the
\* unsynchronised free_local: a thread that reads its own id there really
\* has the page in its queue.
DispatchSound ==
  \A t \in Threads : alive /\ xtid = t /\ pc[t] = "idle" => linked = t

\* No block is lost or doubled by pushes racing with collects: every block
\* made available is on exactly one list, in the program's hands, or in the
\* hands of the one thread that is freeing it.
BlockPartition ==
  /\ free \cup localFree \cup xfree \cup live \cup InFlight = 1..capacity
  /\ free \cap (localFree \cup xfree \cup live \cup InFlight) = {}
  /\ localFree \cap (xfree \cup live \cup InFlight) = {}
  /\ xfree \cap (live \cup InFlight) = {}
  /\ live \cap InFlight = {}
  /\ \A t, u \in Pushers : blk[t] = blk[u] => t = u

\* `used`, which only the owner writes, counts the blocks that are not back
\* on an owner list, however cross-thread frees and collects interleave; so
\* used = 0 does mean that nobody can touch the page any more.
UsedIsExact == used = Cardinality(Out)

\* release_page_slices runs only when no block is in use, queued or being
\* pushed, and when the abandoned registry no longer shows the page.
ReleaseIsSafe ==
  (~alive \/ \E t \in Threads : pc[t] \in ReleasePcs)
    => live = {} /\ xfree = {} /\ Pushers = {} /\ ~registered

\* A pointer the program may still free always resolves to its page.
LiveIsMapped == live \cup InFlight # {} => inMap /\ alive

\* What the registry shows of an unowned page, its stamp says too, so that a
\* later free goes by is_abandoned_mapped and takes the page out again; and
\* the converse, unless the OS refuses to map the registry.
RegistryMatchesStamp ==
  alive /\ ~owned =>
    /\ registered => xtid = Mapped
    /\ xtid = Mapped => registered \/ RegistryMayFail

\* is_full is decided before the ownership bit is cleared, while frees keep
\* arriving.  Its verdict stays true of the owner's lists: of an unowned page
\* that was not put up for adoption every block is in use, on its way, or queued
\* in xthread_free, where the next free finds it.  The queue may well hold some,
\* or all, for an exiting owner lets go without a second look (set_unowned): a
\* page whose last block is pushed in between is hidden with all its room, and
\* no free will come.
HiddenRoomIsQueued ==
  alive /\ ~owned /\ xtid # Mapped
    => Blocks \ (live \cup InFlight) = xfree

\* Every operation a thread begins on the page ends: the loop of
\* free_try_collect_mt repeats only when another free got in between, and
\* nobody can allocate from a page that is being claimed.
OperationsEnd == \A t \in Threads : []<>(pc[t] = "idle")

(***************************************************************************)
(* The inductive invariant behind the safety properties: what each control *)
(* point of the protocol may rely on.                                      *)
(***************************************************************************)

\* The control points at which the page still bears the holder's id.
OwnStampPcs == {"exitIsFull", "exitStampFull", "exitRegister",
                "exitStampMapped", "adoptCollect"}

Ownership ==
  /\ ExclusiveOwner
  /\ ~alive => owned /\ \A t \in Threads : ~Holds(t)
  /\ \A t \in Threads : linked = t => xtid = t /\ pc[t] \notin HoldPcs
  /\ \A t \in Threads : pc[t] \in OwnStampPcs => xtid = t
  /\ \A t \in Threads : alive /\ xtid = t =>
       linked = t \/ pc[t] \in OwnStampPcs \cup ReleasePcs

EmptyWhenReleased ==
  /\ \A t \in Threads : pc[t] \in ReleasePcs \cup {"unabandon"} => used = 0
  /\ ~alive => used = 0
  /\ ~inMap => ~alive \/ \E t \in Threads : pc[t] = "freeSlices"

RegistryState ==
  /\ registered =>
       /\ alive
       /\ \A t \in Threads : pc[t] \notin ReleasePcs \cup {"adopt"}
       /\ \/ xtid = Mapped
          \/ \E t \in Threads : pc[t] \in {"stampMapped", "exitStampMapped"}
  /\ ~RegistryMayFail /\ alive /\ xtid = Mapped =>
       registered \/ \E t \in Threads : pc[t] \in {"adopt"} \cup ReleasePcs
  /\ ~RegistryMayFail => \A t \in Threads :
       pc[t] \in {"stampMapped", "exitStampMapped"} => registered

NothingToGive == free \cup localFree = {} /\ capacity = Reserved

FullWhenHidden ==
  /\ \A t \in Threads : pc[t] = "exitStampFull" => NothingToGive
  /\ \A t \in Threads : pc[t] \in {"tryUnown", "exitUnown"} /\ xtid # Mapped
                          => NothingToGive
  /\ alive /\ ~owned /\ xtid # Mapped => NothingToGive

Counting == BlockPartition /\ UsedIsExact /\ below \subseteq xfree

\* The invariant of the ownership protocol, strong enough to be inductive:
\* each thread may rely at each of its control points on what it found out
\* about owner, counts, registry and stamp, whatever the others did since.
IndInv ==
  /\ TypeOK
  /\ Ownership
  /\ Counting
  /\ EmptyWhenReleased
  /\ RegistryState
  /\ FullWhenHidden

\* The page is a block store.
Store == INSTANCE BlockStore WITH
           held <- live, returning <- xfree \cup InFlight, gone <- ~alive
StoreRefined == Store!StoreSpec

=============================================================================
