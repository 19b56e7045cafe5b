# A TLA+ verification of mimalloc-rs

mimalloc-rs is a Rust port of the mimalloc v3 allocator. This directory holds
TLA+ models of its concurrent core, its start and its arithmetic, the TLC runs
that check them and TLAPS proofs of most of what the runs check. Source paths are relative to the
repository's `src/` directory of Rust files.

## 1. The system

| Component | State | Operations | Interaction | Correct when |
|---|---|---|---|---|
| Page (`page.rs`) | `free`, `local_free`, `used`, `capacity` (owner only); `xthread_free` with the ownership bit; `xthread_id` | alloc, free_local, thread_free_push, collect, collect_partly, extend_free, claim_ownership, try_unown, set_unowned | owner works without synchronisation, every other thread pushes by CAS | blocks are partitioned, `used` is exact, one owner at a time |
| Free path (`heap.rs`) | none of its own | free, free_cold, free_try_collect_mt, abandon_owned_page, release_page_slices, try_reclaim | page, registry, page map, arena | no release under a pending free, no page hidden or shared |
| Thread heap (`heap.rs`, `page_queue.rs`) | bin queues, `pages_free_direct`, retired range, countdowns | alloc (fast, first fit, reclaim, fresh, huge), retire_page, collect_retired, collect, Drop | pages, arenas | fast-path entries valid, empty pages kept one per bin and released later |
| First-class heaps (`heap.rs`, `init.rs`) | reference count, theaps list; per-thread registry | new, theap on first use, delete, destroy, thread exit | threads share a heap, TLS destructors | count exact, no theap outlives its heap, live blocks keep their pages |
| Abandoned registry (`arena.rs`, `subproc.rs`) | one bitmap per bin, mapped on first use | page_abandon, page_unabandon, reclaim_abandoned | exiting threads, freers, searching threads | it shows the abandoned pages with room and nothing else |
| Arena (`arena.rs`, `os.rs`) | free, commit, dirty, purge bitmaps; `purge_expire` | alloc_slices, ensure_committed, free_slices, schedule_purge, maybe_purge, run_purge | OS calls | no slice lost or doubled, memory accessible and zero when promised |
| Bitmap (`bitmap.rs`) | chunks of fields, chunkmap | find and clear, try_clear_n with rollback, set_n, chunkmap re-check | arenas | claims are exclusive, free bits are findable |
| Page map (`page_map.rs`, `sync.rs`) | top table, submaps, spin lock | register, unregister, lookup | every free | a registered slice resolves, a free one does not |
| Subprocess (`subproc.rs`, `arena.rs` create and destroy) | arena registry with its count, cursor | alloc_slices, reserve_arena, add_arena, owns_address, try_purge | arenas, metadata | no region lost or doubled, a request fails only for a reason, every request ends |
| Metadata allocator (`arena_meta.rs`) | chunk list, one bit per block, a lock | meta_zalloc, meta_free | arenas, page map, heaps | every block has one owner, reused blocks are zero |
| Start (`sync.rs`, `init.rs`, `options.rs`) | once cells, thread ids, default theaps, option values | get_or_init, current_tid, thread_init, get, set | everything, on first use | one value for all, no lost set, no circle of waits |
| Deferred free (`init.rs`) | callback and argument, recursion flag, heartbeat | register, run_deferred_free | collects, the program's callback | own or later argument, no recursion |
| Free-list encoding (`free_list.rs`) | the link word of each free block | encode, decode, next, set_next | page | lists end and hold what they should |
| Size classes and layout (`bits.rs`, `heap.rs`, `layout.rs`, `os.rs`) | BIN_SIZES | bin, good_size, alloc_aligned, recover_block_start, usable_size; OS regions and ranges | allocation and free | requests fit their block, pointers lead back to it, ranges are exact |
| Wrappers (`api/`, `lib.rs`), `stats.rs`, `track.rs`, system calls (`prim/`) | | | | |

What is hard: the hand-over of a page between its exiting owner, the freers
that claim it and the threads that search for it; frees that arrive between any
two steps of such a hand-over; searches and purges that act on what they read
before; field-by-field bitmap operations; failures of the OS half-way through an
operation; and the order in which handles, theaps and threads go away.
`PROJECT.json` lists these as hazards, each with the line where it bites.

## 2. The modules

Conventions: one action is one atomic access to shared memory together with the
owner-only accesses around it; a CAS that fails and is retried leaves no trace
and is not a step. `pc[t]` says where thread `t` is in a multi-step operation. A definition
named `X_Something` next to `X`, marked "mutant", is a plausible mistake in `X`
used to see that a property would notice it; nothing else refers to it.

**PageOwnership** is one page from `new_page` to `release_page_slices`, with any
number of threads. Lists are sets of blocks: their order is looked at only by
`collect_partly`, whose chain under the pushed block is the variable `below`.
The owner's actions are `Alloc`, `AllocCollect`, `AllocExtend` (page.rs alloc,
alloc_slow), `FreeLocal`, `OwnerCollect`, `Retire`; a free by another thread is
`FreeRemote` (reads the stamp) and `Push` (the CAS), then, if that claimed the
page, `Claimed`, `Recollect`, `IsFull`, `Register`, `StampMapped`, `TryUnown` or
`Unabandon` (free_try_collect_mt); an exit is `Exit`, `ExitIsFull`,
`ExitRegister`, `ExitStamp`, `ExitUnown` (abandon_owned_page); a search is
`See`, `ClaimOwnership`, `ClearBit`, `Adopt`, `AdoptCollect`; a release is
`Unmap`, `FreeSlices`. Which of the keep/release choices of `retire_page` is
taken depends on the other pages of the bin, so both are allowed here;
ThreadHeap decides them.

**BlockStore** is what a page promises: a block is handed out again only when
it is back, and the memory is given up only when all blocks are.
`PageOwnership!StoreRefined` maps the held blocks to `live`, the blocks on their
way back to those queued or being pushed, and `gone` to the page being released.

**SliceReuse** goes on where PageOwnership ends: the pages that follow each other
at one slice, of several size classes, with what a search finds in the header when
it comes too late. New pages and purges may come at any time. The history variable
`overtaken` holds the searches under which the slice was purged, or became a page of
another class, between their two steps; `misled` says that one of these has claimed
what it found.

**ThreadHeap** (instances in MCThreadHeap) is the heap of one thread and of its
successor. A page is its counts of blocks; the queues, the fast-path table, the
retired range and the countdown are kept as they are.

**HeapLifecycle** is the reference-counted life of first-class heaps, with a
theap per thread, deletion, destruction and thread exit in steps, and the pages
and blocks that change hands in the process. `life` counts the bulk releases of a
page, so a block in use stays where it is when its page is released under it, and is
told from the blocks of a page made there later. Its field `moved` is history: its
page was abandoned and adopted by a theap of another first-class heap.

**ArenaPurge** is the slices of an arena: the four bitmaps, the purge timer, and
the memory as the OS sees it (accessible, zero). What options, build and OS
decide once (commit at creation, decommit or reset, delay, which calls may fail,
bits of a field) is the variable `conf`, chosen from the constant `Configs`;
MCArenaPurge names the configurations that are checked, all with runs of several
slices in a field. Two history variables follow the runs on which a purge finds
`clear_n` refuse: `stale`, the committed slices of a partly committed run whose
access a decommit took; `left`, the scheduled slices of a run of which another purge
had unmarked a part. **ChunkBitmap** opens up what
ArenaPurge takes as atomic: one chunk and its chunkmap bit, field by field; the
history variable `undone` holds the bits a rollback put back while the chunkmap
bit has not been set since.

**PageMap** is the two-level map with tables made on first use.

**ArenaPool** is the arenas of a subprocess: a request searches the registered
arenas from the cursor on, reserves a new arena when none has room (an OS region,
bitmaps and descriptor from the metadata allocator, an entry under the lock, the
count), and undoes all of it when a step fails. The metadata allocator is part of
the module because its blocks, reused, become the bitmaps of an arena. A run
longer than a chunk that is not inside one chunk ends in the action `Panic`:
`set_n` indexes past the fields of the chunk.

**Startup** (instance in MCStartup) is what happens on first use, one access to
a shared word at a time: the once cells, one initializer asking for another, the
seeding of the options, thread ids and theaps; and the deferred-free callback,
which may call back into the allocator.

**Geometry** is the arithmetic, as functions on numbers with the constants of the
64-bit build: the loop that builds BIN_SIZES is run word by word, and each
question to the finished table (an aligned request at some block of its page, an
OS region, a purge range) is one action that leaves the answer in `ans`.

**PageMemory** is one page again, at the level of words: the links with their
encoding, the thread-free word with the ownership bit in it, the stamp with the
interior flag, the zero state, huge pages, and the aborts of a hardened build.
Where PageOwnership has sets of blocks, PageMemory has chains to follow.

PageOwnership, PageMemory, SliceReuse and ThreadHeap look at the same code at four
scales: what ThreadHeap assumes of a page in one step (collect, push, exit) is what
PageOwnership shows of its steps, and PageMemory shows that the lists behave as
PageOwnership's sets. ArenaPool takes a claim in an arena as one step, ArenaPurge
opens it up into the four bitmaps, and ChunkBitmap opens up a claim in one bitmap.

## 3. The runs

Deadlock is checked where the modelled system never stops (HeapTwoThreads,
GeometryReal); elsewhere a page ends released or stranded, threads exit, or the
number of operations is bounded. Named parts are bundled: `QueuesAreSound`, for
example, is the conjunction of `TypeOK`, `DirectEntriesValid` and `MappedHasRoom`,
each of which is stated and explained in the module.

| Run | Shows | Bounds |
|---|---|---|
| PageSmall | the inductive invariant, ownership, dispatch, accounting, release, registry, refinement of BlockStore; every operation ends | 3 threads, 3 small blocks, 2 per extension: an owner, a freer that claims and a thread that searches meet; a chain of two under a push; a page that is full, partly carved and empty; the OS may refuse the registry |
| SliceTwoClasses | one owner per slice and claims of the class sought, up to the first claim of a search that was overtaken, and late claims that are harmless | 3 threads, 2 size classes (one sought, one not), 3 pages in succession, purges at any time |
| HeapTwoThreads | fast-path table, keep-one rule, registration, no live block released | 3 pages of 2 blocks, 2 size classes and huge, 3 sizes of which 2 share a class, countdowns 2 and 1, one exit |
| ArenaBuilds | slices, access, zero promises, timer, in three configurations | 2 threads, 2 slices in one field (so that runs of two meet parts of them committed, scheduled or in use), 4 allocations |
| BitmapSpanning | exclusive claims and a conservative chunkmap, runs inside and across fields | 3 threads, 2 fields of two bits |
| LifecycleShared | count, theaps, live blocks, with deletion, destruction and reused metadata | 2 threads, 2 metadata blocks, 2 heaps made in all, 2 pages of 2 blocks |
| PageMapRaces | lookups with racing table creation and exhaustion | 2 threads, 4 slices in 2 regions, 4 registrations |
| ArenaGrowth | regions, metadata, slices, recognised pointers; a request that can be met is met; every request ends | 2 threads, 3 requests of 1, 3 or 4 slices: within a chunk of 2, across chunks, and above the largest arena of 3; 2 entries in the registry and 3 regions, so that it can be full while a region is left; arenas of one slice unless more is asked for; 2 metadata chunks of 6 blocks, so that metadata runs out |
| ArenaHugeRun | *violation*: a request longer than a chunk panics | as ArenaGrowth |
| StartupRaces | keys, options, ids, callback argument, recursion; every call returns | 2 threads, 5 calls: first calls that meet in each of the three cells, a registration that meets a collect, a callback that collects |
| GeometryReal | classes, layout, recovery of blocks, OS regions and purge ranges | the constants of the 64-bit build except the largest class (below); every word size up to it, blocks 0, 1, 2, 5 and 453 of a page, 7 alignments, 7 huge sizes up to the top of a word |
| MemoryDispatch | encoded lists, interior pointers, contents, hardened checks | 2 threads, 3 blocks of 6 bytes, 2 per extension, alignment 4, words of 8 bits, two pairs of keys |

In GeometryReal a word has 30 bits, because TLC's numbers have 32; only the sizes
that wrap depend on it, and they are put at its top. The largest class is 128 KiB
instead of 512 KiB (classes repeat in every doubling, so the two doublings left
out are like the ones before), because the loop over the words of every size is
one long behaviour. MemoryDispatch has blocks of 6 bytes so that interior
pointers aligned to 4 exist, and its words are the smallest in which addresses,
flags and both stamps of abandoned pages are distinct.

Where the code does not keep what its comments say (section 4), the failing cases
are in the runs all the same, nothing in the modules keeps them out, and the
property says exactly where the boundary is. It does so by history variables, which
record a step that happened and which no guard reads:

- `ClaimedPageIsTheOneSought` and `SliceStateIsSound` hold until a search that was
  overtaken claims what it finds (`misled`).
- `HandedOutIsAccessible` is an equation: the slices handed out without access are
  the `stale` ones.
- `ScheduledIsArmed`: at rest the timer is armed, or all scheduled slices were left
  behind (`left`).
- `ValidBlocksHavePages`: a live block is in its page unless its page was adopted by
  a theap of another first-class heap (`moved`).
- `ChunkmapIsConservative` leaves out bits a rollback put back (`undone`).

`HiddenRoomIsQueued` does without: it says that the room of a page which is neither
owned nor up for adoption is in `xthread_free`, all of it, however much that is.
`ZeroClaimsAreTrue` is about an OS that does not refuse a decommit.
`UndisturbedRequestSucceeds` excuses a request that another thread disturbed.
MemoryDispatch starts with keys under which no block of the page encodes to 0
(`KeysSafe`): free_list.rs:64 has no guard against it, the encoded word is taken
for the end of the list, and for every pair of keys there is one such word.

**Fairness.** PageSmall assumes weak fairness of the next step of each thread that
has begun an operation on the page, StartupRaces of each thread that is in a call
or a callback (so callbacks return), ArenaGrowth of the next step of some thread
that has begun a request. None of these steps waits for another thread, except
for a once cell that another thread is initializing, which is what `CallsReturn` is about, and for
the spin locks, whose holders take no lock inside; so a thread that the OS
schedules takes them. Nobody is obliged to begin an operation.

## 4. Findings

`ArenaHugeRun` refutes a statement of the source, which `PROJECT.json` quotes: a
request for more than 512 slices (32 MiB) is served by a run across chunks, and
marking that run in the commit or dirty bitmap panics (arena.rs:381, 400;
bitmap.rs:392).

Met while modelling, and visible in the modules, without a run of their own; the
first five come up in TLC as described.

- A page can be stranded. A free of the last block between `is_full` and
  `set_unowned` of an exiting thread (heap.rs:1275) leaves an empty page that is
  neither registered nor will be freed into again; the doc of Drop
  (heap.rs:1294) says that pages with live blocks are abandoned and empty ones
  released. (PageOwnership:
  `alive /\ ~owned /\ ~registered => live \cup InFlight # {}` fails without any
  registry failure, with two threads and one block.)
- A search claims whatever header is at the slice by then (bitmap.rs:508,
  arena.rs:312-315): a page of another size class, or purged memory.
  (SliceReuse: `ClaimedPageIsTheOneSought` fails without its premise `~misled`, with
  two threads, and one purge or two pages of different classes.)
- The commit bits of a partly committed run survive its decommit (arena.rs:503),
  where the commit bitmap is called authoritative (arena.rs:369-371).
  (ArenaPurge: in the configuration `Secure` of ArenaBuilds, `stale` slices are
  handed out.)
- Two purges that meet on a scheduled run of several slices can leave slices of it
  scheduled with no timer armed (arena.rs:511: `clear_n` unmarks the run only if all
  of it is still marked), although "nothing is dropped" (heap.rs:1135). They wait for
  the next release or a forced purge. (ArenaPurge: `AllIdle /\ purge # {} => armed`
  fails in ArenaBuilds.)
- Destroying a heap releases pages its theap had adopted, with live blocks of
  other heaps (heap.rs:888), where its doc says "its blocks become invalid"
  (heap.rs:814). (HeapLifecycle: `ValidBlocksHavePages` fails without `moved`, with
  one heap and two threads.)
- The fast path does not cancel a page's retire countdown (heap.rs:201); after a
  forced collect has reset the retired range (heap.rs:549) such a page, once it
  empties, is outside the range and no sweep reaches it.
- A purge that finds one slice of a scheduled run in use unmarks the whole run
  (arena.rs:511), so its free slices stay committed and unscheduled, although
  "nothing is dropped" (heap.rs:1135).
- A decommit the OS refuses is taken for done (os.rs:234): the slices count as
  clean and may be handed out as zeroed with old contents.
- A rollback of `try_clear_n` (bitmap.rs:243) does not restore the chunkmap bit
  that another thread may have cleared meanwhile: the bits are out of the
  searches' reach until another bit of the chunk is set. `range_try_clear`
  (bitmap.rs:568) does the same across chunks.
- Theaps of a destroyed heap on other threads abandon their pages at exit
  (heap.rs:1286), where the doc of destroy (heap.rs:816) says that they release
  them.
- A metadata request that fits a chunk but not the blocks behind its header maps
  another chunk for good each time and fails all the same (arena_meta.rs:117);
  `Arena::create` makes one for arenas from about 4 GiB on.
- The size of a huge request is rounded up without a check (heap.rs:416), and
  MI_MAX_ALLOC_SIZE (bits.rs:101) is enforced nowhere. A size that wraps comes to
  a run of no slices, which is refused, but only after a default arena has been
  reserved for it.
- `good_size` returns the slice-rounded size for a huge request, more than the
  "usable size a `malloc(size)` would yield" of its doc (heap.rs:57).

## 5. The proofs

`PageOwnershipProofs` proves, for every set of threads, every page size and
extension step, with or without the partial collect and the registry failure
(assumption `PageAssumption`: positive sizes, the special stamps are no thread
ids), the safety properties of PageSmall, their parts, and the refinement of
BlockStore:
`TypeCorrect`, `ExclusiveOwnership`, `DispatchIsSound`, `BlockAccounting`,
`SafeRelease`, `LivePointersResolve`, `RegistryIsTrue`, `PageImplementsStore`.

All rest on `Invariance`, the inductive invariant `IndInv`. The properties are
not inductive alone. That a release is safe, for example, needs that `used` is
exact (`Counting`), that the control points on the way to a release have
`used = 0` (`EmptyWhenReleased`), and that nobody else can change it meanwhile
(`Ownership`: who holds the page, which stamp it bears at which control point).
That the room of a hidden page is in `xthread_free` alone needs the verdict of
`is_full` to stay true of the owner's lists until the page is let go although frees
arrive (`FullWhenHidden`: they queue up and touch neither list), and
`RegistryState` ties the bit to the stamp, in one direction only where the OS may
refuse to map the registry. The proof has one lemma per part
(`OwnershipStep`, `RegistryStep`, `FullStep`, `CountingStep`, `EmptyStep`,
`TypeStep`), each with one step per action, on top of lemmas about collecting
and extending (`CollectCounts`, `CollectPartlyCounts`, `ExtensionCounts`). TLC
checks `IndInv` on the instance of PageSmall.

Seven more modules of proofs, a second part of `PageOwnershipProofs` about
SliceReuse and a second part of `ArenaPurgeProofs` about Geometry state the safety
invariants of nine runs for every value of the constants. Each names an inductive invariant, has one lemma or step per
action, and ends in the theorems, which name the run's properties. TLC has checked
the inductive invariants on the instances of the runs.

| Module | Theorems | Inductive invariant, and why the property alone is not inductive |
|---|---|---|
| PageOwnershipProofs (second part) | `SliceReuseIsSound`, `SearchFindsWhatItSought` | `SliceInv`, as long as no search was misled: with `HandOver`, the header a released page leaves behind still says "owned", and with `RightClass` that header or the page made there has the class sought, while a search that saw the bit and was not overtaken is under way; which is what makes a late claim fail or get what it asked for |
| ChunkBitmapProofs | `BitsStaySound`, `ChunkmapStaysConservative` | `BitsInv`: what an operation carries at each step (`Carries`). `ChunkInv`: `SetBitsAreSeen`, per bit, that the re-check has still to read the field the bit is in, for a thread that is in the re-check may have passed it |
| PageMapProofs | `RegisteredIsAlwaysFound`, `FreeSlicesStayUnmapped` | `MapInv`: submaps are not shared (`Tables`), pages and slices at work do not overlap (`Layout`), and how far each register, rollback and unregister has come (`Progress`) |
| ArenaPurgeProofs | `SlicesStaySound`, `HandedOutStaysAccessible`, `ZeroClaimsStayTrue`, `ScheduledStaysArmed` | `SliceInv`: an operation under way holds a whole run. `AccessInv`: a commit bit without access is one a purge is about to clear, with the rest of a committed run, or a stale one. `ZeroInv`: what is handed out is dirty. `ArmInv`: a scheduled slice waits for the timer, for a thread that will arm it, or for a walk that has not passed it, or was left behind |
| ArenaPurgeProofs (second part) | `OsRangesStayExact`, `RequestsFit`, `FreesFindTheBlock`, `ClassesStaySound` | About Geometry. `BlockInv`: questions are put to a finished table only, and the entry of a class holds every size of the class the loop has met (`TableInv`). `ClassInv`: also, an entry is a size of its own class (`Members`), without which nothing bounds the waste. The order of the table follows from `BinIsMonotone`, the waste from `ClassWidth` |
| ThreadHeapProofs | `QueuesStaySound`, `EmptyPagesDoNotPileUp`, `OnlyFreesEndLivesHolds` | `HeapInv`: with the agreement of the indexes, `OneCountdown`: before the first exit a page without used blocks has its countdown running, and the countdown runs on one page of a bin at most. Counting empty pages is not enough, for the fast path takes a block of a page whose countdown runs without cancelling it, and when the page empties again nothing is armed or released |
| ArenaPoolProofs | `PoolStaysSound`, `SlicesStayExact`, `UndisturbedRequestsSucceed` | `PoolInv`: what a request has in its hands at each point of alloc_slices (`Carries`), that an arena in the making is complete before others can see it (`Prepared`), metadata by owner (`Metadata`: two owners never hold the same block, what nobody holds is free, dirty blocks are free), and for a fitting request that nobody disturbed, that it is not on a way that ends in a refusal and that its own new arena is untouched until it searches it (`OnCourse`) |
| HeapLifecycleProofs | `HeapsStaySound`, `ValidBlocksKeepTheirPages` | `HeapInv`: with the exact count, that the theap being made or torn down is not registered and that a heap is deleted once (`Busy`), and that lists and pages name only theaps that are there (`Listed`). `Room` and `BlocksInPages`: a page that carries blocks is not free; a live block in a page of a first-class heap's theap is of that heap or was moved, and while a heap is torn down its own blocks are dead, so what the bulk release takes from under a live block had been moved |
| StartupProofs | `StartStaysSound`, `OptionsStaySeeded`, `ArgumentsAreFresh`, `CallbackIsGuarded` | `CellInv`: the shape of a thread's stack of cells, one initializer per cell, what each has done so far and what a published cell holds. `IdsInv`: thread numbers below `next`. `RunInv`: at most two nested runs, the outer one in the callback, the inner one before the flag |

Assumptions on the constants are those of the component's `ASSUME`, which TLC
evaluates in the run: positive sizes, a chunk of whole fields, markers outside the sets
they are told apart from; HeapLifecycle's also says that threads and blocks are
finite in number, without which a reference count means nothing. No theorem has a
hypothesis besides: where a property marks a boundary (section 3) the theorem has the
same one, for every number of size classes, every width of a field and purges at any
time.

Two facts carry much of the work. Reference counts and the heartbeat are counted
sets, so the lemmas of HeapLifecycleProofs say how one step changes the cardinality
of the references of a heap (`CountRises`, `CountFalls`, `CountTaken`). The per-thread
registry and the stacks are sequences, handled by lemmas on what pushing, popping
and unlinking return (`Pushed`, `Popped`, `Taken`; `Moved`, `RunTail`). The bin
queues are sequences from which whole sets of pages are taken at once; ThreadHeap
writes that as the kept entries numbered by their rank (`Without`), because the
provers know nothing of the recursive filter of the library, and `Filtered` shows
that it keeps the order's injectivity and exactly the other pages. All actions of
ThreadHeap but two then go through one lemma, `Relink`: pages are unlinked, at most
one page is put in front, headers change.

The proofs of ArenaPool divide its actions by what they touch: a request alone
(`LocalStep`), one run of slices (`RunStep`), or the arena being made (`MakeStep`),
with a lemma for each way metadata changes hands (`MetaTaken`, `MetaGiven`,
`MetaHandedOver`) and for a run that is claimed or returned (`RunGoesOut`,
`RunComesBack`). `UndisturbedRequestsSucceed` needs besides that the searches find
what is there: a set of numbers that is not empty has a least element, so first fit
fails only where nothing fits (`FirstFitFinds`), a new metadata chunk holds the
description of an arena (`FreshChunkServes`) and a new arena holds the run it was
made for (`OwnArenaServes`).

The proofs about Geometry need no induction over data. mi_bsr is determined by the
powers of two around its argument (`LeadingBit`), a class above eight words by its
leading bit and the two bits below it (`ClassOf`). That powers double is arithmetic
the provers do not know; it is the assumption `PowersAssumption`, which TLC evaluates
up to the word. The other assumptions are relations between the constants of
bits.rs that TLC evaluates in the run (with a largest class of 512 KiB they hold as
well): pages of 1, 8 and 64 slices have room for the header and six blocks, there are
bins enough for the largest class, alignments above a word are whole words, what mmap
maps lies below the end of the address space. A request of no bytes is covered: its block is at least as long as
the alignment because both are whole words (`WholeWordsCompare`), which is why the
pointer stays inside it.

Only model-checked: `OperationsEnd`, `RequestsEnd` and `CallsReturn`, because
liveness under fairness is outside the prover; and the four properties of PageMemory,
which uses Bitwise.

## 6. Not modelled

- Memory orderings: steps are sequentially consistent in every module.
- Statistics and tracking hooks, which nothing depends on; the wrappers in
  `api/`, which have no state (realloc is usable_size, a copy and a free).
- The system calls in `prim/`: their effect on slices is in ArenaPurge and on
  regions in Geometry. NUMA, the clock and the random source are values any of
  which may come.
- `try_find_and_clear_n_huge` and `range_try_clear` step by step: what they claim
  is in ArenaPool, and every run they claim ends in a panic.
- The disabled purge (`purge_delay < 0`), which schedules nothing; the destructors
  of thread-local state beyond the exit of a thread; initializers and callbacks
  that panic; the `no_std` variants.
- A free of a block whose page was released under it by a destroy, once a page was
  made there again (HeapLifecycle): what it does to that page is not modelled.
- `layout::good_size` and `Page::set_in_full`, which have no caller.

## 7. Plan

Done, in this order: PageOwnership with BlockStore and its proofs, SliceReuse,
ThreadHeap, ArenaPurge, ChunkBitmap, HeapLifecycle, PageMap, ArenaPool, Startup,
Geometry, PageMemory.

Proved: PageOwnership first, then SliceReuse, ChunkBitmap, PageMap, ArenaPurge,
HeapLifecycle, Startup, ThreadHeap, ArenaPool and Geometry: every safety property of
their runs.

Left to TLC: the three liveness properties and PageMemory (section 5).
