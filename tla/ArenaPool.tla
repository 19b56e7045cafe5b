----------------------------- MODULE ArenaPool -----------------------------
(***************************************************************************)
(* How the arenas of a subprocess come into being and are shared: threads  *)
(* ask Subproc::alloc_slices for runs of slices, search the registered     *)
(* arenas from a cursor on, and reserve a new arena when none has room     *)
(* (src/src/subproc.rs, src/src/arena.rs).  An arena takes its bitmaps and *)
(* its descriptor from the metadata allocator, which carves blocks out of  *)
(* chunks it maps itself and also serves the heaps                         *)
(* (src/src/arena_meta.rs).                                                *)
(*                                                                         *)
(* Atomicity: one action is one access to shared memory, one system call,  *)
(* or one critical section of the metadata lock (nothing else is touched   *)
(* inside it but fresh OS memory).  The claim of a run in an arena is one  *)
(* step here; ChunkBitmap opens it up.                                     *)
(*                                                                         *)
(* Data: an arena is named by the OS region that holds its slices; the OS  *)
(* hands out the lowest region that is not mapped, for regions are         *)
(* interchangeable.  The contents of a metadata block are the bits set in  *)
(* it, of which the free bitmap of an arena is made.                       *)
(***************************************************************************)
EXTENDS Integers, FiniteSets

CONSTANTS
  Threads,         \* the threads of the process
  Requests,        \* the run lengths asked for
  MaxArenas,       \* MAX_ARENAS, the capacity of the registry
  DefaultSlices,   \* DEFAULT_ARENA_SLICES, the least an arena has
  MaxArenaSlices,  \* the slices CHUNK_BITS chunks can track
  ChunkSlices,     \* CHUNK_BITS, the slices of a chunk of the bitmap
  MetaBlocks,      \* META_BLOCKS, the blocks of a metadata chunk
  HeaderBlocks,    \* the blocks its header takes
  NRegions,        \* bound: data regions the OS can map at a time
  NChunks,         \* bound: metadata chunks the OS can map
  MaxRequests,     \* bound: requests and heaps in all
  None             \* a null pointer

Arenas == 1..NRegions
Slices == 0..(MaxArenaSlices - 1)
Run == [arena : Arenas, first : Slices, n : Requests]

ASSUME PoolAssumption ==
  /\ Requests \subseteq Nat \ {0}
  /\ MaxArenas \in Nat \ {0} /\ DefaultSlices \in Nat \ {0}
  /\ MaxArenaSlices \in Nat /\ MaxArenaSlices >= DefaultSlices
  /\ ChunkSlices \in Nat \ {0}
  /\ MetaBlocks \in Nat /\ HeaderBlocks \in 0..MetaBlocks
  /\ NRegions \in Nat /\ NChunks \in Nat /\ MaxRequests \in Nat
  /\ None \notin Threads \cup Arenas \cup Run

\* metadata blocks are numbered through; chunk c has those from ChunkBase(c)
ChunkBase(c) == (c - 1) * MetaBlocks + 1
Blocks == 1..(NChunks * MetaBlocks)
NoBlocks == [at |-> 0, n |-> 0]

VARIABLES
  arenas,    \* Subproc::arenas
  count,     \* Subproc::arena_count
  cursor,    \* Subproc::alloc_cursor
  lock,      \* the thread in add_arena, or None
  mapped,    \* the data regions that are mapped
  desc,      \* the descriptor of each arena: slices, bitmaps, own blocks
  free,      \* the free bitmap of each arena
  nchunks,   \* metadata chunks mapped; the list runs from the newest down
  metaFree,  \* free blocks of the metadata chunks
  dirty,     \* metadata blocks that are not all zero
  client,    \* metadata held for a first-class heap
  pc,        \* where each thread is in alloc_slices
  op,        \* the local variables of its request
  held,      \* the runs in the hands of the program
  requests,  \* requests and heaps begun so far
  quiet      \* history: the requests nothing has disturbed so far

pool == <<arenas, count, cursor, lock>>
meta == <<nchunks, metaFree, dirty>>
vars == <<pool, mapped, desc, free, meta, client, pc, op, held, requests,
          quiet>>

Pcs == {"idle", "cursor", "search", "commit", "hint", "reserve", "zallocBm",
        "zallocDesc", "lock", "add", "publish", "fresh",
        "freshCommit", "freshHint", "dropRegion", "dropBm", "dropDesc",
        "failed", "panicked"}
MetaRef == [at : Blocks, n : 1..MetaBlocks] \cup {NoBlocks}

\* n: the length asked for; cnt: the arena count read; start, k: where the
\* search began and how many arenas it tried; new: the arena being made or
\* claimed from; bm, dsc: metadata for it; run: claimed, not yet committed
NoOp == [n |-> 0, cnt |-> 0, start |-> 0, k |-> 0, new |-> None,
         bm |-> NoBlocks, dsc |-> NoBlocks, run |-> None]
NoArena == [n |-> 0, bm |-> NoBlocks, own |-> NoBlocks]

TypeOK ==
  /\ arenas \in [0..(MaxArenas - 1) -> Arenas \cup {None}]
  /\ count \in 0..MaxArenas /\ cursor \in 0..(MaxArenas - 1)
  /\ lock \in Threads \cup {None}
  /\ mapped \subseteq Arenas
  /\ desc \in [Arenas -> [n : 0..MaxArenaSlices, bm : MetaRef, own : MetaRef]]
  /\ free \in [Arenas -> SUBSET Slices]
  /\ nchunks \in 0..NChunks /\ metaFree \subseteq Blocks
  /\ dirty \subseteq Blocks /\ client \in MetaRef
  /\ pc \in [Threads -> Pcs]
  /\ \A t \in Threads :
       /\ op[t].n \in Requests \cup {0} /\ op[t].cnt \in 0..MaxArenas
       /\ op[t].new \in Arenas \cup {None} /\ op[t].run \in Run \cup {None}
       /\ op[t].bm \in MetaRef /\ op[t].dsc \in MetaRef
       /\ pc[t] = "search" => op[t].k < op[t].cnt
  /\ held \subseteq Run
  /\ requests \in 0..MaxRequests /\ quiet \subseteq Threads

Init ==
  /\ arenas = [i \in 0..(MaxArenas - 1) |-> None]
  /\ count = 0 /\ cursor = 0 /\ lock = None
  /\ mapped = {} /\ desc = [a \in Arenas |-> NoArena]
  /\ free = [a \in Arenas |-> {}]
  /\ nchunks = 0 /\ metaFree = {} /\ dirty = {} /\ client = NoBlocks
  /\ pc = [t \in Threads |-> "idle"] /\ op = [t \in Threads |-> NoOp]
  /\ held = {} /\ requests = 0 /\ quiet = {}

Goto(t, where) == pc' = [pc EXCEPT ![t] = where]
Return(t) == Goto(t, "idle") /\ op' = [op EXCEPT ![t] = NoOp]

-----------------------------------------------------------------------------
(***************************************************************************)
(* The metadata allocator.  Chunks are searched from the head of the list, *)
(* which is the newest, and each of them for its first free run.           *)
(***************************************************************************)
Span(r) == r.at..(r.at + r.n - 1)

\* a chunk's data blocks, free when push_new_chunk has made it
DataBlocks(c) == (ChunkBase(c) + HeaderBlocks)..(ChunkBase(c) + MetaBlocks - 1)

RunsOfChunk(n, c, avail) ==
  {r \in [at : DataBlocks(c), n : {n}] :
     /\ r.at + n <= ChunkBase(c) + MetaBlocks
     /\ Span(r) \subseteq avail}

\* try_find_and_clear_n on each chunk in turn
FirstFit(n, chunks, avail) ==
  LET serving == {c \in chunks : RunsOfChunk(n, c, avail) # {}}
      c == CHOOSE x \in serving : \A y \in serving : x >= y
  IN  IF serving = {} THEN NoBlocks
      ELSE CHOOSE r \in RunsOfChunk(n, c, avail) :
             \A s \in RunsOfChunk(n, c, avail) : r.at <= s.at

Recycled(n) == FirstFit(n, 1..nchunks, metaFree)
Grown(n) == FirstFit(n, {nchunks + 1}, DataBlocks(nchunks + 1))

\* mutant: a recycled run is handed out as it is
MetaReuse_Unzeroed(n, r) ==
  /\ r = Recycled(n) /\ r # NoBlocks
  /\ metaFree' = metaFree \ Span(r)
  /\ UNCHANGED <<nchunks, dirty>>

(***************************************************************************)
(* meta_zalloc of n blocks, with the outcome r (NoBlocks if it fails): a   *)
(* run of a chunk on the list, which is zeroed; a run of a chunk that is   *)
(* pushed for it, zero as the OS made it (the chunk stays on the list even *)
(* if it is too small for the request); or the OS refuses the chunk.       *)
(***************************************************************************)
MetaReuse(n, r) ==
  /\ r = Recycled(n) /\ r # NoBlocks
  /\ metaFree' = metaFree \ Span(r)
  /\ dirty' = dirty \ Span(r)
  /\ UNCHANGED nchunks

MetaGrow(n, r) ==
  /\ n <= MetaBlocks /\ Recycled(n) = NoBlocks
  /\ nchunks < NChunks
  /\ nchunks' = nchunks + 1
  /\ r = Grown(n)
  /\ metaFree' = metaFree \cup (DataBlocks(nchunks + 1) \ Span(r))
  /\ UNCHANGED dirty

MetaRefused(n, r) ==
  /\ Recycled(n) = NoBlocks
  /\ r = NoBlocks
  /\ UNCHANGED meta

meta_zalloc(n, r) == MetaReuse(n, r) \/ MetaGrow(n, r) \/ MetaRefused(n, r)
Outcomes(n) == {Recycled(n), Grown(n), NoBlocks}

\* meta_free: the bits of the run are set in its chunk; the blocks keep what
\* was written to them
meta_free(r) ==
  /\ metaFree' = metaFree \cup Span(r)
  /\ dirty' = dirty \cup Span(r)
  /\ UNCHANGED nchunks

-----------------------------------------------------------------------------
(***************************************************************************)
(* Arena::alloc_slices: claim a free run of the arena, then commit it.     *)
(***************************************************************************)
RunSet(r) == r.first..(r.first + r.n - 1)
InOneChunk(r) == r.first \div ChunkSlices = (r.first + r.n - 1) \div ChunkSlices

\* find_and_clear_n for a run that fits a chunk, which looks inside chunks
\* only, and try_find_and_clear_n_huge for a longer one
RunsIn(a, n) ==
  {r \in [arena : {a}, first : free[a], n : {n}] :
     RunSet(r) \subseteq free[a] /\ (n <= ChunkSlices => InOneChunk(r))}

Claim(t, r) ==
  /\ free' = [free EXCEPT ![r.arena] = @ \ RunSet(r)]
  /\ op' = [op EXCEPT ![t].run = r]
  /\ quiet' = quiet \cap {t}

(***************************************************************************)
(* Subproc::alloc_slices.  The search: the count, then the cursor, then    *)
(* one registry entry after the other.                                     *)
(***************************************************************************)
Request(t, n) ==
  /\ pc[t] = "idle"
  /\ requests < MaxRequests
  /\ requests' = requests + 1
  /\ op' = [op EXCEPT ![t].n = n, ![t].cnt = count]
  /\ quiet' = quiet \cup {t}
  /\ Goto(t, IF count > 0 THEN "cursor" ELSE "reserve")
  /\ UNCHANGED <<pool, mapped, desc, free, meta, client, held>>

LoadCursor(t) ==
  /\ pc[t] = "cursor"
  /\ op' = [op EXCEPT ![t].start = cursor % op[t].cnt]
  /\ Goto(t, "search")
  /\ UNCHANGED <<pool, mapped, desc, free, meta, client, held, requests, quiet>>

Index(t) == (op[t].start + op[t].k) % op[t].cnt

\* mutant: the search wraps around for ever
NextArena_Wraps(t) ==
  /\ op' = [op EXCEPT ![t].k = (@ + 1) % op[t].cnt, ![t].run = None]
  /\ Goto(t, "search")

\* the arena looked at has no room, or could not commit it: the next one
NextArena(t) ==
  /\ op' = [op EXCEPT ![t].k = @ + 1, ![t].run = None]
  /\ Goto(t, IF op[t].k + 1 < op[t].cnt THEN "search" ELSE "reserve")

Search(t) ==
  /\ pc[t] = "search"
  /\ LET a == arenas[Index(t)] IN
       \/ /\ a # None
          /\ \E r \in RunsIn(a, op[t].n) : Claim(t, r)
          /\ Goto(t, "commit")
       \/ /\ a = None \/ RunsIn(a, op[t].n) = {}
          /\ NextArena(t)
          /\ UNCHANGED <<free, quiet>>
  /\ UNCHANGED <<pool, mapped, desc, meta, client, held, requests>>

\* ensure_committed; a hit away from the cursor has to move it
Commit(t) ==
  /\ pc[t] \in {"commit", "freshCommit"}
  /\ InOneChunk(op[t].run)
  /\ held' = held \cup {op[t].run}
  /\ \/ /\ pc[t] = "commit" /\ op[t].k = 0
        /\ Return(t)
     \/ /\ pc[t] = "freshCommit" \/ op[t].k # 0
        /\ op' = [op EXCEPT ![t].run = None]
        /\ Goto(t, IF pc[t] = "commit" THEN "hint" ELSE "freshHint")
  /\ UNCHANGED <<pool, mapped, desc, free, meta, client, requests, quiet>>

\* the OS refuses to commit: the run goes back and the search goes on, but a
\* fresh arena is not tried again
CommitFails(t) ==
  /\ pc[t] \in {"commit", "freshCommit"}
  /\ InOneChunk(op[t].run)
  /\ free' = [free EXCEPT ![op[t].run.arena] = @ \cup RunSet(op[t].run)]
  /\ quiet' = quiet \ {t}
  /\ \/ pc[t] = "commit" /\ NextArena(t)
     \/ /\ pc[t] = "freshCommit"
        /\ op' = [op EXCEPT ![t].run = None]
        /\ Goto(t, "failed")
  /\ UNCHANGED <<pool, mapped, desc, meta, client, held, requests>>

\* A run across chunks cannot be marked: set_n on the commit bitmap after the
\* commit, or on the free bitmap after a commit the OS refused, runs past the
\* fields of its first chunk.  The run stays claimed.
Panic(t) ==
  /\ pc[t] \in {"commit", "freshCommit"}
  /\ ~InOneChunk(op[t].run)
  /\ Goto(t, "panicked")
  /\ UNCHANGED <<pool, mapped, desc, free, meta, client, op, held, requests,
                 quiet>>

\* alloc_cursor is a hint: the count it is taken from and the store are one
\* step, for the cursor only says where a search begins
Hint(t) ==
  /\ pc[t] \in {"hint", "freshHint"}
  /\ cursor' = IF pc[t] = "hint" THEN Index(t) ELSE count - 1
  /\ Return(t)
  /\ UNCHANGED <<arenas, count, lock, mapped, desc, free, meta, client, held,
                 requests, quiet>>

-----------------------------------------------------------------------------
(***************************************************************************)
(* reserve_arena and Arena::create: the data region, metadata for the      *)
(* bitmaps, metadata for the descriptor; when one cannot be had, those     *)
(* before it are given back.                                               *)
(***************************************************************************)
\* mutant: a new arena has the default size whatever is asked for
ReserveSize_Default(n) == DefaultSlices
ReserveSize(n) == IF n > DefaultSlices THEN n ELSE DefaultSlices

\* hot_bitmap_bytes in blocks: the chunkmap and the chunks of a bitmap (the
\* four bitmaps lie side by side and are one here)
BitmapBlocks(n) == 1 + (n + ChunkSlices - 1) \div ChunkSlices

Reserve(t) ==
  /\ pc[t] = "reserve"
  /\ ReserveSize(op[t].n) <= MaxArenaSlices
  /\ mapped # Arenas
  /\ LET a == CHOOSE x \in Arenas \ mapped : \A y \in Arenas \ mapped : x <= y
     IN  /\ mapped' = mapped \cup {a}
         /\ op' = [op EXCEPT ![t].new = a]
         /\ desc' = [desc EXCEPT ![a].n = ReserveSize(op[t].n)]
  /\ Goto(t, "zallocBm")
  /\ UNCHANGED <<pool, free, meta, client, held, requests, quiet>>

\* more chunks than a chunkmap tracks, or no memory from the OS
ReserveFails(t) ==
  /\ pc[t] = "reserve"
  /\ quiet' = IF ReserveSize(op[t].n) > MaxArenaSlices THEN quiet
              ELSE quiet \ {t}
  /\ Goto(t, "failed")
  /\ UNCHANGED <<pool, mapped, desc, free, meta, client, op, held, requests>>

ZallocBm(t) ==
  /\ pc[t] = "zallocBm"
  /\ LET n == BitmapBlocks(desc[op[t].new].n) IN
     \E r \in Outcomes(n) :
       /\ meta_zalloc(n, r)
       /\ op' = [op EXCEPT ![t].bm = r]
       /\ Goto(t, IF r = NoBlocks THEN "dropRegion" ELSE "zallocDesc")
       /\ quiet' = IF r = NoBlocks /\ nchunks' = nchunks /\ n <= MetaBlocks
                   THEN quiet \ {t} ELSE quiet
  /\ UNCHANGED <<pool, mapped, desc, free, client, held, requests>>

\* The descriptor.  When its block is there, it is written and the free bits
\* are set, on top of whatever the metadata of the bitmaps holds.
ZallocDesc(t) ==
  /\ pc[t] = "zallocDesc"
  /\ \E r \in Outcomes(1) :
       /\ MetaReuse(1, r) \/ MetaGrow(1, r)
       /\ r # NoBlocks
       /\ op' = [op EXCEPT ![t].dsc = r]
       /\ desc' = [desc EXCEPT ![op[t].new].bm = op[t].bm,
                              ![op[t].new].own = r]
  /\ free' = [free EXCEPT ![op[t].new] =
                IF Span(op[t].bm) \cap dirty = {}
                THEN 0..(desc[op[t].new].n - 1) ELSE Slices]
  /\ Goto(t, "lock")
  /\ UNCHANGED <<pool, mapped, client, held, requests, quiet>>

ZallocDescFails(t) ==
  /\ pc[t] = "zallocDesc"
  /\ MetaRefused(1, NoBlocks)
  /\ quiet' = quiet \ {t}
  /\ Goto(t, "dropRegion")
  /\ UNCHANGED <<pool, mapped, desc, free, client, op, held, requests>>

-----------------------------------------------------------------------------
(***************************************************************************)
(* add_arena, under the lock: the entry first, then the count that makes   *)
(* it visible.  A full registry sends the arena back (Arena::destroy).     *)
(***************************************************************************)
others == <<mapped, desc, free, meta, client, held, requests>>

\* mutant: the lock is taken whether it is free or not
Lock_Always(t) ==
  /\ pc[t] = "lock"
  /\ lock' = t
  /\ Goto(t, "add")
  /\ UNCHANGED <<arenas, count, cursor, others, op, quiet>>

Lock(t) ==
  /\ pc[t] = "lock"
  /\ lock = None
  /\ lock' = t
  /\ Goto(t, "add")
  /\ UNCHANGED <<arenas, count, cursor, others, op, quiet>>

Add(t) ==
  /\ pc[t] = "add"
  /\ count < MaxArenas
  /\ arenas' = [arenas EXCEPT ![count] = op[t].new]
  /\ Goto(t, "publish")
  /\ UNCHANGED <<count, cursor, lock, others, op, quiet>>

Publish(t) ==
  /\ pc[t] = "publish"
  /\ count' = count + 1
  /\ lock' = None
  /\ op' = [op EXCEPT ![t].bm = NoBlocks, ![t].dsc = NoBlocks]
  /\ Goto(t, "fresh")
  /\ UNCHANGED <<arenas, cursor, others, quiet>>

AddFull(t) ==
  /\ pc[t] = "add"
  /\ count >= MaxArenas
  /\ lock' = None
  /\ quiet' = quiet \ {t}
  /\ Goto(t, "dropRegion")
  /\ UNCHANGED <<arenas, count, cursor, others, op>>

\* allocate from the arena that was just made, if others have left enough
Fresh(t) ==
  /\ pc[t] = "fresh"
  /\ \/ /\ \E r \in RunsIn(op[t].new, op[t].n) : Claim(t, r)
        /\ Goto(t, "freshCommit")
     \/ /\ RunsIn(op[t].new, op[t].n) = {}
        /\ Goto(t, "failed")
        /\ UNCHANGED <<free, op, quiet>>
  /\ UNCHANGED <<pool, mapped, desc, meta, client, held, requests>>

(***************************************************************************)
(* The ways back: Arena::destroy, and the rollbacks of Arena::create.      *)
(***************************************************************************)
DropRegion(t) ==
  /\ pc[t] = "dropRegion"
  /\ mapped' = mapped \ {op[t].new}
  /\ desc' = [desc EXCEPT ![op[t].new] = NoArena]
  /\ free' = [free EXCEPT ![op[t].new] = {}]
  /\ Goto(t, IF op[t].bm = NoBlocks THEN "failed" ELSE "dropBm")
  /\ UNCHANGED <<pool, meta, client, op, held, requests, quiet>>

DropBm(t) ==
  /\ pc[t] = "dropBm"
  /\ meta_free(op[t].bm)
  /\ op' = [op EXCEPT ![t].bm = NoBlocks]
  /\ Goto(t, IF op[t].dsc = NoBlocks THEN "failed" ELSE "dropDesc")
  /\ UNCHANGED <<pool, mapped, desc, free, client, held, requests, quiet>>

DropDesc(t) ==
  /\ pc[t] = "dropDesc"
  /\ meta_free(op[t].dsc)
  /\ op' = [op EXCEPT ![t].dsc = NoBlocks]
  /\ Goto(t, "failed")
  /\ UNCHANGED <<pool, mapped, desc, free, client, held, requests, quiet>>

\* alloc_slices returns None
Fail(t) ==
  /\ pc[t] = "failed"
  /\ Return(t)
  /\ UNCHANGED <<pool, others, quiet>>

-----------------------------------------------------------------------------
(***************************************************************************)
(* Around the requests: runs come back, and a first-class heap takes and   *)
(* returns metadata, which it leaves full of its own data.                 *)
(***************************************************************************)
free_slices(t, r) ==
  /\ pc[t] = "idle"
  /\ r \in held
  /\ held' = held \ {r}
  /\ free' = [free EXCEPT ![r.arena] = @ \cup RunSet(r)]
  /\ UNCHANGED <<pool, mapped, desc, meta, client, pc, op, requests, quiet>>

NewHeap(t) ==
  /\ pc[t] = "idle" /\ client = NoBlocks
  /\ requests < MaxRequests
  /\ requests' = requests + 1
  /\ \E r \in Outcomes(1) \ {NoBlocks} :
       /\ MetaReuse(1, r) \/ MetaGrow(1, r)
       /\ client' = r
  /\ UNCHANGED <<pool, mapped, desc, free, pc, op, held, quiet>>

FreeHeap(t) ==
  /\ pc[t] = "idle" /\ client # NoBlocks
  /\ meta_free(client)
  /\ client' = NoBlocks
  /\ UNCHANGED <<pool, mapped, desc, free, pc, op, held, requests,
                 quiet>>

-----------------------------------------------------------------------------
Step(t) ==
  \/ LoadCursor(t) \/ Search(t) \/ Commit(t) \/ CommitFails(t) \/ Panic(t)
  \/ Hint(t)
  \/ Reserve(t) \/ ReserveFails(t) \/ ZallocBm(t) \/ ZallocDesc(t)
  \/ ZallocDescFails(t)
  \/ Lock(t) \/ Add(t) \/ Publish(t) \/ AddFull(t) \/ Fresh(t)
  \/ DropRegion(t) \/ DropBm(t) \/ DropDesc(t) \/ Fail(t)

Begin(t) ==
  \/ \E n \in Requests : Request(t, n)
  \/ \E r \in held : free_slices(t, r)
  \/ NewHeap(t) \/ FreeHeap(t)

Next == \E t \in Threads : Begin(t) \/ Step(t)

Spec == Init /\ [][Next]_vars

\* While a request is under way, some thread with one is scheduled.  A thread
\* waits for others only at the lock of add_arena, whose critical section has
\* no wait in it.
Fairness == WF_vars(\E t \in Threads : Step(t))
FairSpec == Spec /\ Fairness

-----------------------------------------------------------------------------
(***************************************************************************)
(* Properties.                                                             *)
(***************************************************************************)
Registered == {arenas[i] : i \in 0..(count - 1)}
Making(t) == pc[t] \in {"zallocBm", "zallocDesc", "lock", "add",
                        "publish", "dropRegion"}
InMaking == {t \in Threads : Making(t)}

\* A region that was mapped for an arena is a registered arena or in the
\* hands of the one thread that is making it: the rollbacks of Arena::create
\* and the destroy of an arena that found the registry full lose none, and
\* two threads in add_arena never overwrite each other's entry.
RegionsAreAccountedFor ==
  /\ mapped = Registered \cup {op[t].new : t \in InMaking}
  /\ \A i, j \in 0..(count - 1) : arenas[i] = arenas[j] => i = j
  /\ \A t \in InMaking : /\ op[t].new \notin Registered
                         /\ \A u \in InMaking : op[u].new = op[t].new => u = t

\* Every metadata block is free or has exactly one owner: a registered arena
\* (bitmaps and descriptor), a thread in Arena::create or destroy, a heap, or
\* a chunk header.  In particular no error path of create leaks one.
MetaRefs(t) == {op[t].bm, op[t].dsc}
MetaIsAccountedFor ==
  LET refs == ((UNION {MetaRefs(t) : t \in Threads}) \cup {client}
                \cup UNION {{desc[a].bm, desc[a].own} : a \in Registered})
                \ {NoBlocks}
  IN  /\ (UNION {Span(r) : r \in refs}) \cup metaFree
           = UNION {DataBlocks(c) : c \in 1..nchunks}
      /\ \A r \in refs : Span(r) \cap metaFree = {}
      /\ \A r, s \in refs : Span(r) \cap Span(s) # {} => r = s

\* A slice of a registered arena is free, or claimed by one thread, or in one
\* run handed out; and the bitmap of an arena shows no slice it does not
\* have, whatever the metadata was used for before.
Claimed == {op[t].run : t \in {u \in Threads : op[u].run # None}}
SlicesAreExact ==
  \A a \in Registered :
    LET out == {r \in held \cup Claimed : r.arena = a} IN
      /\ free[a] \cup UNION {RunSet(r) : r \in out} = 0..(desc[a].n - 1)
      /\ \A r \in out : RunSet(r) \cap free[a] = {}
      /\ \A r, s \in out : RunSet(r) \cap RunSet(s) # {} => r = s
      /\ \A t, u \in Threads : op[t].run # None /\ op[t].run = op[u].run => t = u
      /\ held \cap Claimed = {}

\* owns_address, the test for a foreign pointer, recognises every address the
\* program holds: its arena is in the registry below the count.
owns_address(a) == \E i \in 0..(count - 1) : arenas[i] = a
HandedOutIsOwned == \A r \in held : owns_address(r.arena)

\* A request that can be met is met: alloc_slices gives up only if the OS
\* refused something, the registry was full, or another thread claimed
\* slices while the request was under way.
FitsAnArena(n) == /\ ReserveSize(n) <= MaxArenaSlices
                  /\ BitmapBlocks(ReserveSize(n)) <= MetaBlocks - HeaderBlocks
                  /\ n <= MaxArenaSlices
UndisturbedRequestSucceeds ==
  \A t \in Threads : pc[t] = "failed" /\ FitsAnArena(op[t].n) => t \notin quiet

\* Every request comes to an end, also the ones that find the registry full,
\* the lock taken, the OS unwilling, or another thread that panicked.
RequestsEnd == []<>(\A t \in Threads : pc[t] \in {"idle", "panicked"})

\* What the assertion in Bitmap::set_n says of its callers: the range stays
\* within a chunk, so that no allocation ends in a panic.
NeverPanics == \A t \in Threads : pc[t] # "panicked"

\* Whatever create, its rollbacks and add_arena on several threads do, each
\* region and each metadata block has one owner, and what the program holds
\* is recognised as the allocator's.
PoolIsSound ==
  /\ TypeOK
  /\ RegionsAreAccountedFor
  /\ MetaIsAccountedFor
  /\ HandedOutIsOwned

=============================================================================
