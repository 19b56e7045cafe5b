------------------------------ MODULE Geometry ------------------------------
(***************************************************************************)
(* The arithmetic of mimalloc-rs: size classes (src/src/bits.rs,           *)
(* src/src/heap.rs), alignment (src/src/layout.rs), the layout of a page   *)
(* (src/src/page.rs) and of the regions taken from the OS (src/src/os.rs). *)
(*                                                                         *)
(* The table BIN_SIZES is built by a loop over every word size, as the     *)
(* compiler evaluates it; then questions are put to the finished table:    *)
(* an aligned allocation and the free of the pointer it returns, an        *)
(* aligned region from the OS, a purge of a part of one.  `ans` holds the  *)
(* last question with its answer.                                          *)
(*                                                                         *)
(* Integers: usize has WordBits bits, and a sum wraps where the code does  *)
(* not check it (a release build).                                         *)
(*                                                                         *)
(* The names of the specification differ from those of ArenaPurge, so that *)
(* one module of proofs can extend both.                                   *)
(***************************************************************************)
EXTENDS Integers

CONSTANTS
  WordBits,       \* bits of a usize
  IntptrSize,     \* MI_INTPTR_SIZE
  MaxAlignSize,   \* MI_MAX_ALIGN_SIZE
  SliceSize,      \* MI_ARENA_SLICE_SIZE
  SmallMaxObj,    \* MI_SMALL_MAX_OBJ_SIZE
  MediumMaxObj,   \* MI_MEDIUM_MAX_OBJ_SIZE
  LargeMaxObj,    \* MI_LARGE_MAX_OBJ_SIZE
  BinHuge,        \* MI_BIN_HUGE
  HeaderSize,     \* size_of::<Page>()
  OsPage,         \* the page size of the OS
  PageBase,       \* where the page at hand begins
  HugeSizes,      \* requests above the largest class to try
  Indices,        \* blocks of a page to serve
  Aligns,         \* alignments to try
  OsSizes,        \* sizes to ask the OS for
  OsBases         \* addresses mmap may answer with

ASSUME GeometryAssumption ==
  /\ LargeMaxObj % IntptrSize = 0
  /\ PageBase % SliceSize = 0
  /\ \A b \in OsBases : b % OsPage = 0

(***************************************************************************)
(* What mmap maps lies in the address space: neither the last address of a *)
(* region, nor a sum that rounds it up, wraps.                             *)
(***************************************************************************)
ASSUME RegionsAssumption ==
  /\ 2^WordBits \in Nat /\ OsPage \in Nat \ {0} /\ Aligns \subseteq Nat \ {0}
  /\ OsSizes \subseteq Nat /\ OsBases \subseteq Nat
  /\ \A size \in OsSizes, base \in OsBases, al \in Aligns \cup {OsPage} :
       base + size + OsPage + al <= 2^WordBits

(***************************************************************************)
(* The page at hand lies in the address space with its header in its first *)
(* slice; alignments above a word are made of whole words.                 *)
(***************************************************************************)
ASSUME LayoutAssumption ==
  /\ WordBits \in Nat /\ IntptrSize \in Nat \ {0, 1} /\ MaxAlignSize \in Nat \ {0}
  /\ MaxAlignSize % IntptrSize = 0
  /\ LargeMaxObj \in Nat /\ LargeMaxObj >= 8 * IntptrSize
  /\ HugeSizes \subseteq Nat /\ Indices \subseteq Nat
  /\ \A al \in Aligns : al > IntptrSize => al % IntptrSize = 0
  /\ HeaderSize \in Nat /\ SliceSize \in Nat /\ PageBase \in Nat /\ BinHuge \in Nat
  /\ HeaderSize + 2 * MaxAlignSize <= SliceSize
  /\ \A al \in Aligns \cup {MaxAlignSize} : PageBase + 64 * SliceSize + al <= 2^WordBits

VARIABLES
  w,      \* the loop counter of BIN_SIZES
  table,  \* BIN_SIZES so far
  ans     \* the last question and its answer

geometryVars == <<w, table, ans>>

Usize == 2^WordBits
LargeMaxWSize == LargeMaxObj \div IntptrSize
Bins == 1..(BinHuge + 1)
NoAnswer == [kind |-> "none"]
\* the table is complete and no question is open
Built == w > LargeMaxWSize /\ ans = NoAnswer

-----------------------------------------------------------------------------
(***************************************************************************)
(* Bits and alignment.                                                     *)
(***************************************************************************)
\* MI_SIZE_BITS - 1 - mi_clz(x), for x > 0
mi_bsr(x) == CHOOSE b \in 0..(WordBits - 1) : 2^b <= x /\ x < 2^(b + 1)

\* layout::align_up: sz + mask wraps before it is rounded down.
align_up(sz, a) == (((sz + a - 1) % Usize) \div a) * a
align_down(sz, a) == (sz \div a) * a
is_aligned(addr, a) == addr % a = 0

(***************************************************************************)
(* Size classes.                                                           *)
(***************************************************************************)
wsize_from_size(size) == (size + IntptrSize - 1) \div IntptrSize

\* mutant: one bit too many stays below the leading one
bin_Shift(size) ==
  LET ws == wsize_from_size(size)
      b  == mi_bsr(ws - 1)
  IN  IF ws <= 8 THEN IF ws <= 1 THEN 1 ELSE ((ws + 1) \div 2) * 2
      ELSE IF ws > LargeMaxWSize THEN BinHuge
      ELSE 4 * b + (((ws - 1) \div 2^(b - 3)) % 4) - 3
bin(size) ==
  LET ws == wsize_from_size(size)
      b  == mi_bsr(ws - 1)
  IN  IF ws <= 8 THEN IF ws <= 1 THEN 1 ELSE ((ws + 1) \div 2) * 2
      ELSE IF ws > LargeMaxWSize THEN BinHuge
      ELSE 4 * b + (((ws - 1) \div 2^(b - 2)) % 4) - 3

\* There are classes enough: the one of MI_BIN_HUGE is left to huge blocks.
ASSUME BinsAssumption ==
  \A ws \in 1..LargeMaxWSize : bin(ws * IntptrSize) \in 1..(BinHuge - 1)

\* The small classes are no coarser than MI_MAX_ALIGN_SIZE, and MI_*_MAX_OBJ_SIZE
\* are chosen for six blocks in a page of 1, 8 and 64 slices.
ASSUME ClassesAssumption ==
  /\ MaxAlignSize >= 2 * IntptrSize
  /\ SmallMaxObj \in Nat /\ MediumMaxObj \in Nat
  /\ LET header == HeaderSize + 2 * MaxAlignSize
     IN  /\ 6 * SmallMaxObj + header <= SliceSize
         /\ 6 * MediumMaxObj + header <= 8 * SliceSize
         /\ 6 * LargeMaxObj + header <= 64 * SliceSize

\* Powers double, which is arithmetic but not known to the provers.
ASSUME PowersAssumption ==
  \A b \in 0..(WordBits - 1) : 2^b \in Nat /\ 2^(b + 1) = 2 * 2^b

GeometryInit ==
  /\ w = 1
  /\ table = [b \in Bins |-> 0]
  /\ ans = NoAnswer

\* One round of the loop of BIN_SIZES.
Build ==
  /\ w <= LargeMaxWSize
  /\ LET sz == w * IntptrSize
         b  == bin(sz)
     IN  table' = IF b < BinHuge /\ sz > table[b]
                  THEN [table EXCEPT ![b] = sz] ELSE table
  /\ w' = w + 1
  /\ UNCHANGED ans

AtLeast(size) == IF size < IntptrSize THEN IntptrSize ELSE size

\* heap::good_size
good_size(size) ==
  LET b == bin(AtLeast(size))
  IN  IF b >= BinHuge THEN align_up(AtLeast(size), SliceSize) ELSE table[b]

page_slices_for(bs) ==
  IF bs <= SmallMaxObj THEN 1 ELSE IF bs <= MediumMaxObj THEN 8 ELSE 64

-----------------------------------------------------------------------------
(***************************************************************************)
(* The page that serves a request of `total` bytes.  Page::init puts the   *)
(* header at the start of the first slice; a huge page has its header      *)
(* elsewhere and one block, at the start of the slices.                    *)
(***************************************************************************)
StartOffset == align_up(align_up(HeaderSize, MaxAlignSize), MaxAlignSize)

ClassPage(total) ==
  LET bs == table[bin(AtLeast(total))]
      n  == page_slices_for(bs)
  IN  [start |-> PageBase + StartOffset, bs |-> bs, slices |-> n,
       reserved |-> (n * SliceSize - StartOffset) \div bs]

HugePage(total) ==
  LET bs == align_up(AtLeast(total), MaxAlignSize)
  IN  [start |-> PageBase, bs |-> bs,
       slices |-> align_up(bs, SliceSize) \div SliceSize, reserved |-> 1]

PageFor(total) ==
  IF bin(AtLeast(total)) >= BinHuge THEN HugePage(total) ELSE ClassPage(total)

\* heap::recover_block_start, from the page's start and block size.
recover_block_start(pg, ptr) ==
  pg.start + ((ptr - pg.start) \div pg.bs) * pg.bs
usable_size(pg, ptr) == pg.bs - ((ptr - pg.start) % pg.bs)

\* mutant: nothing is added for the alignment
Total_Bare(size, align) == size
\* alloc_aligned over-allocates; the sum is checked.
Total(size, align) == IF align <= IntptrSize THEN size ELSE size + align - 1

\* try_find_and_clear_n refuses a run of no slices, which is what a size
\* that wrapped comes to.
\* mutant: it does not
Refuses_Never(pg) == FALSE
Refuses(pg) == pg.slices = 0

Aligned(p, align) == IF align <= IntptrSize THEN p ELSE align_up(p, align)

Around(n) == {n - 1, n, n + 1}
Sizes == (UNION {Around(table[b]) : b \in 1..(BinHuge - 1)}) \cup HugeSizes

\* ThreadHeap::alloc_aligned, served by block i of the page.
AllocAligned(size, align, i) ==
  LET pg == PageFor(Total(size, align))
      p  == pg.start + i * pg.bs
  IN  /\ size >= 0
      /\ Total(size, align) < Usize
      /\ ~Refuses(pg)
      /\ i < pg.reserved
      /\ ans' = [kind |-> "block", size |-> size, align |-> align, page |-> pg,
                 at |-> p, ptr |-> Aligned(p, align)]
      /\ UNCHANGED <<w, table>>

\* alloc_aligned refuses: the sum overflows, or the size wrapped to nothing.
AllocRefused(size, align) ==
  /\ size >= 0
  /\ Total(size, align) >= Usize \/ Refuses(PageFor(Total(size, align)))
  /\ ans' = [kind |-> "refused", size |-> size, align |-> align]
  /\ UNCHANGED <<w, table>>

-----------------------------------------------------------------------------
(***************************************************************************)
(* Regions of the OS.  mmap answers with any page-aligned address; a       *)
(* direct mapping that is not aligned is given back, and one that is       *)
(* larger by the alignment is trimmed at both ends.                        *)
(***************************************************************************)
TryDirect(size, al) == al <= OsPage \/ al <= size \div 4

\* mutant: the tail is cut as if the head had not been
Trimmed_Tail(base, size, al) ==
  LET at == align_up(base, al)
  IN  [at |-> at, pre |-> at - base, post |-> al]
Trimmed(base, size, al) ==
  LET at == align_up(base, al)
  IN  [at |-> at, pre |-> at - base, post |-> size + al - (at - base) - size]

\* os::alloc_aligned when the direct mapping will do.
OsDirect(size, al, base) ==
  LET sz == align_up(size, OsPage)
  IN  /\ TryDirect(sz, al) /\ is_aligned(base, al)
      /\ ans' = [kind |-> "region", size |-> size, align |-> al, at |-> base,
                 len |-> sz, mapped |-> [from |-> base, to |-> base + sz]]
      /\ UNCHANGED <<w, table>>

\* os::alloc_aligned, over-allocated and trimmed: what stays mapped.
OsTrim(size, al, base) ==
  LET sz == align_up(size, OsPage)
      t  == Trimmed(base, sz, al)
  IN  /\ sz < Usize - 1 - al
      /\ ans' = [kind |-> "region", size |-> size, align |-> al, at |-> t.at,
                 len |-> sz,
                 mapped |-> [from |-> base + t.pre,
                             to   |-> base + sz + al - t.post]]
      /\ UNCHANGED <<w, table>>

\* page_align_conservative: from up, to down; nothing when they cross.
Conservative(addr, size) ==
  [from |-> align_up(addr, OsPage), to |-> align_down(addr + size, OsPage)]

\* commit, decommit and reset go to the pages that lie wholly inside.
OsTouch(addr, size) ==
  LET r == Conservative(addr, size)
  IN  /\ r.from < r.to
      /\ ans' = [kind |-> "purge", addr |-> addr, size |-> size, range |-> r]
      /\ UNCHANGED <<w, table>>

\* The caller has its answer, and goes on to the next question.
Answered ==
  /\ ans # NoAnswer
  /\ ans' = NoAnswer
  /\ UNCHANGED <<w, table>>

GeometryNext ==
  \/ Build
  \/ Answered
  \/ /\ Built
     /\ \E size \in Sizes, align \in Aligns :
          \/ \E i \in Indices : AllocAligned(size, align, i)
          \/ AllocRefused(size, align)
  \/ /\ Built
     /\ \E size \in OsSizes, base \in OsBases :
          \/ \E al \in {a \in Aligns : a >= OsPage} :
               OsDirect(size, al, base) \/ OsTrim(size, al, base)
          \/ \E d \in {0, 1, OsPage - 1} : OsTouch(base + d, size)

GeometrySpec == GeometryInit /\ [][GeometryNext]_geometryVars

-----------------------------------------------------------------------------
\* w, table and ans have their types.
GeometryTypeOK ==
  /\ w \in 1..(LargeMaxWSize + 1)
  /\ table \in [Bins -> 0..LargeMaxObj]
  /\ ans.kind \in {"none", "block", "refused", "region", "purge"}

(***************************************************************************)
(* bin is monotone and onto the table: each word size the loop of          *)
(* BIN_SIZES meets becomes the largest of its own class, no class above it *)
(* has been opened and none below it is larger; so the block of a class    *)
(* holds every size that falls into it.                                    *)
(***************************************************************************)
ClassesAreOrdered ==
  w > 1 =>
    LET sz   == (w - 1) * IntptrSize
        last == bin(sz)
    IN  /\ table[last] = sz
        /\ \A b \in Bins : b > last => table[b] = 0
        /\ \A b \in Bins : b < last => table[b] < sz

(***************************************************************************)
(* A block of a size class is at most a quarter larger than the request    *)
(* (or 16 bytes, the granularity of the small classes), and the page       *)
(* that alloc_generic carves for a class holds at least six of its blocks. *)
(***************************************************************************)
WasteIsBounded ==
  ans.kind = "block" /\ bin(AtLeast(Total(ans.size, ans.align))) < BinHuge =>
    LET total == AtLeast(Total(ans.size, ans.align))
        over  == ans.page.bs - total
    IN  /\ 4 * over <= total \/ over < MaxAlignSize
        /\ ans.page.reserved >= 6

(***************************************************************************)
(* The pointer of alloc_aligned is aligned, and the bytes asked for lie in *)
(* the one block it was cut from, which lies in the page's slices behind   *)
(* the header; a request whose size wraps is refused, never served small.  *)
(***************************************************************************)
RequestFits ==
  ans.kind = "block" =>
    /\ ans.align > IntptrSize => is_aligned(ans.ptr, ans.align)
    /\ ans.at <= ans.ptr
    /\ ans.ptr + ans.size <= ans.at + ans.page.bs
    /\ ans.at + ans.page.bs <= PageBase + ans.page.slices * SliceSize
    /\ ans.page.start = PageBase \/ ans.at >= PageBase + HeaderSize

(***************************************************************************)
(* free recovers the block from the pointer alloc_aligned returned, and    *)
(* usable_size, which realloc trusts as the length of the old contents,    *)
(* never reaches past the block nor falls short of the request; for a      *)
(* class it is what good_size promised.                                    *)
(***************************************************************************)
FreeFindsTheBlock ==
  ans.kind = "block" =>
    /\ recover_block_start(ans.page, ans.ptr) = ans.at
    /\ ans.ptr + usable_size(ans.page, ans.ptr) = ans.at + ans.page.bs
    /\ usable_size(ans.page, ans.ptr) >= ans.size
    /\ bin(AtLeast(ans.size)) < BinHuge /\ ans.align <= IntptrSize
         => usable_size(ans.page, ans.ptr) = good_size(ans.size)

(***************************************************************************)
(* os::alloc_aligned leaves mapped exactly the region it returns: aligned, *)
(* at least as long as asked, with both trimmed ends given back.           *)
(***************************************************************************)
OsRegionIsExact ==
  ans.kind = "region" =>
    /\ is_aligned(ans.at, ans.align)
    /\ ans.len >= ans.size
    /\ ans.mapped = [from |-> ans.at, to |-> ans.at + ans.len]

(***************************************************************************)
(* A commit, decommit or reset touches whole OS pages that lie inside the  *)
(* range it was given, and every one of them.                              *)
(***************************************************************************)
PurgeStaysInside ==
  ans.kind = "purge" =>
    LET r == ans.range
    IN  /\ is_aligned(r.from, OsPage) /\ is_aligned(r.to, OsPage)
        /\ ans.addr <= r.from /\ r.to <= ans.addr + ans.size
        /\ r.from - ans.addr < OsPage
        /\ ans.addr + ans.size - r.to < OsPage

(***************************************************************************)
(* bin and BIN_SIZES fit each other for every size up to the largest class *)
(* and no class wastes more than its share.                                *)
(***************************************************************************)
ClassesAreSound == GeometryTypeOK /\ ClassesAreOrdered /\ WasteIsBounded

(***************************************************************************)
(* The ranges handed to the OS are exact: what is mapped by alloc_aligned  *)
(* and what commit, decommit and reset touch.                              *)
(***************************************************************************)
OsRangesAreExact == OsRegionIsExact /\ PurgeStaysInside

=============================================================================
