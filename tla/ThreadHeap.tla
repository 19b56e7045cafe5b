----------------------------- MODULE ThreadHeap -----------------------------
(***************************************************************************)
(* The thread-local heap of mimalloc-rs (src/src/heap.rs, ThreadHeap): its *)
(* bin queues, the pages_free_direct cache and the retire countdown, run   *)
(* by one thread after another.  A thread that exits leaves its non-empty  *)
(* pages abandoned; the next one starts with an empty heap and may adopt   *)
(* them.  Other threads show only through their frees.                     *)
(*                                                                         *)
(* A page is reduced to counts of blocks: on `free` (or not carved yet),   *)
(* on `local_free`, in use, and queued by other threads (a queued block    *)
(* still counts as used).  How the lists behave under concurrent frees is  *)
(* the subject of PageOwnership.                                           *)
(***************************************************************************)
EXTENDS Integers, Sequences, FiniteSets, SequencesExt

CONSTANTS
  Pages,      \* pages the arenas can provide
  NBins,      \* size classes are 1..NBins, then MI_BIN_HUGE
  Sizes,      \* request sizes below the huge threshold
  SizeBin,    \* the size class of each size (bits::bin)
  SmallSizes, \* sizes with an entry in pages_free_direct
  Cap,        \* blocks per page of a size class
  CyclesOf,   \* retire countdown armed for a page of each size class
  MaxExits,   \* bound: thread exits
  None        \* a null pointer

SizeClasses == 1..NBins
BinHuge == NBins + 1
BinFull == NBins + 2
Bins == 1..BinHuge

ASSUME ThreadHeapAssumption ==
  /\ NBins \in Nat \ {0} /\ Cap \in Nat \ {0} /\ MaxExits \in Nat
  /\ SmallSizes \subseteq Sizes
  /\ SizeBin \in [Sizes -> SizeClasses]
  /\ CyclesOf \in [SizeClasses -> Nat \ {0}]
  /\ None \notin Pages

VARIABLES
  queue,       \* bin queues, front first
  direct,      \* pages_free_direct, one entry per small size
  rmin, rmax,  \* page_retired_min / page_retired_max
  page,        \* the page headers
  mapped,      \* abandoned pages the registry shows
  exits        \* thread exits so far

vars == <<queue, direct, rmin, rmax, page, mapped, exits>>

\* The header of a page: its bin, blocks on `free` and `local_free`, blocks
\* queued on xthread_free, the `used` counter, retire_expire.
Header(b, n) ==
  [bin |-> b, avail |-> n, local |-> 0, pend |-> 0, used |-> 0, expire |-> 0]
NoPage == Header(0, 0)
Headers == [bin : 0..BinHuge, avail : Nat, local : Nat, pend : Nat,
            used : Nat, expire : Nat]

Queued(b) == ToSet(queue[b])
InHeap == UNION {Queued(b) : b \in Bins}
Allocated == {p \in Pages : page[p].bin # 0}
AbandonedPages == Allocated \ InHeap
Live(p) == page[p].used - page[p].pend
CapOf(b) == IF b = BinHuge THEN 1 ELSE Cap

\* Every page is in at most one queue, once, and in the queue of its bin;
\* its blocks add up.
TypeOK ==
  /\ queue \in [Bins -> Seq(Pages)]
  /\ direct \in [SmallSizes -> Pages \cup {None}]
  /\ rmin \in 1..BinFull /\ rmax \in 0..NBins
  /\ page \in [Pages -> Headers]
  /\ \A p \in Pages : LET r == page[p] IN
       /\ r.pend <= r.used
       /\ r.bin # 0 => r.avail + r.local + r.used = CapOf(r.bin)
       /\ r.bin = 0 => r = NoPage
  /\ \A b \in Bins : IsInjective(queue[b]) /\ \A p \in Queued(b) : page[p].bin = b
  /\ mapped \subseteq AbandonedPages
  /\ exits \in 0..MaxExits

Init ==
  /\ queue = [b \in Bins |-> <<>>]
  /\ direct = [z \in SmallSizes |-> None]
  /\ rmin = BinFull /\ rmax = 0
  /\ page = [p \in Pages |-> NoPage]
  /\ mapped = {} /\ exits = 0

(***************************************************************************)
(* Page operations, as functions of the header.                            *)
(***************************************************************************)
\* Page::collect: local and queued frees go back to `free`.
Collected(r) ==
  [r EXCEPT !.avail = @ + r.local + r.pend, !.used = @ - r.pend,
            !.local = 0, !.pend = 0]

\* Page::alloc finds a block; ~Page::is_full is the same question.
CanAlloc(r) == Collected(r).avail > 0

\* Page::alloc: pop, collecting first only when `free` is empty.
Popped(r) ==
  LET c == IF r.avail > 0 THEN r ELSE Collected(r)
  IN [c EXCEPT !.avail = @ - 1, !.used = @ + 1]

\* Page::free_local.
FreedLocal(r) == [r EXCEPT !.local = @ + 1, !.used = @ - 1]

(***************************************************************************)
(* Unlinking the pages of S: fast-path entries cleared, queues without     *)
(* them, slices returned.                                                  *)
(***************************************************************************)
\* mutant: released pages stay in the fast-path table
DirectWithout_Forgets(S) == direct

DirectWithout(S) ==
  [z \in SmallSizes |-> IF direct[z] \in S THEN None ELSE direct[z]]

\* the entries of a sequence outside S, which move up in their order
Without(s, S) ==
  LET kept == {i \in 1..Len(s) : s[i] \notin S}
      nth(n) == CHOOSE i \in kept : Cardinality({j \in kept : j < i}) = n - 1
  IN  [n \in 1..Cardinality(kept) |-> s[nth(n)]]

QueueWithout(S) == [b \in Bins |-> Without(queue[b], S)]

Released(S, pg) == [p \in Pages |-> IF p \in S THEN NoPage ELSE pg[p]]

\* The fast path is refilled after a slow allocation of a small size.
DirectSet(d, z, p) == IF z \in SmallSizes THEN [d EXCEPT ![z] = p] ELSE d

LowOf(S) == IF S = {} THEN BinFull ELSE CHOOSE x \in S : \A y \in S : x <= y
HighOf(S) == IF S = {} THEN 0 ELSE CHOOSE x \in S : \A y \in S : x >= y

-----------------------------------------------------------------------------
(***************************************************************************)
(* collect_retired(false): over the bins of the retired range, look at the *)
(* page at the front of the queue; cancel the countdown of one that is in  *)
(* use again, count down the others, release those that reach 0.           *)
(***************************************************************************)
SweptBins == {b \in rmin..rmax : queue[b] # <<>> /\ page[queue[b][1]].expire # 0}
Swept == {queue[b][1] : b \in SweptBins}

\* mutant: a page whose countdown ends is taken for empty
Expired_Unchecked == {p \in Swept : page[p].expire = 1}

Expired == {p \in Swept : page[p].used = 0 /\ page[p].expire = 1}

StillRetired ==
  {b \in SweptBins : page[queue[b][1]].used = 0 /\ page[queue[b][1]].expire > 1}

PageSwept ==
  [p \in Pages |->
     IF p \in Expired THEN NoPage
     ELSE IF p \in Swept
     THEN [page[p] EXCEPT !.expire = IF page[p].used = 0 THEN @ - 1 ELSE 0]
     ELSE page[p]]

-----------------------------------------------------------------------------
(***************************************************************************)
(* alloc_impl and alloc_generic, by the way the request is served.         *)
(***************************************************************************)
DirectServes(z) ==
  z \in SmallSizes /\ direct[z] # None /\ CanAlloc(page[direct[z]])

QueueServes(b) == \E p \in Queued(b) : CanAlloc(page[p])

\* The fast path; it does not look at the retire countdown.
AllocDirect(z) ==
  /\ DirectServes(z)
  /\ page' = [page EXCEPT ![direct[z]] = Popped(@)]
  /\ UNCHANGED <<queue, direct, rmin, rmax, mapped, exits>>

\* find_free_page, first fit in the bin queue; cancels the countdown.
AllocQueue(z) ==
  LET b == SizeBin[z] IN
  /\ ~DirectServes(z)
  /\ \E i \in 1..Len(queue[b]) : LET p == queue[b][i] IN
       /\ CanAlloc(page[p])
       /\ \A j \in 1..(i - 1) : ~CanAlloc(page[queue[b][j]])
       /\ page' = [page EXCEPT ![p] = [Popped(@) EXCEPT !.expire = 0]]
       /\ direct' = DirectSet(direct, z, p)
  /\ UNCHANGED <<queue, rmin, rmax, mapped, exits>>

\* try_reclaim: adopt an abandoned page the registry shows, at the front.
\* retire_expire is left as the previous owner left it.
AllocReclaim(z) ==
  LET b == SizeBin[z] IN
  /\ ~DirectServes(z) /\ ~QueueServes(b)
  /\ \E p \in mapped :
       /\ page[p].bin = b
       /\ mapped' = mapped \ {p}
       /\ queue' = [queue EXCEPT ![b] = <<p>> \o @]
       /\ page' = [page EXCEPT ![p] = Popped(Collected(@))]
       /\ direct' = DirectSet(direct, z, p)
  /\ UNCHANGED <<rmin, rmax, exits>>

\* Nothing serves: sweep the retired pages, then carve a page (new_page), or
\* fail: no slices, or no memory for the page map.
AllocNew(z) ==
  LET b == SizeBin[z]
      swept == QueueWithout(Expired)
  IN
  /\ ~DirectServes(z) /\ ~QueueServes(b)
  /\ \A p \in mapped : page[p].bin # b
  /\ rmin' = LowOf(StillRetired) /\ rmax' = HighOf(StillRetired)
  /\ \/ /\ queue' = swept
        /\ direct' = DirectWithout(Expired)
        /\ page' = PageSwept
     \/ \E p \in (Pages \ Allocated) \cup Expired :
          /\ queue' = [swept EXCEPT ![b] = <<p>> \o @]
          /\ direct' = DirectSet(DirectWithout(Expired), z, p)
          /\ page' = [PageSwept EXCEPT ![p] = Popped(Header(b, Cap))]
  /\ UNCHANGED <<mapped, exits>>

\* alloc_huge: a page of one block, no sweep.
AllocHuge ==
  /\ \E p \in Pages \ Allocated :
       /\ queue' = [queue EXCEPT ![BinHuge] = <<p>> \o @]
       /\ page' = [page EXCEPT ![p] = Popped(Header(BinHuge, 1))]
  /\ UNCHANGED <<direct, rmin, rmax, mapped, exits>>

-----------------------------------------------------------------------------
\* mutant: the second page of a bin is kept as well
KeepsSole_OffByOne(b) == b # BinHuge /\ Len(queue[b]) <= 2

\* retire_page keeps the only page of a size class.
KeepsSole(b) == b # BinHuge /\ Len(queue[b]) <= 1

(***************************************************************************)
(* heap::free by the owner, then retire_page if the page is empty: nothing *)
(* if its countdown runs already; the only page of its size class is kept  *)
(* and its countdown armed; any other page is released.                    *)
(***************************************************************************)
FreeOwn(p) ==
  LET r == page[p]
      b == r.bin
      running == r.used > 1 \/ r.expire # 0
  IN
  /\ p \in InHeap /\ Live(p) > 0
  /\ \/ /\ running
        /\ page' = [page EXCEPT ![p] = FreedLocal(@)]
        /\ UNCHANGED <<queue, direct, rmin, rmax>>
     \/ /\ ~running /\ KeepsSole(b)
        /\ page' = [page EXCEPT ![p] = [FreedLocal(@) EXCEPT !.expire = CyclesOf[b]]]
        /\ rmin' = LowOf({rmin, b}) /\ rmax' = HighOf({rmax, b})
        /\ UNCHANGED <<queue, direct>>
     \/ /\ ~running /\ ~KeepsSole(b)
        /\ queue' = QueueWithout({p})
        /\ direct' = DirectWithout({p})
        /\ page' = Released({p}, page)
        /\ UNCHANGED <<rmin, rmax>>
  /\ UNCHANGED <<mapped, exits>>

\* A free by another thread: queued until the owner collects.
FreeRemote(p) ==
  /\ p \in InHeap /\ Live(p) > 0
  /\ page' = [page EXCEPT ![p].pend = @ + 1]
  /\ UNCHANGED <<queue, direct, rmin, rmax, mapped, exits>>

\* A free into an abandoned page: claimed, collected, released if empty,
\* registered if it was not (free_try_collect_mt).
FreeAbandoned(p) ==
  LET r == Collected([page[p] EXCEPT !.pend = @ + 1]) IN
  /\ p \in AbandonedPages /\ Live(p) > 0
  /\ \/ /\ r.used = 0
        /\ page' = Released({p}, page)
        /\ mapped' = mapped \ {p}
     \/ /\ r.used # 0
        /\ page' = [page EXCEPT ![p] = r]
        /\ mapped' = mapped \cup {p}
  /\ UNCHANGED <<queue, direct, rmin, rmax, exits>>

-----------------------------------------------------------------------------
Empty == {p \in InHeap : Live(p) = 0}
PageCollected ==
  [p \in Pages |-> IF p \in InHeap THEN Collected(page[p]) ELSE page[p]]

\* ThreadHeap::collect(true): collect every page, release the empty ones,
\* forget the retired range.
CollectForce ==
  /\ InHeap # {}
  /\ queue' = QueueWithout(Empty)
  /\ direct' = DirectWithout(Empty)
  /\ page' = Released(Empty, PageCollected)
  /\ rmin' = BinFull /\ rmax' = 0
  /\ UNCHANGED <<mapped, exits>>

\* ThreadHeap::collect(false): collect every page and retire the empty ones
\* one after another, front first: a page whose countdown runs is left, the
\* last page of a size class is kept and armed, the others are released.
Collect ==
  LET retiring == {p \in Empty : page[p].expire = 0}
      armed == {b \in SizeClasses : queue[b] # <<>> /\ Queued(b) \subseteq retiring}
      kept == {Last(queue[b]) : b \in armed}
      gone == retiring \ kept
  IN
  /\ InHeap # {}
  /\ queue' = QueueWithout(gone)
  /\ direct' = DirectWithout(gone)
  /\ page' = Released(gone,
       [p \in Pages |-> IF p \in kept
          THEN [PageCollected[p] EXCEPT !.expire = CyclesOf[page[p].bin]]
          ELSE PageCollected[p]])
  /\ rmin' = LowOf({rmin} \cup armed) /\ rmax' = HighOf({rmax} \cup armed)
  /\ UNCHANGED <<mapped, exits>>

\* abandon_owned_page registers the pages that can serve a request.
ExitMapped == {p \in InHeap \ Empty : CanAlloc(page[p])}

\* Drop for ThreadHeap, then the next thread starts with a new heap: each
\* page is collected, released if empty, abandoned otherwise.
ThreadExit ==
  /\ exits < MaxExits
  /\ exits' = exits + 1
  /\ queue' = [b \in Bins |-> <<>>]
  /\ direct' = [z \in SmallSizes |-> None]
  /\ rmin' = BinFull /\ rmax' = 0
  /\ page' = Released(Empty, PageCollected)
  /\ mapped' = mapped \cup ExitMapped

Next ==
  \/ \E z \in Sizes :
       AllocDirect(z) \/ AllocQueue(z) \/ AllocReclaim(z) \/ AllocNew(z)
  \/ AllocHuge
  \/ \E p \in Pages : FreeOwn(p) \/ FreeRemote(p) \/ FreeAbandoned(p)
  \/ Collect \/ CollectForce \/ ThreadExit

Spec == Init /\ [][Next]_vars

-----------------------------------------------------------------------------
\* "a non-null entry points at a live page owned by this theap": and it is a
\* page of the size's own class, so the fast path never returns a block that
\* is too small or that lies in slices already returned.
DirectEntriesValid ==
  \A z \in SmallSizes : direct[z] # None => direct[z] \in Queued(SizeBin[z])

\* Blocks become free only because the program frees them: a step changes the
\* live blocks of at most one page, by at most one.  A sweep, a collect, a
\* retire or an exit that released a page in use would break it.
OnlyFreesEndLives ==
  [][\A p, q \in Pages :
       /\ Live(p)' - Live(p) \in {-1, 0, 1}
       /\ Live(p)' # Live(p) /\ Live(q)' # Live(q) => p = q]_vars

\* Keeping an emptied page must not pile up: a thread that has adopted no page
\* holds at most one page without used blocks per size class.
KeepsOneEmptyPage ==
  exits = 0 => \A b \in Bins :
    Cardinality({p \in Queued(b) : page[p].used = 0}) <= 1

\* A page the registry shows can serve a request, so an adoption always ends
\* the search: the second new_page of alloc_generic is not needed.
MappedHasRoom == \A p \in mapped : CanAlloc(page[p])

\* The three indexes of a page agree in every sequence of calls: the bin
\* queues, the fast-path table and the registry of abandoned pages.
QueuesAreSound == TypeOK /\ DirectEntriesValid /\ MappedHasRoom

=============================================================================
