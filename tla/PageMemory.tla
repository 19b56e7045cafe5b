----------------------------- MODULE PageMemory -----------------------------
(***************************************************************************)
(* The memory of one page of mimalloc-rs at the level of addresses and     *)
(* words: the links that thread the free blocks, encoded in the first word *)
(* of each (src/src/free_list.rs), the three lists and their splicing      *)
(* (src/src/page.rs), the stamp that packs an owner with flags, and the    *)
(* dispatch of heap::free on it (src/src/heap.rs), which must find the     *)
(* block that an aligned pointer was cut from.                             *)
(*                                                                         *)
(* Atomicity: the races on the page's lists are the subject of             *)
(* PageOwnership; here an operation is one step, except that a             *)
(* cross-thread free reads the stamp in one step and pushes in another,    *)
(* and an exiting owner restamps in one and gives up in another.           *)
(*                                                                         *)
(* Data: a block is its link word and, in one Boolean, whether the rest of *)
(* it holds anything but zeros.  The program writes UserWord.              *)
(***************************************************************************)
EXTENDS Integers, Sequences, FiniteSets, Bitwise

CONSTANTS
  Threads,    \* thread ids: above 4, the two low bits clear
  WordBits,   \* bits of a usize, a power of two
  Start,      \* page_start
  BlockSize,  \* block_size
  Reserved,   \* the blocks a page that is not huge can hold
  MaxExtend,  \* the most blocks one extend_free makes available
  Align,      \* the alignment of an aligned request
  K0s, K1s,   \* candidates for the two keys
  UserWord    \* what the program writes

ASSUME MemoryAssumption ==
  /\ \A t \in Threads : t % 4 = 0 /\ t > 4
  /\ Start % 2 = 0 /\ BlockSize % 2 = 0 /\ Start > 0
  /\ Start + Reserved * BlockSize < 2^WordBits

VARIABLES
  page,    \* the header and the blocks' words
  out,     \* the pointer the program holds to each block, or 0
  expect,  \* what the program may rely on finding in each block
  giving,  \* the block each thread is handing to a cross-thread free, or 0
  cur,     \* the address that free took for its start
  aborted, \* report_corruption_and_abort was reached
  keys     \* the process's encoding keys

vars == <<page, out, expect, giving, cur, aborted, keys>>

Null == 0
Abandoned == 0
Mapped == 4
Interior == 2
Usize == 2^WordBits
Addrs == {Start + i * BlockSize : i \in 0..(Reserved - 1)}

-----------------------------------------------------------------------------
(***************************************************************************)
(* free_list.rs: the encoding of a link.                                   *)
(***************************************************************************)
mi_rotl(x, r) ==
  LET s == r % WordBits IN ((x * 2^s) % Usize) + (x \div 2^(WordBits - s))
mi_rotr(x, r) ==
  LET s == r % WordBits IN (x \div 2^s) + ((x * 2^(WordBits - s)) % Usize)

encode(a) ==
  IF a = Null THEN 0 ELSE (mi_rotl(a ^^ keys[2], keys[1]) + keys[1]) % Usize
decode(x) ==
  IF x = 0 THEN Null ELSE mi_rotr((x - keys[1]) % Usize, keys[1]) ^^ keys[2]

\* The blocks of the list that starts at head, as the links give them.
Chain(word, head) ==
  LET at[i \in 0..Reserved] ==
        IF i = 0 THEN head
        ELSE IF at[i - 1] \in Addrs THEN decode(word[at[i - 1]]) ELSE Null
      n == Cardinality({i \in 0..Reserved : \A j \in 0..i : at[j] \in Addrs})
  IN  [i \in 1..n |-> at[i - 1]]

LastOf(s) == s[Len(s)]

\* Each block of s in turn is pushed onto the list that starts at head.
Onto(word, head, s) ==
  [b \in Addrs |->
     IF \E i \in 1..Len(s) : s[i] = b
     THEN LET i == CHOOSE i \in 1..Len(s) : s[i] = b
          IN  encode(IF i = 1 THEN head ELSE s[i - 1])
     ELSE word[b]]

(***************************************************************************)
(* The head word of xthread_free: a block address and the ownership bit.   *)
(***************************************************************************)
tf_block(tf) == tf - (tf % 2)
tf_is_owned(tf) == tf % 2 = 1
tf_create(b, owned) == b + (IF owned THEN 1 ELSE 0)

(***************************************************************************)
(* Page::collect, collect_partly, extend_free, on a header p.              *)
(***************************************************************************)
TakeThreadFree(p) ==
  LET xs == Chain(p.word, tf_block(p.tfree))
  IN  IF tf_block(p.tfree) = Null THEN p
      ELSE [p EXCEPT !.word = Onto(p.word, p.free, xs),
                     !.free = LastOf(xs),
                     !.tfree = tf_create(Null, tf_is_owned(p.tfree)),
                     !.used = @ - Len(xs),
                     !.zero = FALSE]

\* mutant: recycled blocks are still taken for zero
TakeLocal_StillZero(p) ==
  IF p.local = Null \/ p.free # Null THEN p
  ELSE [p EXCEPT !.free = p.local, !.local = Null]
TakeLocal(p) ==
  LET tail == LastOf(Chain(p.word, p.local))
  IN  IF p.local = Null THEN p
      ELSE [p EXCEPT !.zero = FALSE,
                     !.word = IF p.free = Null THEN @
                              ELSE [@ EXCEPT ![tail] = encode(p.free)],
                     !.free = p.local,
                     !.local = Null]

Collect(p) == TakeLocal(TakeThreadFree(p))

\* The chain below the block h just pushed goes to local_free, or to free
\* when that is empty.
\* mutant: h keeps its link to the chain it gave away
TakeBelow_Uncut(p, h) ==
  LET below == Chain(p.word, decode(p.word[h]))
      q == [p EXCEPT !.word = [@ EXCEPT ![LastOf(below)] = encode(p.local)],
                     !.local = below[1], !.used = @ - Len(below)]
  IN  IF decode(p.word[h]) = Null THEN p
      ELSE IF q.free = Null THEN [q EXCEPT !.free = q.local, !.local = Null]
      ELSE q
TakeBelow(p, h) ==
  LET below == Chain(p.word, decode(p.word[h]))
      q == [p EXCEPT !.word = [@ EXCEPT ![h] = encode(Null),
                                        ![LastOf(below)] = encode(p.local)],
                     !.local = below[1], !.used = @ - Len(below)]
  IN  IF decode(p.word[h]) = Null THEN p
      ELSE IF q.free = Null THEN [q EXCEPT !.free = q.local, !.local = Null]
      ELSE q

collect_partly(p, h) ==
  LET q == TakeBelow(p, h) IN IF q.used = 1 THEN Collect(q) ELSE q

Batch(p) ==
  IF p.reserved - p.cap < MaxExtend THEN p.reserved - p.cap ELSE MaxExtend

\* Threaded lowest address first, each block linked to the one above it.
extend_free(p) ==
  LET n == Batch(p)
      new == [i \in 1..n |-> Start + (p.cap + n - i) * BlockSize]
  IN  IF n = 0 THEN p
      ELSE [p EXCEPT !.word = Onto(p.word, p.free, new),
                     !.free = LastOf(new), !.cap = @ + n]

\* Page::alloc and alloc_slow up to the pop.
Refilled(p) ==
  IF p.free # Null THEN p
  ELSE IF Collect(p).free # Null THEN Collect(p) ELSE extend_free(Collect(p))

Popped(p) ==
  [p EXCEPT !.free = decode(p.word[p.free]), !.used = @ + 1]

\* Page::is_full collects when free is empty; p after it, and its answer.
FullChecked(p) == IF p.free # Null THEN p ELSE Collect(p)
is_full(p) == FullChecked(p).free = Null /\ p.cap >= p.reserved

(***************************************************************************)
(* The stamp: an owner's id, or one of the two abandoned ids, with flags.  *)
(***************************************************************************)
\* mutant: the flags are not carried over
set_owner_Plain(p, tid) == [p EXCEPT !.stamp = tid]
set_owner(p, tid) == [p EXCEPT !.stamp = tid + (@ % 4)]
owner_tid(p) == p.stamp - (p.stamp % 4)
set_has_interior(p) ==
  [p EXCEPT !.stamp = IF (@ \div Interior) % 2 = 1 THEN @ ELSE @ + Interior]

-----------------------------------------------------------------------------
(***************************************************************************)
(* new_page and alloc_huge: Page::init, Page::init_huge and serve_huge.  A *)
(* page of small blocks collects partly on a claim; one of blocks above    *)
(* ZERO_VIA_PAGE_MIN zeroes through zero_block; a huge page has one block. *)
(***************************************************************************)
Dead == [alive |-> FALSE, kind |-> "small", word |-> [b \in Addrs |-> 0],
         rest |-> [b \in Addrs |-> FALSE], free |-> Null, local |-> Null,
         tfree |-> 0, used |-> 0, cap |-> 0, reserved |-> Reserved,
         zero |-> TRUE, stamp |-> 0, leaving |-> Null]

\* Nothing encodes to the word that ends a list.
KeysSafe == \A b \in Addrs : encode(b) # 0

Init ==
  /\ keys \in K0s \X K1s
  /\ KeysSafe
  /\ page = Dead
  /\ out = [b \in Addrs |-> Null]
  /\ expect = [b \in Addrs |-> "any"]
  /\ giving = [t \in Threads |-> Null]
  /\ cur = [t \in Threads |-> Null]
  /\ aborted = FALSE

\* The slices come as the OS zeroed them, or as their last user left them.
Fresh(t, kind, zero) ==
  [Dead EXCEPT !.alive = TRUE, !.kind = kind, !.zero = zero, !.stamp = t,
     !.tfree = tf_create(Null, TRUE),
     !.word = IF zero THEN @ ELSE [b \in Addrs |-> UserWord],
     !.rest = [b \in Addrs |-> ~zero]]

NewPage(t, kind, zero) ==
  /\ ~page.alive
  /\ page' = Fresh(t, kind, zero)
  /\ UNCHANGED <<out, expect, giving, cur, aborted, keys>>

\* The program gets block b at ptr and may expect e of it.
HandOut(b, ptr, e) ==
  /\ out' = [out EXCEPT ![b] = ptr]
  /\ expect' = [expect EXCEPT ![b] = e]
  /\ UNCHANGED <<giving, cur, aborted, keys>>

\* zero_block on block b of p: of a page whose free blocks are still zero
\* only the link was dirtied, and in a huge page not even that.
zero_block(p, b) ==
  IF ~p.zero THEN [p EXCEPT !.word[b] = 0, !.rest[b] = FALSE]
  ELSE IF p.kind = "huge" THEN p
  ELSE [p EXCEPT !.word[b] = 0]

\* alloc_zeroed: small requests are cleared whole.
Zeroed(p, b) ==
  IF p.kind = "small" THEN [p EXCEPT !.word[b] = 0, !.rest[b] = FALSE]
  ELSE zero_block(p, b)

\* alloc_huge: a page of one block, served without touching it.
AllocHuge(t, zero, zeroed) ==
  LET p == [Fresh(t, "huge", zero) EXCEPT !.reserved = 1, !.cap = 1, !.used = 1]
  IN  /\ ~page.alive
      /\ page' = IF zeroed THEN Zeroed(p, Start) ELSE p
      /\ HandOut(Start, Start, IF zeroed THEN "zero" ELSE "any")

Owns(t) == page.alive /\ owner_tid(page) = t

\* ThreadHeap::alloc from this page.
Alloc(t) ==
  LET p == Refilled(page)
  IN  /\ Owns(t) /\ page.kind # "huge" /\ p.free # Null
      /\ page' = Popped(p)
      /\ HandOut(p.free, p.free, "any")

AllocZeroed(t) ==
  LET p == Refilled(page)
  IN  /\ Owns(t) /\ page.kind # "huge" /\ p.free # Null
      /\ page' = Zeroed(Popped(p), p.free)
      /\ HandOut(p.free, p.free, "zero")

\* alloc_aligned: an interior pointer flags the page before it is returned.
Up(a) == ((a + Align - 1) \div Align) * Align
AllocAligned(t) ==
  LET p == Refilled(page)
  IN  /\ Owns(t) /\ page.kind # "huge" /\ p.free # Null
      /\ page' = IF Up(p.free) # p.free THEN set_has_interior(Popped(p))
                 ELSE Popped(p)
      /\ HandOut(p.free, Up(p.free), "any")

\* The program writes to a block from the pointer it holds on.
Write(b) ==
  /\ out[b] # Null /\ expect[b] # "user"
  /\ page' = [page EXCEPT !.rest[b] = TRUE,
                          !.word[b] = IF out[b] = b THEN UserWord ELSE @]
  /\ expect' = [expect EXCEPT ![b] = "user"]
  /\ UNCHANGED <<out, giving, cur, aborted, keys>>

-----------------------------------------------------------------------------
(***************************************************************************)
(* heap::free.  xtid is the xor of the caller's id and the stamp: 0 for    *)
(* the owner of an unflagged page, below 4 for the owner of a flagged one. *)
(***************************************************************************)
recover_block_start(ptr) ==
  Start + ((ptr - Start) \div BlockSize) * BlockSize

xtid(t) == t ^^ page.stamp
StartOf(t, ptr) == IF xtid(t) % 4 = 0 THEN ptr ELSE recover_block_start(ptr)

\* mutant: the last block is taken to lie outside
contains_Short(p, a) == Start <= a /\ a < Start + (p.reserved - 1) * BlockSize
contains(p, a) == Start <= a /\ a < Start + p.reserved * BlockSize
owner_lists_contain(p, a) ==
  \E head \in {p.free, p.local} :
    \E i \in 1..Len(Chain(p.word, head)) : Chain(p.word, head)[i] = a

free_local(p, b) ==
  [p EXCEPT !.word[b] = encode(p.local), !.local = b, !.used = @ - 1]

\* After an owner's free: retire_page keeps an empty page or releases it,
\* and always releases a huge one.
Retired(p) == IF p.used # 0 THEN {p}
              ELSE {[p EXCEPT !.alive = FALSE]} \cup
                   (IF p.kind = "huge" THEN {} ELSE {p})

GiveUp(b) ==
  /\ out' = [out EXCEPT ![b] = Null]
  /\ expect' = [expect EXCEPT ![b] = "any"]

\* The owner's free, hardened: the block is checked before it is linked.
FreeOwn(t, b) ==
  LET start == StartOf(t, out[b])
  IN  /\ out[b] # Null /\ giving[t] = Null
      /\ xtid(t) \div 4 = 0
      /\ aborted' = (\/ ~contains(page, start)
                     \/ owner_lists_contain(page, start))
      /\ page' \in Retired(free_local(page, start))
      /\ GiveUp(b)
      /\ UNCHANGED <<giving, cur, keys>>

\* A cross-thread free reads the stamp...
FreeCold(t, b) ==
  /\ out[b] # Null /\ giving[t] = Null /\ page.leaving # t
  /\ xtid(t) \div 4 # 0
  /\ giving' = [giving EXCEPT ![t] = b]
  /\ cur' = [cur EXCEPT ![t] = StartOf(t, out[b])]
  /\ GiveUp(b)
  /\ UNCHANGED <<page, aborted, keys>>

(***************************************************************************)
(* free_try_collect_mt: collect (partly, of small blocks, the first time   *)
(* round); release an empty page; show one with room; give it up if the    *)
(* stack is empty, else go round again.                                    *)
(***************************************************************************)
Shown(p) ==
  IF is_full(p) \/ owner_tid(p) = Mapped THEN FullChecked(p)
  ELSE set_owner(FullChecked(p), Mapped)
Rounded(p) == IF p.used = 0 THEN [p EXCEPT !.alive = FALSE] ELSE Shown(p)
Unowned(p) == [p EXCEPT !.tfree = tf_create(tf_block(@), FALSE)]
Settled(p) ==
  IF ~p.alive THEN p
  ELSE IF tf_block(p.tfree) = Null THEN Unowned(p)
  ELSE LET q == Rounded(Collect(p)) IN IF q.alive THEN Unowned(q) ELSE q

free_try_collect_mt(p, b) ==
  Settled(Rounded(IF p.kind = "small" THEN collect_partly(p, b) ELSE Collect(p)))

\* ...and pushes; a push onto an unowned page claims it.
Push(t) ==
  LET p == [page EXCEPT !.word[cur[t]] = encode(tf_block(page.tfree)),
                        !.tfree = tf_create(cur[t], TRUE)]
  IN  /\ giving[t] # Null
      /\ page' = IF tf_is_owned(page.tfree) THEN p
                 ELSE free_try_collect_mt(p, cur[t])
      /\ giving' = [giving EXCEPT ![t] = Null]
      /\ cur' = [cur EXCEPT ![t] = Null]
      /\ UNCHANGED <<out, expect, aborted, keys>>

-----------------------------------------------------------------------------
\* abandon_owned_page: the exiting owner collects and restamps...
Abandon(t) ==
  LET p == Collect(page)
  IN  /\ Owns(t) /\ giving[t] = Null
      /\ page' = IF p.used = 0 THEN [p EXCEPT !.alive = FALSE]
                 ELSE [set_owner(FullChecked(p),
                                 IF is_full(p) THEN Abandoned ELSE Mapped)
                         EXCEPT !.leaving = t]
      /\ UNCHANGED <<out, expect, giving, cur, aborted, keys>>

\* ...and gives the page up with whatever was pushed meanwhile.
SetUnowned(t) ==
  /\ page.leaving = t
  /\ page' = [Unowned(page) EXCEPT !.leaving = Null]
  /\ UNCHANGED <<out, expect, giving, cur, aborted, keys>>

\* try_reclaim: another thread (or the same, again) adopts the page.
Adopt(t) ==
  /\ page.alive /\ page.kind # "huge"
  /\ owner_tid(page) = Mapped /\ ~tf_is_owned(page.tfree)
  /\ giving[t] = Null
  /\ page' = Collect([set_owner(page, t) EXCEPT
                        !.zero = FALSE,
                        !.tfree = tf_create(tf_block(@), TRUE)])
  /\ UNCHANGED <<out, expect, giving, cur, aborted, keys>>

Next ==
  \/ \E t \in Threads :
       \/ \E kind \in {"small", "big"}, zero \in BOOLEAN : NewPage(t, kind, zero)
       \/ \E zero, zeroed \in BOOLEAN : AllocHuge(t, zero, zeroed)
       \/ Alloc(t) \/ AllocZeroed(t) \/ AllocAligned(t)
       \/ \E b \in Addrs : FreeOwn(t, b) \/ FreeCold(t, b)
       \/ Push(t) \/ Abandon(t) \/ SetUnowned(t) \/ Adopt(t)
  \/ \E b \in Addrs : Write(b)

Spec == Init /\ [][Next]_vars

-----------------------------------------------------------------------------
Words == 0..(Usize - 1)

\* Every variable has its type; heads point at blocks of the page.
TypeOK ==
  /\ page.word \in [Addrs -> Words] /\ page.rest \in [Addrs -> BOOLEAN]
  /\ page.free \in Addrs \cup {Null} /\ page.local \in Addrs \cup {Null}
  /\ tf_block(page.tfree) \in Addrs \cup {Null}
  /\ page.used \in 0..Reserved /\ page.cap \in 0..page.reserved
  /\ page.stamp \in Words /\ page.leaving \in Threads \cup {Null}
  /\ out \in [Addrs -> Words] /\ cur \in [Threads -> Words]
  /\ giving \in [Threads -> Addrs \cup {Null}]
  /\ expect \in [Addrs -> {"any", "zero", "user"}]

InList(head) ==
  LET c == Chain(page.word, head) IN {c[i] : i \in 1..Len(c)}
Listed == InList(page.free) \cup InList(page.local)
          \cup InList(tf_block(page.tfree))
Away == {b \in Addrs : out[b] # Null \/ \E t \in Threads : giving[t] = b}

(***************************************************************************)
(* Followed through their encoded links, the three lists of the page are   *)
(* disjoint, end, and hold exactly the blocks made available that nobody   *)
(* has; `used` counts the others and those on xthread_free.                *)
(***************************************************************************)
ListsAreWhole ==
  page.alive =>
    LET lens == Len(Chain(page.word, page.free))
                + Len(Chain(page.word, page.local))
                + Len(Chain(page.word, tf_block(page.tfree)))
    IN  /\ lens = Cardinality(Listed)
        /\ Listed \cap Away = {}
        /\ Listed \cup Away = {Start + i * BlockSize : i \in 0..(page.cap - 1)}
        /\ page.used = Cardinality(Away)
                       + Len(Chain(page.word, tf_block(page.tfree)))

(***************************************************************************)
(* While the program holds a pointer into the middle of a block, whoever   *)
(* owns or owned the page, the stamp says so: abandonment, the claiming    *)
(* free and adoption keep the flag that free depends on.                   *)
(***************************************************************************)
InteriorIsFlagged ==
  \A b \in Addrs :
    out[b] \notin {Null, b} => (page.stamp \div Interior) % 2 = 1

(***************************************************************************)
(* What a cross-thread free pushes is the start of the block whose pointer *)
(* the program gave up, however old the stamp it decided by.               *)
(***************************************************************************)
FreeFindsTheBlock ==
  \A t \in Threads : giving[t] # Null => cur[t] = giving[t]

(***************************************************************************)
(* A live block keeps what it is known to hold: zeros from alloc_zeroed,   *)
(* although a page that is still zero has only its link cleared and a huge *)
(* one nothing, and what the program wrote, whatever the lists do.         *)
(***************************************************************************)
ContentsAreKept ==
  \A b \in Addrs :
    /\ expect[b] = "zero" => page.word[b] = 0 /\ ~page.rest[b]
    /\ expect[b] = "user" /\ out[b] = b => page.word[b] = UserWord

\* The checks of a hardened build pass on every legal free: none aborts.
LegalFreesPass == ~aborted

(***************************************************************************)
(* The words of the page are well formed whatever the two threads do.      *)
(***************************************************************************)
ListsAreSound == TypeOK /\ ListsAreWhole

(***************************************************************************)
(* An aligned pointer leads back to its block, whoever owns the page and   *)
(* however old the stamp that free decides by.                             *)
(***************************************************************************)
PointersResolve == InteriorIsFlagged /\ FreeFindsTheBlock

=============================================================================
