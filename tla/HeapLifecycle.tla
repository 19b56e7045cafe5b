--------------------------- MODULE HeapLifecycle ----------------------------
(***************************************************************************)
(* First-class heaps shared by threads (src/src/heap.rs, Heap; the         *)
(* per-thread registry of src/src/init.rs).  A heap has one theap per      *)
(* thread that uses it, created on first use, and a reference count: one   *)
(* for the handle the program holds, one per theap.  The last release      *)
(* frees the heap's metadata, which the next mi_heap_new may reuse.        *)
(* Every thread also has a default theap, uncounted and in no list.        *)
(*                                                                         *)
(* Pages carry blocks of one size class; an abandoned page is adopted by   *)
(* whichever theap looks first, of any heap.  Destroying that theap's heap *)
(* releases the page, with the blocks other heaps have on it.              *)
(***************************************************************************)
EXTENDS Integers, Sequences, FiniteSets, SequencesExt

CONSTANTS
  Threads,
  Heaps,      \* metadata blocks first-class heaps are made in
  Pages,
  Blocks,     \* allocations of the program
  BlocksPerPage,
  MaxHeaps,   \* bound: heaps made in all
  Default,    \* the default heap
  None

ASSUME LifecycleAssumption ==
  /\ IsFiniteSet(Threads) /\ IsFiniteSet(Blocks)
  /\ Default \notin Heaps /\ None \notin Pages
  /\ BlocksPerPage \in Nat \ {0} /\ MaxHeaps \in Nat

Theaps == Threads \X (Heaps \cup {Default})
Unused == <<>>
Abandoned == <<None>>

VARIABLES
  refs,      \* refcount of each metadata block, 0 once it is freed
  gen,       \* heaps made in it so far
  handle,    \* the program holds the handle
  theaps,    \* Heap::theaps: the threads with a listed theap
  registry,  \* per thread: the heaps it has a theap for, latest first
  pc,
  cur,       \* the heap whose theap the thread creates or tears down
  exiting,   \* threads whose TLS destructors run
  owner,     \* per page: the theap <<thread, heap>>, Abandoned, or Unused
  life,      \* per page: how often it was released by a destroy
  block      \* per block: None, or a record (see Alloc)

vars == <<refs, gen, handle, theaps, registry, pc, cur, exiting, owner, life, block>>

Pcs == {"idle", "link", "unlink", "handOff", "bulk", "unref", "unrefHandle", "gone"}
Alive(h) == refs[h] > 0
\* Thread t has a theap of h in its registry.
HasTheap(t, h) == h \in ToSet(registry[t])
\* Thread t is tearing its theap of h down; it still holds its reference.
TearsDown(t, h) == cur[t] = h /\ pc[t] \in {"unlink", "handOff", "bulk", "unref"}
\* The block lies in the page it was allocated from.
HasPage(b) == block[b].life = life[block[b].page] /\ owner[block[b].page] # Unused
On(p) == {b \in Blocks : block[b] # None /\ block[b].page = p /\ block[b].life = life[p]}

TypeOK ==
  /\ refs \in [Heaps -> 0..(Cardinality(Threads) + 1)]
  /\ gen \in [Heaps -> Nat]
  /\ handle \in [Heaps -> BOOLEAN]
  /\ theaps \in [Heaps -> SUBSET Threads]
  /\ registry \in [Threads -> Seq(Heaps)]
  /\ \A t \in Threads : IsInjective(registry[t])
  /\ pc \in [Threads -> Pcs] /\ cur \in [Threads -> Heaps \cup {None}]
  /\ exiting \subseteq Threads
  /\ owner \in [Pages -> Theaps \cup {Abandoned, Unused}]
  /\ life \in [Pages -> Nat]
  /\ \A p \in Pages : Cardinality(On(p)) <= BlocksPerPage

Init ==
  /\ refs = [h \in Heaps |-> 0] /\ gen = [h \in Heaps |-> 0]
  /\ handle = [h \in Heaps |-> FALSE]
  /\ theaps = [h \in Heaps |-> {}]
  /\ registry = [t \in Threads |-> <<>>]
  /\ pc = [t \in Threads |-> "idle"] /\ cur = [t \in Threads |-> None]
  /\ exiting = {}
  /\ owner = [p \in Pages |-> Unused] /\ life = [p \in Pages |-> 0]
  /\ block = [b \in Blocks |-> None]

Goto(t, where) == pc' = [pc EXCEPT ![t] = where]
Ready(t) == pc[t] = "idle" /\ t \notin exiting

-----------------------------------------------------------------------------
\* Heap::new_boxed: the alive reference.
NewHeap(t, h) ==
  /\ Ready(t)
  /\ refs[h] = 0 /\ FoldFunction(+, 0, gen) < MaxHeaps
  /\ refs' = [refs EXCEPT ![h] = 1]
  /\ gen' = [gen EXCEPT ![h] = @ + 1]
  /\ handle' = [handle EXCEPT ![h] = TRUE]
  /\ UNCHANGED <<theaps, registry, pc, cur, exiting, owner, life, block>>

\* mutant: a new theap takes no reference
NewTheap_Uncounted(t, h) ==
  /\ Ready(t)
  /\ handle[h] /\ ~HasTheap(t, h)
  /\ cur' = [cur EXCEPT ![t] = h]
  /\ Goto(t, "link")
  /\ UNCHANGED <<refs, gen, handle, theaps, registry, exiting, owner, life, block>>

\* theap_for: the thread has no theap of h; new_theap_for takes a reference,
\* then links the theap into the heap's list and the thread's registry.
NewTheap(t, h) ==
  /\ Ready(t)
  /\ handle[h] /\ ~HasTheap(t, h)
  /\ refs' = [refs EXCEPT ![h] = @ + 1]
  /\ cur' = [cur EXCEPT ![t] = h]
  /\ Goto(t, "link")
  /\ UNCHANGED <<gen, handle, theaps, registry, exiting, owner, life, block>>

Link(t) ==
  /\ pc[t] = "link"
  /\ theaps' = [theaps EXCEPT ![cur[t]] = @ \cup {t}]
  /\ registry' = [registry EXCEPT ![t] = <<cur[t]>> \o @]
  /\ cur' = [cur EXCEPT ![t] = None]
  /\ Goto(t, "idle")
  /\ UNCHANGED <<refs, gen, handle, exiting, owner, life, block>>

\* Alloc from a theap: a page of its own, an abandoned one, or a new one.
Serves(t, h, p) ==
  /\ Cardinality(On(p)) < BlocksPerPage
  /\ \/ owner[p] = <<t, h>>
     \/ /\ owner[p] = Abandoned
        /\ \A q \in Pages : owner[q] = <<t, h>> => Cardinality(On(q)) = BlocksPerPage
     \/ /\ owner[p] = Unused
        /\ \A q \in Pages : owner[q] \in {<<t, h>>, Abandoned}
                            => Cardinality(On(q)) = BlocksPerPage

\* Which heap a block is of: the metadata block, and which heap made there.
Origin(h) == <<h, IF h = Default THEN 0 ELSE gen[h]>>

\* try_reclaim: the blocks on the page that are of another heap now lie in a
\* page of this one; `moved` records it, if the heap is one that can be destroyed.
Adopted(h, p) ==
  [c \in Blocks |->
     IF c \in On(p) /\ owner[p] = Abandoned /\ h # Default /\ block[c].origin # Origin(h)
     THEN [block[c] EXCEPT !.moved = TRUE]
     ELSE block[c]]

Alloc(t, h, b) ==
  /\ Ready(t)
  /\ h # Default => handle[h] /\ HasTheap(t, h)
  /\ block[b] = None
  /\ \E p \in Pages :
       /\ Serves(t, h, p)
       /\ owner' = [owner EXCEPT ![p] = <<t, h>>]
       /\ block' = [Adopted(h, p) EXCEPT ![b] =
                      [page |-> p, life |-> life[p], origin |-> Origin(h),
                       state |-> "live", moved |-> FALSE]]
  /\ UNCHANGED <<refs, gen, handle, theaps, registry, pc, cur, exiting, life>>

\* free: by any thread; an abandoned page that empties is released.  If the
\* page was released under the block the lookup finds nothing and free returns;
\* a free into a page that was made there since is left out.
FreeBlock(t, b) ==
  /\ Ready(t)
  /\ block[b] # None /\ block[b].state = "live"
  /\ HasPage(b) \/ owner[block[b].page] = Unused
  /\ block' = [block EXCEPT ![b] = None]
  /\ owner' = [p \in Pages |->
       IF On(p) = {b} /\ owner[p] = Abandoned THEN Unused ELSE owner[p]]
  /\ UNCHANGED <<refs, gen, handle, theaps, registry, pc, cur, exiting, life>>

-----------------------------------------------------------------------------
(***************************************************************************)
(* Heap::delete and Heap::destroy: take this thread's theap out of its     *)
(* registry and tear it down, then release the handle's reference.  The    *)
(* caller guarantees that nobody uses the handle any more.                 *)
(***************************************************************************)
NobodyUses(h) == \A u \in Threads : ~(cur[u] = h /\ pc[u] = "link")

GiveUpHandle(t, h, teardown) ==
  /\ Ready(t)
  /\ handle[h] /\ NobodyUses(h)
  /\ handle' = [handle EXCEPT ![h] = FALSE]
  /\ cur' = [cur EXCEPT ![t] = h]
  /\ registry' = [registry EXCEPT ![t] = RemoveFirst(@, h)]
  /\ Goto(t, IF HasTheap(t, h) THEN teardown ELSE "unrefHandle")
  /\ UNCHANGED <<refs, gen, theaps, exiting, owner, life>>

Delete(t, h) == GiveUpHandle(t, h, "unlink") /\ UNCHANGED block

\* After destroy no block of the heap may be used.  The caller guarantees that
\* no other thread is busy with the heap.
Destroy(t, h) ==
  /\ \A u \in Threads : ~TearsDown(u, h)
  /\ GiveUpHandle(t, h, "bulk")
  /\ block' = [b \in Blocks |->
       IF block[b] # None /\ block[b].origin = Origin(h)
       THEN [block[b] EXCEPT !.state = "dead"]
       ELSE block[b]]

\* mutant: the default theap is taken for the thread's theap of the heap
BulkFree_DefaultTheap(t) ==
  LET mine == {p \in Pages : owner[p] = <<t, Default>>} IN
  /\ pc[t] = "bulk"
  /\ theaps' = [theaps EXCEPT ![cur[t]] = @ \ {t}]
  /\ owner' = [p \in Pages |-> IF p \in mine THEN Unused ELSE owner[p]]
  /\ life' = [p \in Pages |-> IF p \in mine THEN life[p] + 1 ELSE life[p]]
  /\ block' = [b \in Blocks |->
       IF block[b] # None /\ block[b].state = "dead" /\ block[b].page \in mine
       THEN None ELSE block[b]]
  /\ Goto(t, "unref")
  /\ UNCHANGED <<refs, gen, handle, registry, cur, exiting>>

\* teardown_theap_bulk: unlink the theap, then release its pages as they are,
\* whatever blocks are on them.  The program still holds those of other heaps.
BulkFree(t) ==
  LET mine == {p \in Pages : owner[p] = <<t, cur[t]>>} IN
  /\ pc[t] = "bulk"
  /\ theaps' = [theaps EXCEPT ![cur[t]] = @ \ {t}]
  /\ owner' = [p \in Pages |-> IF p \in mine THEN Unused ELSE owner[p]]
  /\ life' = [p \in Pages |-> IF p \in mine THEN life[p] + 1 ELSE life[p]]
  /\ block' = [b \in Blocks |->
       IF block[b] # None /\ block[b].state = "dead" /\ block[b].page \in mine
       THEN None ELSE block[b]]
  /\ Goto(t, "unref")
  /\ UNCHANGED <<refs, gen, handle, registry, cur, exiting>>

\* teardown_theap: Drop unlinks the theap ...
Unlink(t) ==
  /\ pc[t] = "unlink"
  /\ theaps' = [theaps EXCEPT ![cur[t]] = @ \ {t}]
  /\ Goto(t, "handOff")
  /\ UNCHANGED <<refs, gen, handle, registry, cur, exiting, owner, life, block>>

\* Empty pages are released, the others abandoned.
HandedOff(th) ==
  [p \in Pages |-> IF owner[p] # th THEN owner[p]
                   ELSE IF On(p) = {} THEN Unused ELSE Abandoned]

\* ... hands off its pages ...
HandOff(t) ==
  /\ pc[t] = "handOff"
  /\ owner' = HandedOff(<<t, cur[t]>>)
  /\ Goto(t, "unref")
  /\ UNCHANGED <<refs, gen, handle, theaps, registry, cur, exiting, life, block>>

\* ... and the theap's reference, then the handle's, are released; at 0 the
\* heap's metadata is free.
Unref(t) ==
  /\ pc[t] \in {"unref", "unrefHandle"}
  /\ refs' = [refs EXCEPT ![cur[t]] = @ - 1]
  /\ \/ /\ pc[t] = "unref" /\ t \notin exiting
        /\ Goto(t, "unrefHandle")
        /\ UNCHANGED cur
     \/ /\ pc[t] = "unrefHandle" \/ t \in exiting
        /\ Goto(t, "idle")
        /\ cur' = [cur EXCEPT ![t] = None]
  /\ UNCHANGED <<gen, handle, theaps, registry, exiting, owner, life, block>>

-----------------------------------------------------------------------------
\* A thread exits: the default theap is dropped and the registry's theaps are
\* torn down one after another.
Exit(t) ==
  /\ Ready(t)
  /\ exiting' = exiting \cup {t}
  /\ owner' = HandedOff(<<t, Default>>)
  /\ UNCHANGED <<refs, gen, handle, theaps, registry, pc, cur, life, block>>

ExitTheap(t) ==
  /\ t \in exiting /\ pc[t] = "idle"
  /\ registry[t] # <<>>
  /\ cur' = [cur EXCEPT ![t] = Head(registry[t])]
  /\ registry' = [registry EXCEPT ![t] = Tail(@)]
  /\ Goto(t, "unlink")
  /\ UNCHANGED <<refs, gen, handle, theaps, exiting, owner, life, block>>

ExitDone(t) ==
  /\ t \in exiting /\ pc[t] = "idle"
  /\ registry[t] = <<>>
  /\ Goto(t, "gone")
  /\ UNCHANGED <<refs, gen, handle, theaps, registry, cur, exiting, owner, life, block>>

Next == \E t \in Threads :
  \/ \E h \in Heaps : NewHeap(t, h) \/ NewTheap(t, h) \/ Delete(t, h) \/ Destroy(t, h)
  \/ \E h \in Heaps \cup {Default}, b \in Blocks : Alloc(t, h, b)
  \/ \E b \in Blocks : FreeBlock(t, b)
  \/ Link(t) \/ BulkFree(t) \/ Unlink(t) \/ HandOff(t) \/ Unref(t)
  \/ Exit(t) \/ ExitTheap(t) \/ ExitDone(t)

Spec == Init /\ [][Next]_vars

-----------------------------------------------------------------------------
Holders(h) == {t \in Threads : HasTheap(t, h) \/ TearsDown(t, h)
                               \/ (cur[t] = h /\ pc[t] = "link")}
Deleting(h) == \E t \in Threads :
  cur[t] = h /\ t \notin exiting /\ pc[t] \in {"unlink", "handOff", "bulk", "unref", "unrefHandle"}

\* "one alive ref held until delete/destroy, plus one per live on-demand
\* theap": in every interleaving of creation, deletion and thread exit.
RefcountIsExact ==
  \A h \in Heaps :
    refs[h] = Cardinality(Holders(h)) + (IF handle[h] \/ Deleting(h) THEN 1 ELSE 0)

\* No theap outlives its heap: a theap that is in a registry, in a heap's list
\* or being torn down, and a page's owner, belong to a heap that is not freed.
TheapsHaveTheirHeap ==
  /\ \A t \in Threads, h \in Heaps :
       HasTheap(t, h) \/ TearsDown(t, h) \/ t \in theaps[h] => Alive(h)
  /\ \A p \in Pages, t \in Threads, h \in Heaps :
       owner[p] = <<t, h>> => HasTheap(t, h) \/ TearsDown(t, h)

\* Deleting a heap and exiting a thread hand pages over, and destroying a heap
\* ends "its blocks" only: a block the program may still use lies in its page.
\* The exception is a block whose page a theap of another first-class heap has
\* adopted: destroying that heap releases the page with the block in it.
ValidBlocksHavePages ==
  \A b \in Blocks : block[b] # None /\ block[b].state = "live"
                    => HasPage(b) \/ block[b].moved

\* Creation, deletion, destruction and thread exit, in any order and on any
\* thread, keep the reference count exact, and a heap outlives its theaps.
HeapsAreSound == TypeOK /\ RefcountIsExact /\ TheapsHaveTheirHeap

=============================================================================
